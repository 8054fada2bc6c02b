--------------------------- MODULE OperandSizing ---------------------------
(***************************************************************************)
(* The length of an instruction whose operand is an expression, in the two *)
(* passes.  Many CPUs have a short and a long form of an instruction, and  *)
(* parse_instruction_*() chooses by the value of the operand, which pass 1 *)
(* may not know yet.  What pass 2 has to know of that decision is kept in  *)
(* the memory image, as a byte at the address of the instruction.          *)
(*                                                                         *)
(* A program is a sequence of instructions of one kind ("way": a CPU and a *)
(* shape of operand).  An operand is a number or the label of one of the   *)
(* instructions, so that the values of operands follow from the layout and *)
(* the layout from the values.  A label of its own instruction, or of one  *)
(* before it, is known in pass 1.                                          *)
(***************************************************************************)
EXTENDS Integers, Sequences

CONSTANTS
  Ways,          \* the kinds of instructions a program may consist of
  MaxStatements, \* a bound on the instructions of a program
  Numbers,       \* the numbers an operand may be
  Origins        \* where a program may start

KnownWays ==
  { "msp430_immediate", "riscv_li", "riscv_call", "mips_li", "stm8_address",
    "68hc08_operand", "6800_address", "epiphany_immediate", "unsp_immediate",
    "65816_address", "65816_indirect", "68000_absolute", "6809_index",
    "arc_operand", "tms340_immediate", "java_index", "f100_l_address",
    "f100_l_short" }

(* The ways that leave a mark for pass 2, or need none. *)
MarkedWays ==
  KnownWays \ {"65816_indirect", "6809_index", "arc_operand",
               "tms340_immediate", "f100_l_short"}

ASSUME OperandSizingConstants ==
  /\ Ways \subseteq KnownWays
  /\ MaxStatements \in Nat \ {0}

ASSUME OperandSizingValues ==
  /\ Numbers \subseteq Int
  /\ Origins \subseteq Nat

Byte    == 0 .. 255
Address == 0 .. 65535
LongAddress == 0 .. 16777215
Word    == -32768 .. 65535
Signed16 == -32768 .. 32767
Signed12 == -2048 .. 2047
Signed8  == -128 .. 127
Signed5  == -16 .. 15
Code    == 256     \* a byte of an instruction, none of the marks below

VARIABLES
  way,      \* the CPU, fixed for a program
  prog,     \* the operands of its instructions
  pass,     \* 1 or 2, 3 once both are done, 0 after an error
  next,     \* the instruction to be assembled
  address,  \* AsmContext::address
  labels,   \* the addresses of the labels, as pass 1 finds them
  image,    \* the bytes of the memory image that were written
  cut       \* instructions that do not hold their operand, though they could

vars == << way, prog, pass, next, address, labels, image, cut >>

-----------------------------------------------------------------------------
(* What an encoder decides: the bytes of the instruction, and the operands *)
(* its field can hold.                                                     *)

(* The operands of instructions that only set the upper bits. *)
UpperOf12 == {v \in Int : v % 4096 = 0}
UpperOf16 == {v \in Int : v % 65536 = 0}

UpTo16    == {v \in Int : v <= 65535}
EightBits == -128 .. 255
SixBits   == 0 .. 63

(* Jumps from the second of two instructions, addresses of 11 and 15 bits. *)
Near(at)  == (at + 4) - 2048 .. (at + 4) + 2047
Low       == 1 .. 2047
Wordwise  == 0 .. 32767

Form(size, holds) == [size |-> size, holds |-> holds]

Rejected == Form(0, {})

(* g is what an encoder is given: the pass, whether the operand could be   *)
(* evaluated, its value, the byte at the address, and the address.         *)

Generated == {-1, 0, 1, 2, 4, 8, 65535}

Msp430Immediate(g) ==
  IF g.mark # 1 /\ g.value \in Generated THEN Form(2, Generated)
  ELSE IF g.value \in Word THEN Form(4, Word) ELSE Rejected

RiscvLi(g) ==
  IF g.mark = 1 THEN Form(8, Int)
  ELSE IF g.value \in Signed12 THEN Form(4, Signed12)
  ELSE IF g.value \in UpperOf12 THEN Form(4, UpperOf12)
  ELSE Form(8, Int)

RiscvCall(g) ==
  IF g.mark # 1 /\ g.value \in Near(g.at) THEN Form(4, Near(g.at))
  ELSE Form(8, Int)

(* Fault: what pass 1 did not know is not looked up in pass 2. *)
MipsLi_NoMark(g) ==
  IF ~g.known THEN Form(8, Int)
  ELSE IF g.value \in Word THEN Form(4, Word)
  ELSE IF g.value \in UpperOf16 THEN Form(4, UpperOf16)
  ELSE Form(8, Int)

MipsLi(g) ==
  IF g.mark = 1 THEN Form(8, Int)
  ELSE IF g.value \in Word THEN Form(4, Word)
  ELSE IF g.value \in UpperOf16 THEN Form(4, UpperOf16)
  ELSE Form(8, Int)

(* NUM_SIZE_UNKNOWN: the entry of the table after the one for eight bits.  *)
(* A number of 24 bits finds no entry.                                     *)
Stm8Unknown == 3

Stm8Address(g) ==
  IF ~g.known \/ g.mark = Stm8Unknown THEN Form(3, Word)
  ELSE IF g.value \in EightBits THEN Form(2, EightBits)
  ELSE IF g.value \in Word THEN Form(3, Word) ELSE Rejected

(* Fault: the limit of the short form is 0x1ff. *)
Hc08Operand_Wide(g) ==
  IF g.mark # 1 /\ g.value \in -128 .. 511
  THEN Form(2, EightBits) ELSE Form(3, Word)

Hc08Operand(g) ==
  IF g.mark # 1 /\ g.value \in EightBits \ {255}
  THEN Form(2, EightBits) ELSE Form(3, Word)

(* The mark is the size of the address, and left for every instruction;    *)
(* pass 2 goes by the mark alone.                                          *)
M6800Address(g) ==
  LET short == IF g.pass = 1 THEN g.value \in Byte ELSE g.mark = 1
      long  == IF g.pass = 1 THEN g.value \in Address \ Byte ELSE g.mark = 2
  IN  IF short THEN Form(2, Byte) ELSE IF long THEN Form(3, Address) ELSE Rejected

EpiphanyImmediate(g) ==
  IF g.mark = 0 /\ g.value \in Byte THEN Form(2, Byte)
  ELSE IF g.value \in Word THEN Form(4, Word) ELSE Rejected

UnspImmediate(g) ==
  IF g.mark = 0 /\ g.value \in SixBits THEN Form(2, SixBits)
  ELSE IF g.value \in Word THEN Form(4, Word) ELSE Rejected

W65816Address(g) ==
  IF g.mark # 1 /\ g.value \in Byte THEN Form(2, Byte)
  ELSE IF g.value \in Address THEN Form(3, Address)
  ELSE IF g.mark # 1 /\ g.value \in LongAddress
  THEN Form(4, LongAddress) ELSE Rejected

(* ignore_operand() reads past the closing parenthesis, so no addressing   *)
(* mode is recognised, and pass 1 does not mind that there is no opcode.   *)
W65816Indirect(g) == IF g.known THEN Form(2, Byte) ELSE Form(1, {})

M68000Absolute(g) ==
  IF g.mark = 0 /\ g.value \in UpTo16 THEN Form(4, Word) ELSE Form(6, Int)

(* No mark: only pass 1 takes the long form for an unknown offset. *)
M6809Index(g) ==
  IF ~g.known \/ g.value \notin Signed8 THEN Form(4, Word)
  ELSE IF g.value \notin Signed5 THEN Form(3, Signed8)
  ELSE Form(2, Signed5)

ArcOperand(g) ==
  IF g.value \in SixBits THEN Form(4, SixBits) ELSE Form(8, Int)

Tms340Immediate(g) ==
  IF g.mark # 1 /\ g.value \in Signed16
  THEN Form(4, Signed16) ELSE Form(6, Int)

Wide == 196        \* the prefix of an instruction with an index of two bytes

JavaIndex(g) ==
  IF ~g.known THEN Form(4, Address)
  ELSE IF g.value \notin Address THEN Rejected
  ELSE IF g.value \in Byte /\ g.mark # Wide THEN Form(2, Byte)
  ELSE Form(4, Address)

(* The addresses are of words of two bytes.  What is too large for the     *)
(* field is found in pass 2.                                               *)
F100Field(mark) == IF mark = 2 THEN Low ELSE Wordwise

F100Address(g) ==
  IF g.pass = 2 /\ g.value \notin F100Field(g.mark) THEN Rejected
  ELSE IF g.mark # 1 /\ g.value \in Low THEN Form(2, Low) ELSE Form(4, Wordwise)

Encode(w, g) ==
  CASE w = "msp430_immediate"   -> Msp430Immediate(g)
    [] w = "riscv_li"           -> RiscvLi(g)
    [] w = "riscv_call"         -> RiscvCall(g)
    [] w = "mips_li"            -> MipsLi(g)
    [] w = "stm8_address"       -> Stm8Address(g)
    [] w = "68hc08_operand"     -> Hc08Operand(g)
    [] w = "6800_address"       -> M6800Address(g)
    [] w = "epiphany_immediate" -> EpiphanyImmediate(g)
    [] w = "unsp_immediate"     -> UnspImmediate(g)
    [] w = "65816_address"      -> W65816Address(g)
    [] w = "65816_indirect"     -> W65816Indirect(g)
    [] w = "68000_absolute"     -> M68000Absolute(g)
    [] w = "6809_index"         -> M6809Index(g)
    [] w = "arc_operand"        -> ArcOperand(g)
    [] w = "tms340_immediate"   -> Tms340Immediate(g)
    [] w = "java_index"         -> JavaIndex(g)
    [] OTHER                    -> F100Address(g)

-----------------------------------------------------------------------------
(* The marks.                                                              *)

(* add_bin*() write in pass 1, too, unless pass_1_write_disable is set. *)
WritesInPass1(w) ==
  w \in {"6800_address", "6809_index", "arc_operand", "tms340_immediate",
         "java_index"}

(* What an operand that cannot be evaluated leaves at the address. *)
UnknownMark(w) ==
  CASE w = "stm8_address"   -> Stm8Unknown
    [] w = "68000_absolute" -> 4
    [] OTHER                -> 1

(* The byte at the address once the operand was read. *)
Marked(w, p, known, byte) ==
  IF w = "f100_l_short" THEN 2
  ELSE IF p = 1 /\ ~known
          /\ w \notin {"6800_address", "6809_index", "arc_operand", "java_index"}
  THEN UnknownMark(w) ELSE byte

(* The byte at the address once the instruction was assembled in pass 1. *)
LeftByPass1(w, mark, size) ==
  CASE w = "6800_address"              -> size - 1
    [] w = "java_index" /\ size = 4    -> Wide
    [] w = "java_index" /\ size # 4    -> Code
    [] w \in {"6809_index", "arc_operand", "tms340_immediate"} -> Code
    [] OTHER                           -> mark

At(m, a) == IF a \in DOMAIN m THEN m[a] ELSE 0

(* The first byte of an instruction, and the others if it writes them. *)
Written(m, a, first, others) ==
  [x \in DOMAIN m \cup {a} \cup others |->
     IF x = a THEN first ELSE IF x \in others THEN Code ELSE m[x]]

-----------------------------------------------------------------------------
(* The passes.                                                             *)

Operands ==
  [label : {0}, number : Numbers]
    \cup [label : 1 .. MaxStatements + 1, number : {0}]

Unit(w) == IF w \in {"f100_l_address", "f100_l_short", "unsp_immediate"}
           THEN 2 ELSE 1

Known(k, p) == p = 2 \/ prog[k].label <= k

(* What eval_expression() and the encoder make of an unknown operand. *)
Default(w) ==
  IF w \in {"68hc08_operand", "6800_address", "6809_index"} THEN 65535 ELSE 0

Value(k, p) ==
  CASE prog[k].label = 0                 -> prog[k].number
    [] prog[k].label # 0 /\ Known(k, p)  -> labels[prog[k].label] \div Unit(way)
    [] OTHER                             -> Default(way)

Given(k, p, a) ==
  [pass |-> p, known |-> Known(k, p), value |-> Value(k, p), at |-> a,
   mark |-> Marked(way, p, Known(k, p), At(image, a))]

Holdable(w) ==
  CASE w \in {"riscv_li", "riscv_call", "mips_li", "68000_absolute",
              "arc_operand", "tms340_immediate"} -> Int
    [] w \in {"6800_address", "java_index"}      -> Address
    [] w = "65816_address"                       -> LongAddress
    [] w = "65816_indirect"                      -> Byte
    [] w \in {"f100_l_address", "f100_l_short"}  -> Wordwise
    [] OTHER                                     -> Word

Init ==
  /\ way \in Ways
  /\ prog \in [1 .. MaxStatements -> Operands]
  /\ pass = 1
  /\ next = 1
  /\ address \in Origins
  /\ labels = << address >>
  /\ image = << >>
  /\ cut = {}

(* parse_instruction_*() in pass 1, up to the label of the next one. *)
Assemble1 ==
  /\ pass = 1
  /\ next <= MaxStatements
  /\ LET g    == Given(next, 1, address)
         size == Encode(way, g).size
         rest == IF WritesInPass1(way) THEN address + 1 .. address + size - 1 ELSE {}
     IN  IF size = 0
         THEN /\ pass' = 0
              /\ UNCHANGED << next, address, labels, image >>
         ELSE /\ image' = Written(image, address, LeftByPass1(way, g.mark, size), rest)
              /\ address' = address + size
              /\ labels' = Append(labels, address + size)
              /\ next' = next + 1
              /\ UNCHANGED pass
  /\ UNCHANGED << way, prog, cut >>

(* The second pass begins at the .org of the program. *)
StartPass2 ==
  /\ pass = 1
  /\ next > MaxStatements
  /\ pass' = 2
  /\ next' = 1
  /\ address' = labels[1]
  /\ UNCHANGED << way, prog, labels, image, cut >>

Assemble2 ==
  /\ pass = 2
  /\ next <= MaxStatements
  /\ LET g == Given(next, 2, address)
         f == Encode(way, g)
     IN  IF f.size = 0
         THEN /\ pass' = 0
              /\ UNCHANGED << next, address, image, cut >>
         ELSE /\ image' = Written(image, address, Code, address + 1 .. address + f.size - 1)
              /\ address' = address + f.size
              /\ next' = next + 1
              /\ cut' = IF g.value \in Holdable(way) /\ g.value \notin f.holds
                        THEN cut \cup {next} ELSE cut
              /\ UNCHANGED pass
  /\ UNCHANGED << way, prog, labels >>

Finish ==
  /\ pass = 2
  /\ next > MaxStatements
  /\ pass' = 3
  /\ UNCHANGED << way, prog, next, address, labels, image, cut >>

Next == Assemble1 \/ StartPass2 \/ Assemble2 \/ Finish

Spec == Init /\ [][Next]_vars

-----------------------------------------------------------------------------
(* Properties.                                                             *)

(* The state has the shape the code gives it: as many labels as pass 1 has *)
(* reached, and in the image nothing but marks and bytes of instructions.  *)
TypeOK ==
  /\ way \in Ways
  /\ prog \in [1 .. MaxStatements -> Operands]
  /\ pass \in 0 .. 3
  /\ next \in 1 .. MaxStatements + 1
  /\ address \in Nat
  /\ labels \in Seq(Nat)
  /\ pass = 1 => Len(labels) = next
  /\ pass \in {2, 3} => Len(labels) = MaxStatements + 1
  /\ DOMAIN image \subseteq Nat
  /\ \A a \in DOMAIN image : image[a] \in {0, 1, 2, 3, 4, Wide, Code}
  /\ cut \subseteq 1 .. MaxStatements

(* In pass 2 every instruction is assembled at the address its label got   *)
(* in pass 1: the choice of its form is the same in both passes, though    *)
(* only one of them knows the operand (memory_read() and memory_write() of *)
(* the encoders).                                                          *)
PassesAgree == pass \in {2, 3} => address = labels[next]

(* An operand that some form of the instruction can hold is not cut to fit *)
(* a form that cannot.                                                     *)
HoldsOperand == cut = {}

=============================================================================
