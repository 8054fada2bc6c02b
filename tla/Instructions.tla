---------------------------- MODULE Instructions ----------------------------
(***************************************************************************)
(* How the operands of an instruction become its code and are read back.   *)
(* Three parts of the program, written apart from each other, have to      *)
(* agree about each form of instruction: the assembler of a CPU, its       *)
(* disassembler and, where there is one, its simulator.                    *)
(*                                                                         *)
(* Pass 2 is modelled: in pass 1 the operands are taken for 0.             *)
(***************************************************************************)
EXTENDS Codes, Sequences

CONSTANTS
  Forms,      \* the forms of instructions that are looked at
  Homes       \* an instruction lies around one of these addresses

-----------------------------------------------------------------------------
VARIABLES
  form,       \* the form of the instruction, by its number
  at,         \* the address where it lies, in bytes,
  operands,   \* and the operands it is written with
  step,       \* "written", "assembled", "refused", "listed" or "run"
  code,       \* the bits of each operand in the code
  shown,      \* the operands that the listing shows
  taken       \* the operands that the simulators use

vars == <<form, at, operands, step, code, shown, taken>>

Encoders == Forms[form].asm
Decoders == Forms[form].disasm
Simulators == Forms[form].sim
Fixed == Forms[form].fixed

Bits == UNION {code[i] : i \in DOMAIN code}

-----------------------------------------------------------------------------
(* Values of operands.  A branch may lie at a few places around a home     *)
(* that is large enough for the offsets of its form, and is written with   *)
(* the labels around the limits of the encoder and of the code, and around *)
(* itself; a number with the values around its limits.                     *)

Grain(e) == IF Relative(e) THEN e.unit * e.align ELSE 1

Home(e) ==
  IF Relative(e) THEN Min({h \in Homes : h >= e.unit * (6 - e.lo) /\ h >= e.unit * e.hi})
  ELSE Min(Homes)

Places(e) == {Home(e) + k * Grain(e) : k \in -2..2}

Around(n) == (n - 3)..(n + 3)

Values(e, d, address) ==
  CASE Relative(e) ->
         {n \in UNION {Around(Here(e, address) + e.way * n) :
                       n \in {e.lo, e.hi, 0, -e.base, 2 * e.hi, e.hi \div 2, e.lo \div 2}} :
          n >= 0 /\ n < d.space}
    [] e.kind = "page" ->
         {n \in UNION {Around((address \div 256 + k) * 256) : k \in -1..2} : n >= 0}
    [] e.kind = "register" -> {e.lo, e.hi, e.hi \div 3}
    [] OTHER -> UNION {Around(e.way * n) : n \in {e.lo, e.hi, 0, e.hi \div 3, e.lo \div 3}}

\* The other operands are all small or all large.
Usual(e, address, large) ==
  LET v == IF large THEN e.hi - (e.hi % e.align) ELSE e.lo + ((-e.lo) % e.align)
  IN CASE Relative(e) -> Here(e, address) + e.way * v
       [] e.kind = "page" -> address
       [] OTHER -> e.way * v

\* The operand that wants the most room says where the instruction lies.
Widest(asm) ==
  LET far == {i \in DOMAIN asm : Relative(asm[i])}
  IN IF far = {} THEN asm[1] ELSE asm[Min(far)]

Init ==
  /\ form \in DOMAIN Forms
  /\ at \in Places(Widest(Encoders))
  /\ \E i \in DOMAIN Encoders, large \in BOOLEAN :
       \E x \in Values(Encoders[i], Decoders[i], at) :
         operands = [j \in DOMAIN Encoders |->
                       IF j = i THEN x ELSE Usual(Encoders[j], at, large)]
  /\ step = "written"
  /\ code = << >> /\ shown = << >> /\ taken = {}

-----------------------------------------------------------------------------
AllAccepted ==
  \A i \in DOMAIN operands : Accepts(Encoders[i], at, operands[i])

Decode(ds) == [i \in DOMAIN ds |-> Decoded(ds[i], at, Bits)]

\* Pass 2 of the assembler comes to the instruction.
Assemble ==
  /\ step = "written"
  /\ AllAccepted
  /\ step' = "assembled"
  /\ code' = [i \in DOMAIN operands |-> Encoded(Encoders[i], at, operands[i])]
  /\ UNCHANGED <<form, at, operands, shown, taken>>

\* An operand is out of range or not aligned: an error.
Refuse ==
  /\ step = "written"
  /\ ~AllAccepted
  /\ step' = "refused"
  /\ UNCHANGED <<form, at, operands, code, shown, taken>>

\* The listing, and the disassembler of naken_util.
Disassemble ==
  /\ step = "assembled"
  /\ step' = "listed"
  /\ shown' = Decode(Decoders)
  /\ UNCHANGED <<form, at, operands, code, taken>>

\* The simulator comes to the instruction and uses its operands.
Simulate ==
  /\ step = "listed"
  /\ step' = "run"
  /\ taken' = {Decode(s) : s \in Simulators}
  /\ UNCHANGED <<form, at, operands, code, shown>>

Next == Assemble \/ Refuse \/ Disassemble \/ Simulate

Spec == Init /\ [][Next]_vars

-----------------------------------------------------------------------------
\* The operand x of e is shown as y: the same address, or the same number,
\* signed or unsigned, of as many bits as are in the code.
Same(e, x, y) ==
  IF Relative(e) \/ e.kind = "page" THEN x = y
  ELSE /\ (x - y) % 2^Top(e) = 0
       /\ -(2^(Top(e) - 1)) <= e.way * x - e.bias /\ e.way * x - e.bias < 2^Top(e)

(***************************************************************************)
(* An instruction that is assembled without an error is listed with the    *)
(* operands it was written with, and the simulator uses them.  The three   *)
(* parts must agree about the place of each bit of each operand, its sign  *)
(* and what an offset is counted from, and the limits that the assembler   *)
(* checks must not exceed what the code holds.                             *)
(***************************************************************************)
OperandsComeBack ==
  \A used \in (IF step \in {"listed", "run"} THEN {shown} ELSE {}) \union taken :
    \A i \in DOMAIN used : Same(Encoders[i], operands[i], used[i])

(***************************************************************************)
(* The operands of an instruction lie apart in its code, and none of them  *)
(* touches the bits that tell which instruction it is: no operand changes  *)
(* another one, or the instruction.                                        *)
(***************************************************************************)
OperandsApart ==
  \A i \in DOMAIN code :
    /\ code[i] \intersect Fixed = {}
    /\ \A j \in DOMAIN code : i # j => code[i] \intersect code[j] = {}

(***************************************************************************)
(* The assembler refuses only what no code of the instruction could        *)
(* express: the limits in its range checks are not narrower than the field *)
(* that the disassembler reads, so that a listing can be assembled again.  *)
(***************************************************************************)
RefusedIsOutOfReach ==
  step = "refused" =>
    \E i \in DOMAIN operands :
      /\ ~Accepts(Encoders[i], at, operands[i])
      /\ Decoders[i].exact => ~InReach(Decoders[i], at, operands[i])
=============================================================================
