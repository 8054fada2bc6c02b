-------------------------------- MODULE Alu --------------------------------
(***************************************************************************)
(* The terms in which the modules of the processors say what the           *)
(* instructions do to the machines of simulate/*.cpp.                      *)
(*                                                                         *)
(* A machine is a record: its registers are numbers, its flags 0 or 1, m   *)
(* its memory, and pc counts instructions whatever their length.  An       *)
(* instruction is a record as the tables of table/ describe it: the        *)
(* operation, the kind of its operands, and the operands.                  *)
(***************************************************************************)
EXTENDS Codes, Sequences, Bitwise, TLC

Flag(b) == IF b THEN 1 ELSE 0
On(v, n) == Bit(v, n) = 1

Byte(v) == v % 256
Word(v) == v % 65536
Signed(width, v) == Extended(width - 1, v % 2^width)

\* The carry out of bit n of o1 + o2 = r and the borrow out of o1 - o2 = r,
\* from the bits n of the three as the simulators do.
Majority(o1, o2, r, n) ==
  \/ On(o1, n) /\ On(o2, n)
  \/ On(r, n) /\ (On(o1, n) \/ On(o2, n))
Carried(o1, o2, r, n) ==
  \/ On(o1, n) /\ On(o2, n)
  \/ ~On(r, n) /\ (On(o1, n) \/ On(o2, n))
Borrowed(o1, o2, r, n) ==
  \/ ~On(o1, n) /\ (On(o2, n) \/ On(r, n))
  \/ On(o1, n) /\ On(o2, n) /\ On(r, n)

EvenParity(v) == Cardinality({n \in 0..7 : On(v, n)}) % 2 = 0

\* The cells that were never written hold 0.
Peek(s, a) == IF a \in DOMAIN s.m THEN s.m[a] ELSE 0
Poke(s, a, v) == [s EXCEPT !.m = (a :> Byte(v)) @@ @]
PeekBig(s, a) == 256 * Peek(s, a) + Peek(s, a + 1)
PeekLittle(s, a) == Peek(s, a) + 256 * Peek(s, a + 1)
PokeBig(s, a, v) == Poke(Poke(s, a, v \div 256), a + 1, v)
PokeLittle(s, a, v) == Poke(Poke(s, a, v), a + 1, v \div 256)

-----------------------------------------------------------------------------
(* What is claimed of programs of a few instructions.  They start with two *)
(* operands of the size of their kind, "bytes" or "words", where the CPU   *)
(* has its Start put them, and with a carry.                               *)
(*   agree    code and also have the same effect, but for some registers   *)
(*   decide   the branch at the end of code is taken when relation holds   *)
(*   sum      what code computes adds up: the terms are weights of a       *)
(*            register or flag, or of the cell of the memory ("m")         *)

NoTask == [cpu |-> "", claim |-> "none", kind |-> "bytes", code |-> << >>, also |-> << >>,
           but |-> {}, relation |-> "", terms |-> << >>]

Agree(cpu, kind, code, also, but) ==
  [NoTask EXCEPT !.cpu = cpu, !.claim = "agree", !.kind = kind, !.code = code,
                 !.also = also, !.but = but]
Undone(cpu, kind, code, but) == Agree(cpu, kind, code, << >>, but)
Decide(cpu, kind, code, relation) ==
  [NoTask EXCEPT !.cpu = cpu, !.claim = "decide", !.kind = kind, !.code = code,
                 !.relation = relation]
AddsUp(cpu, kind, code, relation, terms) ==
  [NoTask EXCEPT !.cpu = cpu, !.claim = "sum", !.kind = kind, !.code = code,
                 !.relation = relation, !.terms = terms]

\* The programs of 16 bit CPUs lie where the low byte of pc runs over.
Base == 33022
=============================================================================
