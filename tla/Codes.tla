------------------------------- MODULE Codes -------------------------------
(***************************************************************************)
(* How an operand becomes a part of the code of an instruction, and how it *)
(* is read back: the terms in which the modules of the CPUs say what their *)
(* assembler (asm/), disassembler (disasm/) and simulator (simulate/) do.  *)
(*                                                                         *)
(* The code of an instruction is the set of its bits that are set, by      *)
(* their number.  Byte n of an instruction that is put together from bytes *)
(* has the numbers from 8 * n, word n of one of words those from 16 * n.   *)
(* Bits move in groups                                                     *)
(*     <<from, width, to>>                                                 *)
(* as ((value >> from) & mask) << to in the code.                          *)
(***************************************************************************)
EXTENDS Integers, FiniteSetsExt

Bit(value, n) == (value \div 2^n) % 2

\* The bits of value in its places in the code.
Spread(groups, value) ==
  UNION {{g[3] + i : i \in {j \in 0..(g[2] - 1) : Bit(value, g[1] + j) = 1}} :
         g \in groups}

\* The value that is put together again from the code.
Gather(groups, code) ==
  SumSet(UNION {{2^(g[1] + i) : i \in {j \in 0..(g[2] - 1) : g[3] + j \in code}} :
                g \in groups})

Unsigned == -1

\* The value with bit sign taken for its sign.
Extended(sign, value) ==
  IF sign # Unsigned /\ Bit(value, sign) = 1 THEN value - 2^(sign + 1) ELSE value

\* The bits of a mask of 32 or of 16 bits.
Mask(high, low) == Spread({<<0, 16, 16>>}, high) \union Spread({<<0, 16, 0>>}, low)
Mask16(low) == Spread({<<0, 16, 0>>}, low)

At(to, width) == {<<0, width, to>>}
Operand(n) == At(8 * n, 8)
LowThenHigh(n) == {<<0, 8, 8 * n>>, <<8, 8, 8 * n + 8>>}
HighThenLow(n) == {<<8, 8, 8 * n>>, <<0, 8, 8 * n + 8>>}

-----------------------------------------------------------------------------
(* The kinds of encoders.  What is put in the code is                      *)
(*   number      the operand, less the bias                                *)
(*   register    its number                                                *)
(*   offset      its distance from base behind the instruction             *)
(*   magnitude   that distance with its sign in bit minus of the code      *)
(*   page        the place within the page of the instruction              *)
(* when it lies within lo..hi and is a multiple of align.                  *)

Plain ==
  [kind |-> "number", base |-> 0, lo |-> 0, hi |-> 0, groups |-> {}, unit |-> 1,
   align |-> 1, way |-> 1, bias |-> 0, size |-> 1, minus |-> -1, sign |-> Unsigned,
   space |-> 2^30, exact |-> TRUE]

Number(lo, hi, groups) == [Plain EXCEPT !.lo = lo, !.hi = hi, !.groups = groups]
Register(to, width) ==
  [Number(0, 2^width - 1, At(to, width)) EXCEPT !.kind = "register"]
Offset(base, lo, hi, groups) ==
  [Number(lo, hi, groups) EXCEPT !.kind = "offset", !.base = base]
Magnitude(base, most, groups, minus) ==
  [Number(-most, most, groups) EXCEPT !.kind = "magnitude", !.base = base, !.minus = minus]
SamePage(size, groups) == [Plain EXCEPT !.kind = "page", !.size = size, !.groups = groups]

(* The kinds of decoders: the bits of the code, their sign extended, and   *)
(* the same steps back.                                                    *)
Reads(sign, groups) == [Plain EXCEPT !.sign = sign, !.groups = groups]
ReadsField(to, width) == Reads(Unsigned, At(to, width))
Shows(base, sign, groups) ==
  [Reads(sign, groups) EXCEPT !.kind = "offset", !.base = base]
ShowsMagnitude(base, groups, minus) ==
  [Reads(Unsigned, groups) EXCEPT !.kind = "magnitude", !.base = base, !.minus = minus]
ShowsPage(size, groups) == SamePage(size, groups)

Aligned(n, f) == [f EXCEPT !.align = n]
Even(f) == Aligned(2, f)
Words(f) == [f EXCEPT !.unit = 2]       \* addresses are words, the program counts bytes
Back(f) == [f EXCEPT !.way = -1]        \* what is subtracted
Less(n, f) == [f EXCEPT !.bias = n]     \* the code counts from n
Space(size, f) == [f EXCEPT !.space = size]
Loose(f) == [f EXCEPT !.exact = FALSE]  \* shows what the assembler does not take

(* A form of instruction is the sequence of the encoders and of the        *)
(* decoders of its operands, the decoders of the simulator, if there is    *)
(* one, and the bits of the code that tell what instruction it is.         *)
Form(asm, disasm, fixed) == [asm |-> asm, disasm |-> disasm, sim |-> {}, fixed |-> fixed]
Simulated(f, used) == [f EXCEPT !.sim = {used}]

\* The forms of a table, whose rows give the kinds of the operands and the
\* fixed bits.
FormsOf(asm, disasm, rows) ==
  [i \in DOMAIN rows |->
    LET kinds == rows[i][1]
    IN Form([k \in DOMAIN kinds |-> asm[kinds[k]]],
            [k \in DOMAIN kinds |-> disasm[kinds[k]]], rows[i][2])]

-----------------------------------------------------------------------------
(* What they do, for an instruction at an address. *)

Relative(f) == f.kind \in {"offset", "magnitude"}

\* What a branch counts from, in the units of its CPU.
Here(f, address) == address \div f.unit + f.base

\* What the assembler computes from operand x.
Computed(e, address, x) ==
  IF Relative(e) THEN e.way * (x - Here(e, address)) ELSE e.way * x

Accepts(e, address, x) ==
  LET v == Computed(e, address, x)
  IN IF e.kind = "page" THEN x \div e.size = address \div e.size
     ELSE v % e.align = 0 /\ e.lo <= v /\ v <= e.hi

Encoded(e, address, x) ==
  LET v == Computed(e, address, x)
  IN IF e.kind = "magnitude" /\ v < 0 THEN Spread(e.groups, -v) \union {e.minus}
     ELSE Spread(e.groups, v - e.bias)

Decoded(d, address, code) ==
  LET v == Extended(d.sign, Gather(d.groups, code))
  IN CASE d.kind = "offset"    -> (Here(d, address) + d.way * v) % d.space
       [] d.kind = "magnitude" ->
            (Here(d, address) + (IF d.minus \in code THEN -v ELSE v)) % d.space
       [] d.kind = "page"      -> (address \div d.size) * d.size + v
       [] OTHER                -> d.way * (v + d.bias)

\* The bits of the operand that are in the code lie below this one.
Top(f) == Max({g[1] + g[2] : g \in f.groups})

\* Some code is shown with the operand x.
InReach(d, address, x) ==
  LET v == Computed(d, address, x) - d.bias
      grain == Min({2^g[1] : g \in d.groups})
  IN CASE d.kind = "page"      -> x \div d.size = address \div d.size
       [] d.kind = "magnitude" -> -(2^Top(d)) < v /\ v < 2^Top(d)
       [] OTHER ->
            /\ v % grain = 0
            /\ IF d.sign = Unsigned THEN 0 <= v /\ v < 2^Top(d)
               ELSE -(2^d.sign) <= v /\ v < 2^d.sign
=============================================================================
