----------------------------- MODULE Processors -----------------------------
(***************************************************************************)
(* The simulators of the smaller processors: for each of them the machine  *)
(* that its reset() leaves, what its instructions do, and the programs of  *)
(* a few instructions whose effect a programmer relies on.                 *)
(***************************************************************************)
EXTENDS Alu

Unknown(s) == [s EXCEPT !.known = FALSE]

-----------------------------------------------------------------------------
(* The 6502 and the 65816, of which the simulator has the registers of 8   *)
(* bits.  An instruction is [op, type, n]: operation, mode of addressing   *)
(* and the number behind it, for a branch its distance.                    *)

MosFlag(s, f, b) == [s EXCEPT ![f] = Flag(b)]
MosNz(s, v) == [s EXCEPT !.n = Bit(v, 7), !.z = Flag(v = 0)]
MosSr(s) == 128 * s.n + 64 * s.v + 32 * s.g + 16 * s.b + 8 * s.d + 4 * s.i + 2 * s.z + s.c
MosSetSr(s, v) ==
  [s EXCEPT !.n = Bit(v, 7), !.v = Bit(v, 6), !.g = Bit(v, 5), !.b = Bit(v, 4),
            !.d = Bit(v, 3), !.i = Bit(v, 2), !.z = Bit(v, 1), !.c = Bit(v, 0)]
MosPush(s, v) == [Poke(s, 256 + s.sp, v) EXCEPT !.sp = Byte(@ - 1)]
MosPop(s) == Peek(s, 256 + Byte(s.sp + 1))
MosPopped(s) == [s EXCEPT !.sp = Byte(@ + 1)]

MosPointer(s, lo) == Peek(s, lo) + 256 * Peek(s, Byte(lo + 1))
\* Without an operand the address is that of the next instruction.
Mos6502Address(s, i) ==
  CASE i.type = "none" -> s.pc
    [] i.type \in {"address8", "address16"} -> i.n
    [] i.type = "indexed8_x" -> Byte(i.n + s.x)
    [] i.type = "indexed8_y" -> Word(i.n + s.y)
    [] i.type = "indexed16_x" -> Word(i.n + s.x)
    [] i.type = "indexed16_y" -> Word(i.n + s.y)
    [] i.type = "indirect16" -> PeekLittle(s, i.n)
    [] i.type = "x_indirect8" -> Peek(s, i.n + s.x) + 256 * Peek(s, Byte(i.n + 1 + s.x))
    [] i.type = "indirect8_y" -> Word(MosPointer(s, i.n) + s.y)
    [] i.type = "relative" -> Word(s.pc + i.n)
\* X is added to the pointer and not to where it lies.
Mos65816Address(s, i) ==
  IF i.type = "x_indirect8" THEN Byte(Peek(s, i.n) + s.x) + 256 * Peek(s, Byte(i.n + 1))
  ELSE Mos6502Address(s, i)

MosBcd(v) == 10 * (v \div 16) + (v % 16)
MosAdc(s, m) ==
  LET decimal == s.d = 1
      sum == IF decimal THEN MosBcd(s.a) + MosBcd(m) + s.c ELSE s.a + m + s.c
      r == IF decimal THEN ((sum % 100) % 10) + 16 * ((sum % 100) \div 10) ELSE Byte(sum)
  IN [MosNz(s, r) EXCEPT !.a = r, !.c = Flag(sum > IF decimal THEN 99 ELSE 255),
                         !.v = Bit((s.a ^^ r) & (m ^^ r), 7)]
\* The borrow is added, and V is that of the addition.
MosSbc(s, m) ==
  LET tens(v) == IF v < 0 THEN -16 * (-v \div 10) ELSE 16 * (v \div 10)
      ones(v) == IF v < 0 THEN -(-v % 10) ELSE v % 10
      result == MosBcd(s.a) - MosBcd(m) - (1 - s.c)
      rest == IF result < 0 THEN -(-result % 100) ELSE result
      less == s.a - m + (1 - s.c)
      r == Byte(IF s.d = 1 THEN ones(rest) + tens(rest) ELSE less)
  IN [MosNz(s, r) EXCEPT !.a = r, !.c = Flag((IF s.d = 1 THEN result ELSE less) >= 0),
                         !.v = Bit((s.a ^^ r) & (m ^^ r), 7)]

MosCompare(s, r, m) == MosFlag(MosNz(s, Byte(r - m)), "c", r >= m)
MosCell(s, ea, v) == Poke(MosNz(s, v), ea, v)
MosLoad(s, r, v) == [MosNz(s, v) EXCEPT ![r] = v]

\* A rotation or a shift of A, or of a cell.
MosShift(s, i, ea, m, r, c) ==
  IF i.type = "none" THEN [MosNz(s, r) EXCEPT !.a = r, !.c = c]
  ELSE [MosCell(s, ea, r) EXCEPT !.c = c]

MosBranches ==
  [bcc |-> <<"c", 0>>, bcs |-> <<"c", 1>>, beq |-> <<"z", 1>>, bmi |-> <<"n", 1>>,
   bne |-> <<"z", 0>>, bpl |-> <<"n", 0>>, bvc |-> <<"v", 0>>, bvs |-> <<"v", 1>>]
Mos6502ToBranches(s, i, ea, m) ==
  CASE i.op = "adc" -> MosAdc(s, m)
    [] i.op = "and" -> MosLoad(s, "a", s.a & m)
    [] i.op = "asl" ->
         LET v == IF i.type = "none" THEN s.a ELSE m
         IN MosShift(s, i, ea, m, Byte(2 * v), Bit(v, 7))
    [] i.op \in DOMAIN MosBranches ->
         IF s[MosBranches[i.op][1]] = MosBranches[i.op][2] THEN [s EXCEPT !.pc = ea] ELSE s
\* INY sets the flags from X.
Mos6502ToIny(s, i, ea, m) ==
  CASE i.op = "brk" -> Unknown(s)
    [] i.op = "bit" -> [s EXCEPT !.z = Flag(s.a & m = 0), !.v = Bit(m, 6), !.n = Bit(m, 7)]
    [] i.op = "clc" -> MosFlag(s, "c", FALSE)
    [] i.op = "cld" -> MosFlag(s, "d", FALSE)
    [] i.op = "cli" -> MosFlag(s, "i", FALSE)
    [] i.op = "clv" -> MosFlag(s, "v", FALSE)
    [] i.op = "cmp" -> MosCompare(s, s.a, m)
    [] i.op = "cpx" -> MosCompare(s, s.x, m)
    [] i.op = "cpy" -> MosCompare(s, s.y, m)
    [] i.op = "dec" -> MosCell(s, ea, Byte(m - 1))
    [] i.op = "dex" -> MosLoad(s, "x", Byte(s.x - 1))
    [] i.op = "dey" -> MosLoad(s, "y", Byte(s.y - 1))
    [] i.op = "eor" -> MosLoad(s, "a", s.a ^^ m)
    [] i.op = "inc" -> MosCell(s, ea, Byte(m + 1))
    [] i.op = "inx" -> MosLoad(s, "x", Byte(s.x + 1))
    [] i.op = "iny" -> [MosNz(s, s.x) EXCEPT !.y = Byte(@ + 1)]
Mos6502ToPlp(s, i, ea, m) ==
  LET back == Word(s.pc - 1)
  IN CASE i.op = "jmp" -> [s EXCEPT !.pc = ea]
       [] i.op = "jsr" -> [MosPush(MosPush(s, back \div 256), back) EXCEPT !.pc = ea]
       [] i.op = "lda" -> MosLoad(s, "a", m)
       [] i.op = "ldx" -> MosLoad(s, "x", m)
       [] i.op = "ldy" -> MosLoad(s, "y", m)
       [] i.op = "lsr" ->
            LET v == IF i.type = "none" THEN s.a ELSE m
            IN MosShift(s, i, ea, m, v \div 2, Bit(v, 0))
       [] i.op = "nop" -> s
       [] i.op = "ora" -> MosLoad(s, "a", s.a | m)
       [] i.op = "pha" -> MosPush(s, s.a)
       [] i.op = "php" -> MosPush(s, MosSr(s))
       [] i.op = "pla" -> [MosPopped(s) EXCEPT !.a = MosPop(s)]
       [] i.op = "plp" -> MosSetSr(MosPopped(s), MosPop(s))
MosReturn(s) ==
  LET low == MosPopped(s)
  IN [MosPopped(low) EXCEPT !.pc = Word(256 * MosPop(low) + MosPop(s) + 1)]
Mos6502ToSbc(s, i, ea, m) ==
  LET v == IF i.type = "none" THEN s.a ELSE m
  IN CASE i.op = "rol" -> MosShift(s, i, ea, m, Byte(2 * v) + s.c, Bit(v, 7))
       [] i.op = "ror" -> MosShift(s, i, ea, m, (v \div 2) + 128 * s.c, Bit(v, 0))
       [] i.op = "rti" -> MosReturn(MosSetSr(MosPopped(s), MosPop(s)))
       [] i.op = "rts" -> MosReturn(s)
       [] i.op = "sbc" -> MosSbc(s, m)
\* A copy to X or Y has its sign from the byte behind the instruction.
Mos6502FromSec(s, i, ea, m) ==
  LET copy(r, v) == [s EXCEPT ![r] = v, !.z = Flag(v = 0), !.n = Bit(m, 7)]
  IN CASE i.op = "sec" -> MosFlag(s, "c", TRUE)
       [] i.op = "sed" -> MosFlag(s, "d", TRUE)
       [] i.op = "sei" -> MosFlag(s, "i", TRUE)
       [] i.op = "sta" -> Poke(s, ea, s.a)
       [] i.op = "stx" -> Poke(s, ea, s.x)
       [] i.op = "sty" -> Poke(s, ea, s.y)
       [] i.op = "tax" -> copy("x", s.a)
       [] i.op = "tay" -> copy("y", s.a)
       [] i.op = "tsx" -> copy("x", s.sp)
       [] i.op = "txa" -> MosLoad(s, "a", s.x)
       [] i.op = "txs" -> [s EXCEPT !.sp = s.x]
       [] i.op = "tya" -> MosLoad(s, "a", s.y)

MosToIny == {"brk", "bit", "clc", "cld", "cli", "clv", "cmp", "cpx", "cpy", "dec", "dex", "dey",
             "eor", "inc", "inx", "iny"}
MosToPlp == {"jmp", "jsr", "lda", "ldx", "ldy", "lsr", "nop", "ora", "pha", "php", "pla", "plp"}
MosToSbc == {"rol", "ror", "rti", "rts", "sbc"}
Mos6502Step(s, i) ==
  LET ea == Mos6502Address(s, i)
      m == IF i.type = "immediate" THEN i.n ELSE Peek(s, ea)
  IN CASE i.op \in MosToIny -> Mos6502ToIny(s, i, ea, m)
       [] i.op \in MosToPlp -> Mos6502ToPlp(s, i, ea, m)
       [] i.op \in MosToSbc -> Mos6502ToSbc(s, i, ea, m)
       [] i.op \in {"adc", "and", "asl"} \union DOMAIN MosBranches -> Mos6502ToBranches(s, i, ea, m)
       [] OTHER -> Mos6502FromSec(s, i, ea, m)

\* The 65816 has the text of the 6502, but for the rotations and shifts: mode 4
\* is not that of A here but an address of 16 bits, and the carry is added as a
\* bit with its number, 2^7c for a rotation to the right, which is undefined.
MosOnA(i) == IF i.type = "address16" THEN [i EXCEPT !.type = "none"]
             ELSE IF i.type = "none" THEN [i EXCEPT !.type = "address16"] ELSE i
Mos65816ToBranches(s, i, ea, m) == Mos6502ToBranches(s, IF i.op = "asl" THEN MosOnA(i) ELSE i, ea, m)
Mos65816ToIny(s, i, ea, m) == Mos6502ToIny(s, i, ea, m)
Mos65816ToPlp(s, i, ea, m) == Mos6502ToPlp(s, IF i.op = "lsr" THEN MosOnA(i) ELSE i, ea, m)
Mos65816ToSbc(s, i, ea, m) ==
  LET on == MosOnA(i)
      v == IF on.type = "none" THEN s.a ELSE m
  IN CASE i.op = "rol" ->
            MosShift(s, on, ea, m, Byte(Byte(2 * v) | 2^Bit(v, 7)), Bit(v, 7))
       [] i.op = "ror" /\ s.c = 0 -> MosShift(s, on, ea, m, (v \div 2) | 1, Bit(v, 0))
       [] i.op = "ror" /\ s.c = 1 -> Unknown(s)
       [] OTHER -> Mos6502ToSbc(s, i, ea, m)
Mos65816FromSec(s, i, ea, m) == Mos6502FromSec(s, i, ea, m)
Mos65816Step(s, i) ==
  LET ea == Mos65816Address(s, i)
      m == IF i.type = "immediate" THEN i.n ELSE Peek(s, ea)
  IN CASE i.op \in MosToIny -> Mos65816ToIny(s, i, ea, m)
       [] i.op \in MosToPlp -> Mos65816ToPlp(s, i, ea, m)
       [] i.op \in MosToSbc -> Mos65816ToSbc(s, i, ea, m)
       [] i.op \in {"adc", "and", "asl"} \union DOMAIN MosBranches -> Mos65816ToBranches(s, i, ea, m)
       [] OTHER -> Mos65816FromSec(s, i, ea, m)

Mos6502Reset == [a |-> 0, x |-> 0, y |-> 0, sp |-> 255, pc |-> 0, known |-> TRUE, n |-> 0,
                 v |-> 0, g |-> 0, b |-> 0, d |-> 0, i |-> 0, z |-> 0, c |-> 0, m |-> << >>]
Mos65816Reset == [Mos6502Reset EXCEPT !.sp = 511]

\* The left operand is in A, or in 16 and 17; the right one in 20, or in 18 and
\* 19.  23 to 29 hold pointers to 20.
MosCells(kind, l, r) ==
  [a \in 16..31 |->
     CASE kind = "words" /\ a = 16 -> Byte(l)
       [] kind = "words" /\ a = 17 -> l \div 256
       [] kind = "words" /\ a = 18 -> Byte(r)
       [] kind = "words" /\ a = 19 -> r \div 256
       [] kind = "bytes" /\ a = 20 -> r
       [] a = 23 -> 20
       [] a = 25 -> 18
       [] a = 27 -> 17
       [] a = 29 -> (Base + 3) % 256
       [] a = 30 -> (Base + 3) \div 256
       [] OTHER -> 0]
Mos6502Start(kind, l, r, carry) ==
  [Mos6502Reset EXCEPT !.a = Byte(l), !.x = 2, !.y = 3, !.c = carry, !.pc = Base,
                       !.m = MosCells(kind, l, r)]
Mos65816Start(kind, l, r, carry) == [Mos6502Start(kind, l, r, carry) EXCEPT !.sp = 255]

MosI(op, type, n) == [op |-> op, type |-> type, n |-> n]
MosBy(op) == MosI(op, "none", 0)
MosAt(op, n) == MosI(op, "address8", n)
MosWith(op, n) == MosI(op, "immediate", n)
MosTo(op, n) == MosI(op, "relative", n)
MosGo(op, k) == MosI(op, "address16", Base + k)

MosModes == {<<"address16", 20>>, <<"indexed16_x", 18>>, <<"indexed16_y", 17>>,
             <<"indexed8_x", 18>>, <<"indirect8_y", 27>>}
MosCellModes == {<<"address16", 20>>, <<"indexed8_x", 18>>, <<"indexed16_x", 18>>}
MosIndirect(cpu) == <<"x_indirect8", IF cpu = "6502" THEN 21 ELSE 25>>

\* A flag changed by its instruction, and in a copy of the flags on the stack.
MosOnSr(op, n) == <<MosBy("php"), MosBy("pla"), MosWith(op, n), MosBy("pha"), MosBy("plp")>>
MosOpposite == {<<"bcc", "bcs">>, <<"beq", "bne">>, <<"bmi", "bpl">>, <<"bvc", "bvs">>}
MosTasks(cpu) ==
  {Agree(cpu, "bytes", <<MosI(op, m[1], m[2])>>, <<MosAt(op, 20)>>, {}) :
     op \in {"adc", "and", "cmp", "eor", "lda", "ora", "sbc", "sta"},
     m \in MosModes \union {MosIndirect(cpu)}}
  \union {Agree(cpu, "bytes", <<MosWith(op, n)>>,
            <<MosBy("pha"), MosBy("php"), MosWith("lda", n), MosAt("sta", 31), MosBy("plp"),
              MosBy("pla"), MosAt(op, 31), MosBy("php"), MosBy("pha"), MosWith("lda", 0),
              MosAt("sta", 31), MosBy("pla"), MosBy("plp")>>, {}) :
          op \in {"adc", "and", "cmp", "eor", "lda", "ora", "sbc"}, n \in {1, 128}}
  \union {Agree(cpu, "bytes", <<MosI(op[1], m[1], m[2])>>,
            <<MosAt(op[2], 20), MosBy(op[3]), MosAt(op[4], 20)>>, {op[5]}) :
          op \in {<<"inc", "ldx", "inx", "stx", "x">>, <<"dec", "ldx", "dex", "stx", "x">>,
                  <<"dec", "ldy", "dey", "sty", "y">>},
          m \in {<<"address8", 20>>, <<"address16", 20>>}}
  \union {Agree(cpu, "bytes", <<MosI(op, m[1], m[2])>>, <<MosAt(op, 20)>>, {}) :
          op \in {"inc", "dec"}, m \in {<<"indexed8_x", 18>>, <<"indexed16_x", 18>>}}
  \union {Agree(cpu, "bytes", <<MosI(op, m[1], m[2])>>, <<MosAt(op, 20)>>, {}) :
          op \in {"ldx", "ldy"}, m \in {<<"address16", 20>>, <<"indexed8_x", 18>>}}
  \union {Agree(cpu, "bytes", <<MosBy("iny")>>, <<MosBy("tya"), MosAt("sta", 31), MosAt("inc", 31),
            MosAt("ldy", 31), MosAt("lsr", 31), MosWith("lda", 0), MosAt("sta", 31)>>,
            {"a", "n", "z", "c"})}
  \union {Agree(cpu, "bytes", <<MosAt("bit", 20), MosTo(op[1], 1)>>,
            <<MosI("bit", "address16", 20), MosTo(op[2], 1), MosGo("jmp", 4)>>, {}) :
          op \in MosOpposite}
  \union {Agree(cpu, "bytes", <<MosBy(op[1])>>, MosOnSr(op[2], op[3]), {"a"}) :
          op \in {<<"sec", "ora", 1>>, <<"clc", "and", 254>>, <<"sei", "ora", 4>>,
                  <<"cli", "and", 251>>, <<"sed", "ora", 8>>, <<"cld", "and", 247>>,
                  <<"clv", "and", 191>>}}
  \union {Agree(cpu, "bytes", <<MosBy(op[1]), MosAt(op[2], 31)>>,
            <<MosAt(op[3], 31), MosAt(op[4], 31)>>, op[5]) :
          op \in {<<"txa", "sta", "stx", "lda", {}>>, <<"tya", "sta", "sty", "lda", {}>>,
                  <<"tax", "stx", "sta", "ldx", {"n"}>>, <<"tay", "sty", "sta", "ldy", {"n"}>>}}
  \union {Undone(cpu, "bytes", code, but) :
          code \in {<<MosBy("pha"), MosWith("lda", 0), MosBy("pla")>>,
                    <<MosBy("pha"), MosBy("tsx"), MosBy("inx"), MosBy("txs")>>},
          but \in {{"n", "z", "x"}}}
  \union {Undone(cpu, "bytes", code, {}) :
          code \in {<<MosBy("php"), MosBy("sed"), MosBy("sei"), MosBy("sec"), MosBy("plp")>>,
                    <<MosGo("jsr", 2), MosGo("jmp", 3), MosBy("rts")>>,
                    <<MosGo("jsr", 2), MosGo("jmp", 4), MosBy("php"), MosBy("rti")>>,
                    <<MosBy("nop")>>}}
  \union {Agree(cpu, "bytes", <<MosI("jmp", "indirect16", 29), MosBy("sec"), MosBy("sed")>>,
                <<MosGo("jmp", 3), MosBy("clc"), MosBy("sei")>>, {})}
  \union {Decide(cpu, "bytes", <<MosAt("cmp", 20), MosTo(b[1], 1)>>, b[2]) :
          b \in {<<"beq", "=">>, <<"bne", "#">>, <<"bcs", ">=">>, <<"bcc", "<">>}}
  \union {Decide(cpu, "bytes", <<MosAt("sta", 31), MosAt(op[1], 31), MosAt(op[2], 20),
                                 MosTo("bcc", 1)>>, "<") :
          op \in {<<"ldx", "cpx">>, <<"ldy", "cpy">>}}
  \union {Decide(cpu, "bytes", <<MosBy("sec"), MosAt("sbc", 20), MosTo(b[1], 1)>>, b[2]) :
          b \in {<<"bcs", ">=">>, <<"beq", "=">>}}
  \union {AddsUp(cpu, "words", <<MosAt("lda", 16), MosAt("adc", 18), MosAt("sta", 16),
                                 MosAt("lda", 17), MosAt("adc", 19), MosAt("sta", 17)>>,
                 "adc", <<<<1, "m", 16>>, <<256, "m", 17>>, <<65536, "c", 0>>>>)}
  \union {AddsUp(cpu, "bytes", <<MosBy("sec"), MosAt("sbc", 20)>>,
                 "sub", <<<<1, "a", 0>>, <<256, "c", 0>>, <<-256, "one", 0>>>>)}

Mos6502Tasks ==
  MosTasks("6502")
  \union {Agree("6502", "bytes", <<MosI(op, m[1], m[2])>>,
            <<MosAt("lda", 20), MosBy(op), MosAt("sta", 20)>>, {"a"}) :
          op \in {"asl", "lsr", "rol", "ror"}, m \in MosCellModes}
  \union {Undone("6502", "bytes", <<MosBy("rol"), MosBy("ror")>>, {"n", "z"})}
  \union {Agree("6502", "bytes", <<MosBy("sed"), MosBy("clc"), MosWith("lda", d[1]),
                                   MosWith("adc", d[2]), MosBy("cld")>>,
                <<MosBy("sec"), MosWith("lda", d[3]), MosWith("sbc", 0), MosBy("clc")>>,
                {"n", "z", "v"}) :
          d \in {<<37, 72, 115>>, <<9, 1, 16>>, <<69, 20, 89>>}}
Mos65816Tasks ==
  MosTasks("65816")
  \union {Agree("65816", "bytes", <<MosI("asl", m[1], m[2])>>,
            <<MosAt("lda", 20), MosBy("clc"), MosAt("adc", 20), MosAt("sta", 20)>>, {"a", "v"}) :
          m \in {<<"address8", 20>>, <<"indexed8_x", 18>>, <<"indexed16_x", 18>>}}
  \union {Agree("65816", "bytes", <<MosI("asl", "address8", 20), MosI("lsr", m[1], m[2])>>,
            <<MosAt("lda", 20), MosWith("and", 127), MosAt("sta", 20), MosBy("clc")>>, {"a"}) :
          m \in {<<"address8", 20>>, <<"indexed8_x", 18>>}}

-----------------------------------------------------------------------------
(* The AVR8.  The registers are r, the data memory m, the flags those of   *)
(* SREG.  An instruction is [op, type, d, n]: the operation, the kind of   *)
(* its operands, the register Rd and Rr, a number, a bit or a distance.    *)

AvrSreg == <<"c", "z", "n", "v", "s", "h", "t", "i">>
AvrPair(s, k) == s.r[k] + 256 * s.r[k + 1]
AvrPointer == [x |-> 26, y |-> 28, z |-> 30]
AvrAdded(s, k, n) ==
  LET a == Word(AvrPair(s, k) + n)
  IN [s EXCEPT !.r[k] = Byte(a), !.r[k + 1] = a \div 256]
AvrPush(s, v) == [s EXCEPT !.m = (s.sp :> Byte(v)) @@ @, !.sp = @ - 1]
AvrPop(s) == Peek(s, s.sp + 1)
AvrPush16(s, v) == AvrPush(AvrPush(s, v), v \div 256)
AvrReturn(s) == [s EXCEPT !.pc = Peek(s, s.sp + 2) + 256 * Peek(s, s.sp + 1), !.sp = @ + 2]
AvrRead(s, a) == Peek(s, a % 8192)
AvrWrite(s, a, v) == Poke(s, a % 8192, v)
AvrFlash(s, a) == IF a \in DOMAIN s.flash THEN s.flash[a] ELSE 0

AvrSet(s, rd, v) == [s EXCEPT !.r[rd] = v]
AvrNz(s, v) == [s EXCEPT !.n = Bit(v, 7), !.z = Flag(v = 0)]
AvrSign(s) == [s EXCEPT !.s = Flag(s.n # s.v)]

\* The flags of a subtraction prev - k = v; V and H are the same after an
\* addition, which they do not fit.
AvrSub(s, prev, v, k) ==
  AvrSign([AvrNz(s, v) EXCEPT
    !.c = Flag(Borrowed(prev, k, v, 7)), !.h = Flag(Borrowed(prev, k, v, 3)),
    !.v = Flag(Bit(prev, 7) # Bit(k, 7) /\ Bit(v, 7) = Bit(k, 7))])
AvrAdd(s, prev, v, k) == [AvrSub(s, prev, v, k) EXCEPT !.c = Flag(Carried(prev, k, v, 7))]
AvrLogic(s, v) == AvrSign([AvrNz(s, v) EXCEPT !.v = 0])
\* The sign of the pair before is taken from bit 7.
AvrFlags16(s, prev, v) ==
  LET n == (v \div 32768) % 2
  IN AvrSign([s EXCEPT !.n = n, !.v = Flag(Bit(prev, 7) = 0 /\ n = 1), !.z = Flag(v = 0),
                       !.c = Flag(n = 0 /\ Bit(prev, 7) = 1)])

AvrSets ==
  [sec |-> "c", sen |-> "n", sez |-> "z", sei |-> "i", ses |-> "s", sev |-> "v", set |-> "t",
   seh |-> "h"]
AvrClears ==
  [clc |-> "c", cln |-> "n", clz |-> "z", cli |-> "i", cls |-> "s", clv |-> "v", clt |-> "t",
   clh |-> "h"]
AvrNone(s, i) ==
  CASE i.op \in DOMAIN AvrSets -> [s EXCEPT ![AvrSets[i.op]] = 1]
    [] i.op \in DOMAIN AvrClears -> [s EXCEPT ![AvrClears[i.op]] = 0]
    [] i.op \in {"nop", "sleep"} -> s
    [] i.op = "ijmp" -> [s EXCEPT !.pc = AvrPair(s, 30)]
    [] i.op = "icall" -> [AvrPush16(s, s.pc) EXCEPT !.pc = AvrPair(s, 30)]
    [] i.op = "ret" -> AvrReturn(s)
    [] i.op = "lpm" -> AvrSet(s, 0, AvrFlash(s, AvrPair(s, 30)))
    [] i.op = "spm" -> [s EXCEPT !.flash = (AvrPair(s, 30) :> s.r[0]) @@ @]
    [] OTHER -> Unknown(s)

AvrJump(s, n, taken) == IF taken THEN [s EXCEPT !.pc = @ + n] ELSE s
AvrBranchSK(s, i) == AvrJump(s, i.n, s[AvrSreg[i.d + 1]] = IF i.op = "brbs" THEN 1 ELSE 0)
\* brsh and brlo ask for C or Z.
AvrBranchK(s, i) ==
  AvrJump(s, i.n,
    CASE i.op = "breq" -> s.z = 1
      [] i.op = "brne" -> s.z = 0
      [] i.op = "brcs" -> s.c = 1
      [] i.op = "brcc" -> s.c = 0
      [] i.op = "brsh" -> s.c = 1 \/ s.z = 1
      [] i.op = "brlo" -> s.c = 0 /\ s.z = 0
      [] i.op = "brmi" -> s.n = 1
      [] i.op = "brpl" -> s.n = 0
      [] i.op = "brge" -> s.n = s.v
      [] i.op = "brlt" -> s.n # s.v
      [] i.op = "brhs" -> s.h = 1
      [] i.op = "brhc" -> s.h = 0
      [] i.op = "brts" -> s.t = 1
      [] i.op = "brtc" -> s.t = 0
      [] i.op = "brvs" -> s.v = 1
      [] i.op = "brvc" -> s.v = 0
      [] i.op = "brie" -> s.i = 1
      [] i.op = "brid" -> s.i = 0)

AvrSkip(s, skips) == IF skips THEN [s EXCEPT !.pc = @ + 1] ELSE s

\* or subtracts; the carry of mul is bit 15 of the product.
AvrTwoReg(s, i) ==
  LET prev == s.r[i.d]
      k == s.r[i.n]
      add(v) == AvrSet(AvrAdd(s, prev, Byte(v), k), i.d, Byte(v))
      sub(v) == AvrSub(s, prev, Byte(v), k)
      logic(v) == AvrSet(AvrLogic(s, Byte(v)), i.d, Byte(v))
      product == prev * k
  IN CASE i.op = "adc" -> add(prev + k + s.c)
       [] i.op = "add" -> add(prev + k)
       [] i.op = "and" -> logic(prev & k)
       [] i.op = "cp" -> sub(prev - k)
       [] i.op = "cpc" -> sub(prev - k - s.c)
       [] i.op = "cpse" -> AvrSkip(s, prev = k)
       [] i.op = "eor" -> logic(prev ^^ k)
       [] i.op = "mov" -> AvrSet(s, i.d, k)
       [] i.op = "mul" -> [AvrSet(AvrSet(s, 0, Byte(product)), 1, product \div 256)
                             EXCEPT !.z = Flag(product = 0), !.c = Flag(product > 32767)]
       [] i.op = "or" -> logic(prev - k)
       [] i.op = "sbc" -> AvrSet(sub(prev - k - s.c), i.d, Byte(prev - k - s.c))
       [] i.op = "sub" -> AvrSet(sub(prev - k), i.d, Byte(prev - k))

\* cpi leaves the carry of an addition, sbr is an and.
AvrRegImm(s, i) ==
  LET prev == s.r[i.d]
      sub(v) == AvrSet(AvrSub(s, prev, Byte(v), i.n), i.d, Byte(v))
      logic(v) == AvrSet(AvrLogic(s, v), i.d, v)
  IN CASE i.op = "andi" -> logic(prev & i.n)
       [] i.op = "cpi" -> AvrAdd(s, prev, Byte(prev - i.n), i.n)
       [] i.op = "ldi" -> AvrSet(s, i.d, i.n)
       [] i.op = "ori" -> logic(prev | i.n)
       [] i.op = "sbci" -> sub(prev - i.n - s.c)
       [] i.op = "sbr" -> logic(prev & i.n)
       [] i.op = "subi" -> sub(prev - i.n)
       [] i.op = "cbr" -> logic(prev & (255 - i.n))

\* asr looks at N for V before it sets it, inc at the value of dec.
AvrOneReg(s, i) ==
  LET prev == s.r[i.d]
      set(x, v) == AvrSign(AvrNz(AvrSet(x, i.d, v), v))
      right(v) == LET x == AvrNz([AvrSet(s, i.d, v) EXCEPT !.c = Bit(prev, 0)], v)
                  IN AvrSign([x EXCEPT !.v = Flag(x.n # x.c)])
      less == Byte(prev - 1)
      more == Byte(prev + 1)
      minus == Byte(-prev)
  IN CASE i.op = "asr" -> set([s EXCEPT !.c = Bit(prev, 0), !.v = Flag(s.n # Bit(prev, 0))],
                              (prev \div 2) | (128 * Bit(prev, 7)))
       [] i.op = "com" -> set([s EXCEPT !.v = 0, !.c = 1], 255 - prev)
       [] i.op = "dec" -> set([s EXCEPT !.v = Flag(less = 127)], less)
       [] i.op = "inc" -> set([s EXCEPT !.v = Flag(more = 127)], more)
       [] i.op = "lsr" -> right(prev \div 2)
       [] i.op = "neg" -> set([s EXCEPT !.v = Flag(minus = 128), !.c = Flag(minus # 0),
                                        !.h = Bit(minus | prev, 3)], minus)
       [] i.op = "pop" -> [AvrSet(s, i.d, AvrPop(s)) EXCEPT !.sp = @ + 1]
       [] i.op = "push" -> AvrPush(s, prev)
       [] i.op = "ror" -> right((prev \div 2) + 128 * s.c)
       [] i.op = "swap" -> AvrSet(s, i.d, (prev \div 16) + 16 * (prev % 16))

\* bld compares 1 and T with the number of the bit instead of shifting them.
AvrRegBit(s, i) ==
  CASE i.op = "bld" -> AvrSet(s, i.d, (s.r[i.d] & (255 - Flag(1 < i.n))) | Flag(s.t < i.n))
    [] i.op = "bst" -> [s EXCEPT !.t = Bit(s.r[i.d], i.n)]
    [] i.op = "sbrc" -> AvrSkip(s, ~On(s.r[i.d], i.n))
    [] i.op = "sbrs" -> AvrSkip(s, On(s.r[i.d], i.n))
\* Only the flags are set.
AvrRegImmWord(s, i) ==
  LET prev == AvrPair(s, i.d)
  IN AvrFlags16(s, prev, IF i.op = "adiw" THEN prev + i.n ELSE prev - i.n)
AvrIoBit(s, i) ==
  LET on == On(s.io[i.d], i.n)
  IN CASE i.op = "cbi" -> [s EXCEPT !.io[i.d] = @ & (255 - 2^i.n)]
       [] i.op = "sbi" -> [s EXCEPT !.io[i.d] = @ | 2^i.n]
       [] i.op = "sbic" -> AvrSkip(s, ~on)
       [] i.op = "sbis" -> AvrSkip(s, on)
AvrSregBit(s, i) == [s EXCEPT ![AvrSreg[i.n + 1]] = Flag(i.op = "bset")]
AvrRelative(s, i) ==
  [(IF i.op = "rcall" THEN AvrPush16(s, s.pc) ELSE s) EXCEPT !.pc = @ + i.n]
AvrFar(s, i) == [(IF i.op = "call" THEN AvrPush16(s, s.pc) ELSE s) EXCEPT !.pc = i.n]

\* ld and st through the pointer p, which is moved by before or after.
AvrLoad(s, i, p, before, after) ==
  LET at == AvrAdded(s, p, before)
      a == AvrPair(at, p)
  IN AvrAdded(AvrSet(at, i.d, IF i.op = "lpm" THEN AvrFlash(at, a) ELSE AvrRead(at, a)), p, after)
AvrStore(s, i, p, before, after) ==
  LET at == AvrAdded(s, p, before)
  IN AvrAdded(AvrWrite(at, AvrPair(at, p), at.r[i.d]), p, after)
AvrMove(s, i) ==
  CASE i.type = "reg_4" -> AvrSet(s, i.d, 255)
    [] i.type = "in" -> AvrSet(s, i.d % 16, s.io[i.n])
    [] i.type = "out" -> [s EXCEPT !.io[i.n] = s.r[i.d]]
    [] i.type = "movw" -> AvrSet(AvrSet(s, i.d, s.r[i.n]), i.d + 1, s.r[i.n + 1])
    [] i.type = "spm_z_plus" ->
         AvrAdded([s EXCEPT !.flash = (AvrPair(s, 30) :> s.r[0])
                                      @@ (AvrPair(s, 30) + 1 :> s.r[1]) @@ @], 30, 1)
\* muls squares Rd.
AvrData(s, i) ==
  LET square == Signed(8, s.r[i.d]) * Signed(8, s.r[i.d])
  IN CASE i.type \in {"fmul", "data4"} -> Unknown(s)
       [] i.type = "muls" -> AvrSet(AvrSet(s, 0, Byte(square)), 1, square \div 256)
       [] i.type = "reg_sram" -> AvrSet(s, i.d, AvrRead(s, i.n))
       [] i.type = "sram_reg" -> AvrWrite(s, i.n, s.r[i.d])
       [] i.type \in {"reg_y_q", "reg_z_q"} ->
            AvrSet(s, i.d, AvrRead(s, i.n + AvrPair(s, IF i.type = "reg_y_q" THEN 28 ELSE 30)))
       [] i.type \in {"y_q_reg", "z_q_reg"} ->
            AvrWrite(s, i.n + AvrPair(s, IF i.type = "y_q_reg" THEN 28 ELSE 30), s.r[i.d])

AvrStep(s, i) ==
  CASE i.type = "none" -> AvrNone(s, i)
    [] i.type = "branch_s_k" -> AvrBranchSK(s, i)
    [] i.type = "branch_k" -> AvrBranchK(s, i)
    [] i.type = "two_reg" -> AvrTwoReg(s, i)
    [] i.type = "reg_imm" -> AvrRegImm(s, i)
    [] i.type = "one_reg" -> AvrOneReg(s, i)
    [] i.type = "reg_bit" -> AvrRegBit(s, i)
    [] i.type = "reg_imm_word" -> AvrRegImmWord(s, i)
    [] i.type = "ioreg_bit" -> AvrIoBit(s, i)
    [] i.type = "sreg_bit" -> AvrSregBit(s, i)
    [] i.type = "relative" -> AvrRelative(s, i)
    [] i.type = "jump" -> AvrFar(s, i)
    [] i.type = "ld" -> AvrLoad(s, i, AvrPointer[i.p], 0, 0)
    [] i.type = "ld_plus" -> AvrLoad(s, i, AvrPointer[i.p], 0, 1)
    [] i.type = "ld_minus" -> AvrLoad(s, i, AvrPointer[i.p], -1, 0)
    [] i.type = "st" -> AvrStore(s, i, AvrPointer[i.p], 0, 0)
    [] i.type = "st_plus" -> AvrStore(s, i, AvrPointer[i.p], 0, 1)
    [] i.type = "st_minus" -> AvrStore(s, i, AvrPointer[i.p], -1, 0)
    [] i.type \in {"reg_4", "in", "out", "movw", "spm_z_plus"} -> AvrMove(s, i)
    [] OTHER -> AvrData(s, i)

AvrReset == [r |-> [k \in 0..31 |-> 0], io |-> [k \in 0..63 |-> 0], m |-> << >>,
             flash |-> << >>, sp |-> 0, pc |-> 0, known |-> TRUE, c |-> 0, z |-> 0, n |-> 0,
             v |-> 0, s |-> 0, h |-> 0, t |-> 0, i |-> 0]
\* Bytes are in r16 and r17, words in r16 and r18; X, Y and Z point before 20.
AvrStart(kind, l, r, carry) ==
  LET word == kind = "words"
      reg(k) == CASE k = 16 -> Byte(l)
                  [] k = 17 -> IF word THEN l \div 256 ELSE r
                  [] k = 18 /\ word -> Byte(r)
                  [] k = 19 /\ word -> r \div 256
                  [] k = 26 -> 20
                  [] k = 28 -> 18
                  [] k = 30 -> 17
                  [] OTHER -> 0
  IN [AvrReset EXCEPT !.r = [k \in 0..31 |-> reg(k)], !.sp = 200, !.pc = Base, !.c = carry,
                      !.m = [a \in {20} |-> IF word THEN 0 ELSE r]]

AvrI(op, type, d, n) == [op |-> op, type |-> type, d |-> d, n |-> n, p |-> "x"]
AvrBy(op) == AvrI(op, "none", 0, 0)
AvrTwo(op, d, n) == AvrI(op, "two_reg", d, n)
AvrImm(op, d, n) == AvrI(op, "reg_imm", d, n)
AvrOne(op, d) == AvrI(op, "one_reg", d, 0)
AvrTo(op, n) == AvrI(op, "branch_k", 0, n)
AvrGo(op, k) == AvrI(op, "jump", 0, Base + k)
AvrAt(op, type, p) == [AvrI(op, type, 16, 0) EXCEPT !.p = p]
AvrLds == AvrI("lds", "reg_sram", 16, 20)
AvrSts == AvrI("sts", "sram_reg", 16, 20)
AvrSame(kind, code, also, but) == Agree("avr8", kind, code, also, but)
AvrSr == {"c", "z", "n", "v", "s", "h"}

AvrOpposite ==
  {<<"breq", "brne">>, <<"brcs", "brcc">>, <<"brmi", "brpl">>, <<"brge", "brlt">>,
   <<"brhs", "brhc">>, <<"brts", "brtc">>, <<"brvs", "brvc">>, <<"brie", "brid">>,
   <<"brsh", "brlo">>}
AvrNamed == {<<0, "brcs">>, <<1, "breq">>, <<2, "brmi">>, <<3, "brvs">>, <<4, "brlt">>,
             <<5, "brhs">>, <<6, "brts">>, <<7, "brie">>}
AvrMemoryTasks ==
  {AvrSame("bytes", <<AvrAt("ld", "ld", "x")>>, <<AvrLds>>, {}),
   AvrSame("bytes", <<AvrAt("st", "st", "x")>>, <<AvrSts>>, {})}
  \union {AvrSame("bytes", <<AvrI("ldd", q[1], 16, q[2])>>, <<AvrLds>>, {}) :
            q \in {<<"reg_y_q", 2>>, <<"reg_z_q", 3>>}}
  \union {AvrSame("bytes", <<AvrI("std", q[1], 16, q[2])>>, <<AvrSts>>, {}) :
            q \in {<<"y_q_reg", 2>>, <<"z_q_reg", 3>>}}
  \union {AvrSame("bytes", <<AvrAt("ld", "ld_plus", p), AvrAt("ld", "ld_minus", p)>>,
            <<AvrAt("ld", "ld", p)>>, {}) : p \in {"x", "y", "z"}}
  \union {AvrSame("bytes", <<AvrAt("st", "st_plus", p), AvrAt("st", "st_minus", p)>>,
            <<AvrAt("st", "st", p)>>, {}) : p \in {"x", "y", "z"}}
  \union {AvrSame("bytes", <<AvrTwo("mov", 0, 16), AvrBy("spm"), op>>,
            <<AvrTwo("mov", 0, 16), AvrBy("spm"), AvrTwo("mov", 0, 16)>>, {}) :
          op \in {AvrBy("lpm"), [AvrI("lpm", "ld", 0, 0) EXCEPT !.p = "z"]}}
  \union {AvrSame("bytes", <<AvrTwo("mov", 0, 16), AvrTwo("mov", 1, 17), AvrI("spm", "spm_z_plus", 0, 0)>>,
            <<AvrTwo("mov", 0, 17), AvrTwo("mov", 1, 17), AvrImm("ldi", 30, 18), AvrBy("spm"),
              AvrTwo("mov", 0, 16), AvrImm("ldi", 30, 17), AvrBy("spm"), AvrImm("ldi", 30, 18)>>,
            {}),
          AvrSame("words", <<AvrI("movw", "movw", 20, 16)>>,
            <<AvrTwo("mov", 20, 16), AvrTwo("mov", 21, 17)>>, {}),
          AvrSame("bytes", <<AvrI("ser", "reg_4", 16, 0)>>, <<AvrImm("ldi", 16, 255)>>, {}),
          AvrSame("bytes", <<AvrI("out", "out", 16, 5), AvrI("in", "in", 0, 5)>>,
            <<AvrI("out", "out", 16, 5), AvrTwo("mov", 0, 16)>>, {})}
  \union {AvrSame("bytes", <<AvrI("out", "out", 16, 5), AvrI(op[1], "ioreg_bit", 5, 1),
                             AvrImm("ldi", 16, 0)>>,
            <<AvrImm(op[2], 16, 2), AvrI("out", "out", 16, 5), AvrImm("ldi", 16, 0)>>, AvrSr) :
          op \in {<<"sbi", "ori">>, <<"cbi", "cbr">>}}
AvrFlagTasks ==
  {AvrSame("bytes", <<AvrTwo("sub", 16, 17), AvrTo(op[1], 1)>>,
           <<AvrTwo("sub", 16, 17), AvrTo(op[2], 1), AvrI("rjmp", "relative", 0, 1)>>, {}) :
     op \in AvrOpposite}
  \union {AvrSame("bytes", <<AvrTwo("sub", 16, 17), AvrTo(op[2], 1)>>,
            <<AvrTwo("sub", 16, 17), AvrI("brbs", "branch_s_k", op[1], 1)>>, {}) : op \in AvrNamed}
  \union {AvrSame("bytes", <<AvrTwo("sub", 16, 17), AvrTo(op[2], 1)>>,
            <<AvrTwo("sub", 16, 17), AvrI("brbc", "branch_s_k", op[1], 1),
              AvrI("rjmp", "relative", 0, 1)>>, {}) : op \in AvrNamed}
  \union {AvrSame("bytes", <<AvrBy(op)>>, <<AvrI("bset", "sreg_bit", 0, k - 1)>>, {}) :
          <<op, k>> \in {p \in (DOMAIN AvrSets) \X (1..8) : AvrSets[p[1]] = AvrSreg[p[2]]}}
  \union {AvrSame("bytes", <<AvrTwo("sub", 16, 17), AvrBy(op)>>,
            <<AvrTwo("sub", 16, 17), AvrI("bclr", "sreg_bit", 0, k - 1)>>, {}) :
          <<op, k>> \in {p \in (DOMAIN AvrClears) \X (1..8) : AvrClears[p[1]] = AvrSreg[p[2]]}}
  \union {AvrSame("bytes", <<AvrI(op[1], "reg_bit", 16, 3), AvrImm("ldi", 20, 1)>>,
            <<AvrI("bst", "reg_bit", 16, 3), AvrTo(op[2], 1), AvrImm("ldi", 20, 1)>>, {"t"}) :
          op \in {<<"sbrs", "brts">>, <<"sbrc", "brtc">>}}
  \union {AvrSame("bytes", <<AvrI("out", "out", 16, 5), AvrI(op[1], "ioreg_bit", 5, 3),
                             AvrImm("ldi", 20, 1)>>,
            <<AvrI("out", "out", 16, 5), AvrI(op[2], "reg_bit", 16, 3), AvrImm("ldi", 20, 1)>>, {}) :
          op \in {<<"sbis", "sbrs">>, <<"sbic", "sbrc">>}}
  \union {AvrSame("bytes", <<AvrTwo("cpse", 16, 17), AvrImm("ldi", 20, 1)>>,
            <<AvrTwo("cp", 16, 17), AvrTo("breq", 1), AvrImm("ldi", 20, 1)>>, AvrSr)}
AvrValueTasks ==
  {AvrSame("bytes", <<AvrImm(op[1], 16, n)>>,
           <<AvrImm("ldi", 20, n), AvrTwo(op[2], 16, 20), AvrImm("ldi", 20, 0)>>, {}) :
     op \in {<<"subi", "sub">>, <<"sbci", "sbc">>, <<"andi", "and">>}, n \in {1, 127, 128}}
  \union {AvrSame("bytes", <<AvrImm("cbr", 16, 15)>>, <<AvrImm("andi", 16, 240)>>, {}),
          AvrSame("bytes", <<AvrImm("ori", 16, 15)>>,
            <<AvrOne("com", 16), AvrImm("andi", 16, 240), AvrOne("com", 16)>>, {"c"}),
          AvrSame("bytes", <<AvrOne("com", 16)>>,
            <<AvrImm("ldi", 20, 255), AvrTwo("eor", 16, 20), AvrImm("ldi", 20, 0), AvrBy("sec")>>, {}),
          AvrSame("bytes", <<AvrOne("neg", 16)>>,
            <<AvrTwo("sub", 20, 16), AvrTwo("mov", 16, 20), AvrImm("ldi", 20, 0)>>, {}),
          AvrSame("bytes", <<AvrOne("inc", 16)>>, <<AvrImm("subi", 16, 255)>>, {"c", "h", "v", "s"}),
          AvrSame("bytes", <<AvrOne("dec", 16)>>, <<AvrImm("subi", 16, 1)>>, {"c", "h"}),
          AvrSame("bytes", <<AvrOne("asr", 16)>>,
            <<AvrTwo("mov", 20, 16), AvrTwo("add", 20, 20), AvrOne("ror", 16), AvrImm("ldi", 20, 0)>>,
            {"v", "s", "h"}),
          AvrSame("bytes", <<AvrOne("lsr", 16)>>, <<AvrBy("clc"), AvrOne("ror", 16)>>, {}),
          AvrSame("bytes", <<AvrTwo("eor", 16, 17), AvrTwo("eor", 17, 16), AvrTwo("eor", 16, 17)>>,
            <<AvrTwo("mov", 20, 16), AvrTwo("mov", 16, 17), AvrTwo("mov", 17, 20),
              AvrImm("ldi", 20, 0)>>, AvrSr)}
  \union {Undone("avr8", "bytes", code, AvrSr \ {"c"}) :
          code \in {<<AvrOne("ror", 16), AvrTwo("adc", 16, 16)>>,
                    <<AvrOne("swap", 16), AvrOne("swap", 16)>>,
                    <<AvrOne("push", 16), AvrOne("push", 17), AvrImm("ldi", 16, 0),
                      AvrImm("ldi", 17, 0), AvrOne("pop", 17), AvrOne("pop", 16)>>,
                    <<AvrGo("call", 2), AvrGo("jmp", 3), AvrBy("ret")>>,
                    <<AvrI("rcall", "relative", 0, 1), AvrI("rjmp", "relative", 0, 1), AvrBy("ret")>>,
                    <<AvrImm("ldi", 30, (Base + 6) % 256), AvrImm("ldi", 31, (Base + 6) \div 256),
                      AvrBy("icall"), AvrImm("ldi", 30, 17), AvrImm("ldi", 31, 0),
                      AvrI("rjmp", "relative", 0, 1), AvrBy("ret")>>,
                    <<AvrImm("ldi", 30, (Base + 4) % 256), AvrImm("ldi", 31, (Base + 4) \div 256),
                      AvrBy("ijmp"), AvrOne("swap", 16), AvrImm("ldi", 30, 17),
                      AvrImm("ldi", 31, 0)>>}}

Avr8Tasks ==
  AvrMemoryTasks \union AvrFlagTasks \union AvrValueTasks
  \union {Decide("avr8", "bytes", <<AvrTwo(op, 16, 17), AvrTo(b[1], 1)>>, b[2]) :
          op \in {"cp", "sub"},
          b \in {<<"breq", "=">>, <<"brne", "#">>, <<"brcs", "<">>, <<"brcc", ">=">>,
                 <<"brge", "signed >=">>, <<"brlt", "signed <">>}}
  \union {Decide("avr8", "words", <<AvrTwo("cp", 16, 18), AvrTwo("cpc", 17, 19), AvrTo(b[1], 1)>>,
                 b[2]) :
          b \in {<<"brcs", "<">>, <<"brcc", ">=">>, <<"brge", "signed >=">>,
                 <<"brlt", "signed <">>}}
  \union {AddsUp("avr8", "words", <<AvrTwo(op[1], 16, 18), AvrTwo(op[2], 17, 19)>>, op[3],
                 <<<<1, "r", 16>>, <<256, "r", 17>>, <<op[4], "c", 0>>>>) :
          op \in {<<"add", "adc", "add", 65536>>, <<"adc", "adc", "adc", 65536>>,
                  <<"sub", "sbc", "sub", -65536>>, <<"sbc", "sbc", "sbc", -65536>>}}
  \union {AddsUp("avr8", "bytes", <<AvrTwo("mul", 16, 17)>>, "mul",
                 <<<<1, "r", 0>>, <<256, "r", 1>>>>)}

-----------------------------------------------------------------------------
(* The msp430.  An instruction is [op, bw, as, src, n, ad, dst, k]: bw is 1 *)
(* for bytes; the source is register src in mode as with the number n, the  *)
(* destination dst in mode ad with k; a jump goes n instructions.           *)

\* The flags are bits of r2, and r0 is the pc.
MspReg(s, k) ==
  CASE k = 0 -> s.pc
    [] k = 2 -> s.r[2] + 256 * s.v + 4 * s.n + 2 * s.z + s.c
    [] OTHER -> s.r[k]
MspSet(s, k, v) ==
  CASE k = 0 -> [s EXCEPT !.pc = v]
    [] k = 2 -> [s EXCEPT !.r[2] = v - (v & 263), !.v = Bit(v, 8), !.n = Bit(v, 2),
                          !.z = Bit(v, 1), !.c = Bit(v, 0)]
    [] OTHER -> [s EXCEPT !.r[k] = v]

MspSize(bw) == IF bw = 1 THEN 256 ELSE 65536
MspSign(bw) == IF bw = 1 THEN 7 ELSE 15
MspNz(s, v, bw) == [s EXCEPT !.n = Bit(v, MspSign(bw)), !.z = Flag(v % MspSize(bw) = 0)]
MspV(s, d, src, r, bw) ==
  LET sign(v) == Bit(v, MspSign(bw))
  IN [s EXCEPT !.v = Flag(sign(d) = sign(src) /\ sign(r) # sign(d))]

MspAddress(s, mode, k, n) ==
  CASE k = 2 /\ mode = 1 -> n
    [] mode = 1 -> Word(MspReg(s, k) + n)
    [] OTHER -> MspReg(s, k)
\* Through a register a byte is read where the register of that number points.
MspData(s, mode, k, bw, n) ==
  LET ea == MspAddress(s, mode, k, n)
  IN CASE k = 3 -> <<0, 1, 2, MspSize(bw) - 1>>[mode + 1]
       [] mode = 0 -> MspReg(s, k) % MspSize(bw)
       [] k = 2 /\ mode # 1 -> 2^mode
       [] k = 0 /\ mode = 3 -> n % MspSize(bw)
       [] bw = 0 -> PeekLittle(s, ea)
       [] mode = 1 -> Peek(s, ea)
       [] OTHER -> Peek(s, MspReg(s, ea % 16))
\* There are 16 registers, and the pc counts instructions.
MspReadable(s, mode, k, bw) ==
  /\ k \notin {2, 3} /\ mode \in {2, 3} /\ bw = 1 /\ k # 0 => MspReg(s, k) < 16
  /\ k = 0 => mode \in {0, 3}
MspUpdate(s, mode, k, bw) ==
  IF mode = 3 /\ k \notin {0, 2, 3} THEN [s EXCEPT !.r[k] = Word(@ + 2 - bw)] ELSE s
MspPut(s, ea, k, mode, bw, v) ==
  CASE mode = 0 -> MspSet(s, k, v % MspSize(bw))
    [] bw = 1 -> Poke(s, ea, v)
    [] OTHER -> PokeLittle(s, ea, v)

MspPushed(s, v) == PokeLittle(s, s.r[1], v)
MspShifted(s, i, src, r) ==
  LET at == [s EXCEPT !.c = Bit(src, 0)]
      put == MspPut(at, MspAddress(s, i.as, i.src, i.n), i.src, i.as, i.bw, r)
  IN [MspNz(MspUpdate(put, i.as, i.src, i.bw), r, i.bw) EXCEPT !.v = 0]
MspRotates(s, i) ==
  LET src == MspData(s, i.as, i.src, i.bw, i.n)
      top == 2^MspSign(i.bw)
      wide == Word(Signed(8, src))
  IN CASE i.op = "rrc" -> MspShifted(s, i, src, s.c * top + (src \div 2))
       [] i.op = "rra" -> MspShifted(s, i, src, (src \div 2) + (IF src >= top THEN top ELSE 0))
       [] i.op = "swpb" ->
            MspUpdate(MspPut(s, MspAddress(s, i.as, i.src, i.n), i.src, i.as, i.bw,
                             (src \div 256) + 256 * (src % 256)), i.as, i.src, i.bw)
       [] i.op = "sxt" ->
            [MspShifted(s, i, src, wide) EXCEPT !.c = Flag(wide >= 32768)]
\* reti does nothing.
MspCalls(s, i) ==
  LET down == [s EXCEPT !.r[1] = Word(@ - 2)]
      after == MspUpdate(s, i.as, i.src, i.bw)
      below == [after EXCEPT !.r[1] = Word(@ - 2)]
  IN CASE i.op = "push" ->
            MspPushed(MspUpdate(down, i.as, i.src, i.bw), MspData(down, i.as, i.src, i.bw, i.n))
       [] i.op = "call" ->
            [MspPushed(below, s.pc) EXCEPT !.pc = MspData(s, i.as, i.src, i.bw, i.n)]
       [] i.op = "reti" -> s

MspTaken(s) ==
  [jne |-> s.z = 0, jeq |-> s.z = 1, jnc |-> s.c = 0, jc |-> s.c = 1, jn |-> s.n = 1,
   jge |-> s.n = s.v, jl |-> s.n # s.v, jmp |-> TRUE]

MspStore(s, i, v) == MspPut(s, MspAddress(s, i.ad, i.dst, i.k), i.dst, i.ad, i.bw, v)
MspSum(s, i, src, dst) ==
  LET size == MspSize(i.bw)
      less == ((65535 - src) + (IF i.op = "subc" THEN 0 ELSE 1))
      term == IF i.op \in {"add", "addc"} THEN src
              ELSE IF i.bw = 1 THEN less % size ELSE less
      r == dst + term + (IF i.op \in {"addc", "subc"} THEN s.c ELSE 0)
      flagged == MspV(s, dst, term, r, i.bw)
      put == IF i.op = "cmp" THEN flagged ELSE MspStore(flagged, i, r)
  IN [MspNz(put, r, i.bw) EXCEPT !.c = Flag(r >= size)]
MspDigit(v, n) == (v \div 16^n) % 16
MspDadd(s, i, src, dst) ==
  LET digits == IF i.bw = 1 THEN 2 ELSE 4
      sum[n \in 0..3] == MspDigit(src, n) + MspDigit(dst, n)
                         + IF n = 0 THEN s.c ELSE sum[n - 1] \div 10
      r == MapThenSumSet(LAMBDA n : (sum[n] % 10) * 16^n, 0..(digits - 1))
  IN MspNz(MspStore([s EXCEPT !.c = Flag(sum[digits - 1] >= 10)], i, r), r, i.bw)
\* C tells a result other than 0, and xor sets V as for words.
MspTested(s, r, bw, v) == [MspNz(s, r, bw) EXCEPT !.c = Flag(r # 0), !.v = v]
MspLogic(s, i, src, dst) ==
  CASE i.op = "bit" -> MspTested(s, src & dst, i.bw, 0)
    [] i.op = "bic" -> MspStore(s, i, dst - (src & dst))
    [] i.op = "bis" -> MspStore(s, i, src | dst)
    [] i.op = "xor" -> MspTested(MspStore(s, i, src ^^ dst), src ^^ dst, i.bw, Bit(src & dst, 15))
    [] i.op = "and" -> MspTested(MspStore(s, i, src & dst), src & dst, i.bw, 0)
MspTwo(s, i) ==
  LET src == MspData(s, i.as, i.src, i.bw, i.n)
      at == MspUpdate(s, i.as, i.src, i.bw)
      dst == MspData(at, i.ad, i.dst, i.bw, i.k)
  IN CASE i.op = "mov" -> MspStore(at, i, src)
       [] i.op \in {"add", "addc", "sub", "subc", "cmp"} -> MspSum(at, i, src, dst)
       [] i.op = "dadd" -> MspDadd(at, i, src, dst)
       [] OTHER -> MspLogic(at, i, src, dst)
MspStep(s, i) ==
  CASE ~MspReadable(s, i.as, i.src, i.bw) \/ ~MspReadable(s, i.ad, i.dst, i.bw) -> Unknown(s)
    [] i.op \in DOMAIN MspTaken(s) -> IF MspTaken(s)[i.op] THEN [s EXCEPT !.pc = @ + i.n] ELSE s
    [] i.op \in {"rrc", "rra", "swpb", "sxt"} -> MspRotates(s, i)
    [] i.op \in {"push", "call", "reti"} -> MspCalls(s, i)
    [] OTHER -> MspTwo(s, i)

MspReset == [r |-> [[k \in 0..15 |-> 0] EXCEPT ![1] = 2048], m |-> << >>, pc |-> 0,
             known |-> TRUE, c |-> 0, z |-> 0, n |-> 0, v |-> 0]
\* The operands are in r5 and r6, and r is where r4 points.
MspStart(kind, l, r, carry) ==
  [MspReset EXCEPT !.r[4] = 20, !.r[5] = l, !.r[6] = r, !.pc = Base, !.c = carry,
                   !.m = (20 :> Byte(r)) @@ (21 :> (r \div 256))]

MspI(op, as, src, n, ad, dst, k) ==
  [op |-> op, bw |-> 0, as |-> as, src |-> src, n |-> n, ad |-> ad, dst |-> dst, k |-> k]
MspRr(op, src, dst) == MspI(op, 0, src, 0, 0, dst, 0)
MspImm(op, n, dst) == MspI(op, 3, 0, n, 0, dst, 0)
MspOne(op, k) == MspI(op, 0, k, 0, 0, 4, 0)
MspJump(op, n) == MspI(op, 0, 4, n, 0, 4, 0)
MspByte(i) == [i EXCEPT !.bw = 1]
MspCall(n) == MspI("call", 3, 0, Base + n, 0, 4, 0)
MspPop(k) == MspI("mov", 3, 1, 0, 0, k, 0)
MspSame(kind, code, also, but) == Agree("msp430", kind, code, also, but)
MspSr == {"c", "z", "n", "v"}
MspFrom(op, as, src, n) == MspI(op, as, src, n, 0, 5, 0)
MspInto(op, ad, dst, k) == MspI(op, 0, 6, 0, ad, dst, k)
MspOps == {"mov", "add", "addc", "sub", "subc", "cmp", "dadd", "bit", "bic", "bis", "xor", "and"}
MspModeTasks ==
  {MspSame("words", <<MspFrom(op, q[1], q[2], q[3])>>, <<MspRr(op, 6, 5)>>, {}) :
     op \in MspOps, q \in {<<1, 2, 20>>, <<1, 4, 0>>, <<2, 4, 0>>}}
  \union {MspSame("words", <<MspFrom(op, 3, 4, 0)>>,
            <<MspRr(op, 6, 5), MspI("mov", 2, 2, 0, 0, 7, 0), MspImm("mov", 22, 4),
              MspImm("mov", 0, 7)>>, {}) : op \in MspOps}
  \union {MspSame("bytes", <<MspByte(MspFrom(op, q[1], q[2], q[3]))>>,
            <<MspByte(MspRr(op, 6, 5))>>, {}) :
          op \in MspOps, q \in {<<1, 2, 20>>, <<1, 4, 0>>}}
  \union {MspSame("words", <<MspFrom(op, q[1], q[2], 0)>>, <<MspImm(op, q[3], 5)>>, {}) :
          op \in MspOps, q \in {<<0, 3, 0>>, <<1, 3, 1>>, <<2, 3, 2>>, <<3, 3, 65535>>,
                                <<2, 2, 4>>, <<3, 2, 8>>}}
  \union {MspSame("words", <<MspInto(op, q[1], q[2], q[3]), MspImm("mov", 0, 7)>>,
            <<MspFrom("mov", 1, 2, 16), MspRr(op, 6, 5), MspI("mov", 0, 5, 0, 1, 2, 16),
              MspImm("mov", 0, 5)>>, {"r"}) :
          op \in MspOps \ {"cmp", "bit"}, q \in {<<1, 2, 16>>, <<1, 4, 65532>>}}
MspValueTasks ==
  {MspSame("words", <<MspByte(MspRr("mov", 5, 7))>>,
           <<MspRr("mov", 5, 7), MspImm("and", 255, 7)>>, MspSr),
   MspSame("words", <<MspRr("mov", 6, 7), MspImm("xor", 65535, 7), MspImm("bis", 1, 2),
                      MspRr("addc", 7, 5), MspImm("mov", 0, 7)>>,
           <<MspImm("bis", 1, 2), MspRr("sub", 6, 5)>>, {"v", "z", "n"}),
   MspSame("words", <<MspRr("mov", 6, 7), MspImm("xor", 65535, 7), MspImm("bic", 1, 2),
                      MspRr("addc", 7, 5), MspImm("mov", 0, 7)>>,
           <<MspImm("bic", 1, 2), MspRr("subc", 6, 5)>>, {}),
   MspSame("words", <<MspImm("bis", 1, 2), MspRr("subc", 6, 5)>>, <<MspRr("sub", 6, 5)>>, {"v"}),
   MspSame("words", <<MspRr("bit", 6, 5), MspRr("mov", 5, 7)>>,
           <<MspRr("mov", 5, 7), MspRr("and", 6, 5), MspRr("mov", 7, 5)>>, {}),
   MspSame("words", <<MspRr("bis", 6, 5)>>,
           <<MspRr("bic", 6, 5), MspRr("add", 6, 5)>>, MspSr),
   MspSame("words", <<MspRr("xor", 6, 5)>>,
           <<MspRr("mov", 5, 7), MspRr("and", 6, 7), MspRr("bis", 6, 5), MspRr("sub", 7, 5),
             MspImm("mov", 0, 7)>>, {"c", "v"}),
   MspSame("bytes", <<MspOne("sxt", 5)>>,
           <<MspImm("xor", 128, 5), MspImm("sub", 128, 5)>>, {"c", "v"}),
   MspSame("words", <<MspOne("rra", 5)>>,
           <<MspRr("mov", 5, 7), MspRr("add", 7, 7), MspOne("rrc", 5), MspImm("mov", 0, 7)>>, {}),
   MspSame("words", <<MspByte(MspOne("rra", 5))>>,
           <<MspByte(MspRr("mov", 5, 7)), MspByte(MspRr("add", 7, 7)), MspByte(MspOne("rrc", 5)),
             MspImm("mov", 0, 7)>>, {}),
   MspSame("words", <<MspI("rra", 2, 4, 0, 0, 4, 0), MspOne("rra", 6)>>,
           <<MspOne("rra", 6), MspI("mov", 0, 6, 0, 1, 2, 20)>>, MspSr),
   MspSame("words", <<MspImm("and", 30583, 5), MspImm("and", 30583, 6), MspImm("bic", 1, 2),
                      MspRr("dadd", 6, 5), MspI("mov", 0, 5, 0, 1, 2, 16)>>,
           <<MspImm("and", 30583, 5), MspImm("and", 30583, 6), MspI("mov", 0, 5, 0, 1, 2, 16),
             MspI("mov", 0, 6, 0, 1, 2, 18), MspImm("bic", 1, 2),
             MspByte(MspI("dadd", 1, 2, 18, 1, 2, 16)), MspByte(MspI("dadd", 1, 2, 19, 1, 2, 17)),
             MspI("mov", 1, 2, 16, 0, 5, 0), MspI("mov", 0, 3, 0, 1, 2, 18)>>, {"n", "z"}),
   MspSame("words", <<MspI("push", 0, 5, 0, 0, 4, 0)>>,
           <<MspImm("sub", 2, 1), MspI("mov", 0, 5, 0, 1, 1, 0)>>, MspSr)}
MspFlowTasks ==
  {MspSame("words", <<MspRr("cmp", 6, 5), MspJump(op[1], 1)>>,
           <<MspRr("cmp", 6, 5), MspJump(op[2], 1), MspJump("jmp", 1)>>, {}) :
     op \in {<<"jne", "jeq">>, <<"jnc", "jc">>, <<"jge", "jl">>}}
  \union {MspSame("words", <<MspRr("cmp", 6, 5), MspJump("jn", 1)>>,
            <<MspRr("cmp", 6, 5), MspI("bit", 2, 2, 0, 0, 2, 0), MspJump("jne", 1)>>, MspSr),
          MspSame("words", <<MspImm("bic", 32768, 6), MspRr("cmp", 6, 5), MspJump("jge", 1)>>,
            <<MspImm("bis", 32768, 6), MspImm("xor", 32768, 5), MspRr("cmp", 6, 5),
              MspJump("jc", 1)>>, MspSr \union {"r"})}
  \union {Undone("msp430", "words", code, {}) :
          code \in {<<MspOne("swpb", 5), MspOne("swpb", 5)>>,
                    <<MspOne("push", 5), MspOne("push", 6), MspImm("mov", 0, 5),
                      MspImm("mov", 0, 6), MspPop(6), MspPop(5)>>,
                    <<MspOne("push", 2), MspRr("add", 6, 5), MspPop(2), MspOne("push", 2),
                      MspRr("sub", 6, 5), MspPop(2)>>,
                    <<MspCall(2), MspJump("jmp", 1), MspPop(0)>>,
                    <<MspImm("mov", Base + 4, 7), MspOne("call", 7), MspImm("mov", 0, 7),
                      MspJump("jmp", 1), MspPop(0)>>,
                    <<MspImm("mov", Base + 2, 0), MspImm("mov", 0, 5)>>}}
  \union {Undone("msp430", "words", [k \in 1..17 |-> MspOne("rrc", 5)], {"n", "z", "v"}),
          Undone("msp430", "words", <<MspOne("rrc", 5), MspRr("addc", 5, 5)>>, {"n", "z", "v"})}
Msp430Tasks ==
  MspModeTasks \union MspValueTasks \union MspFlowTasks
  \union {Decide("msp430", "words", <<MspRr(op, 6, 5), MspJump(b[1], 1)>>, b[2]) :
          op \in {"cmp", "sub"},
          b \in {<<"jeq", "=">>, <<"jne", "#">>, <<"jnc", "<">>, <<"jc", ">=">>}}
  \union {Decide("msp430", "bytes", <<MspByte(MspRr(op, 6, 5)), MspJump(b[1], 1)>>, b[2]) :
          op \in {"cmp", "sub"}, b \in {<<"jeq", "=">>, <<"jne", "#">>}}
  \union {AddsUp("msp430", "words", <<MspRr("add", 6, 5)>>, "add",
                 <<<<1, "r", 5>>, <<65536, "c", 0>>>>),
          AddsUp("msp430", "words", <<MspRr("addc", 6, 5)>>, "adc",
                 <<<<1, "r", 5>>, <<65536, "c", 0>>>>),
          AddsUp("msp430", "words", <<MspRr("sub", 6, 5)>>, "sub",
                 <<<<1, "r", 5>>, <<65536, "c", 0>>, <<-65536, "one", 0>>>>),
          AddsUp("msp430", "bytes", <<MspByte(MspRr("addc", 6, 5))>>, "adc",
                 <<<<1, "r", 5>>, <<256, "c", 0>>>>)}

-----------------------------------------------------------------------------
(* The 8008.  An instruction is [op, d, s, n]: d is a register, an          *)
(* operation of the alu or a condition, s a register, n a constant or the   *)
(* place an instruction lies at.  Registers are a, b, c, d, e, h, l and the *)
(* cell that h and l point at.                                              *)

RegA == 0
RegM == 7
I8008Cell(s) == 256 * s.r[5] + s.r[6]
I8008Read(s, k) == IF k = RegM THEN Peek(s, I8008Cell(s)) ELSE s.r[k]
I8008Write(s, k, v) == IF k = RegM THEN Poke(s, I8008Cell(s), v) ELSE [s EXCEPT !.r[k] = v]
I8008Push(s, v) == [s EXCEPT !.stack[s.sp] = v, !.sp = (@ + 1) % 8]
\* A return from nowhere reads before the stack.
I8008Pop(s) == IF s.sp = 0 THEN Unknown(s) ELSE [s EXCEPT !.sp = @ - 1, !.pc = s.stack[s.sp - 1]]
I8008Met(s, condition) ==
  s[<<"c", "z", "s", "p">>[(condition % 4) + 1]] = condition \div 4
\* The parity counts none of the bits.
I8008Alu(s, operation, v) ==
  LET a == s.r[RegA]
      r == CASE operation = 0 -> a + v
             [] operation = 1 -> a + v + s.c
             [] operation \in {2, 7} -> a - v
             [] operation = 3 -> a - (v + s.c)
             [] operation = 4 -> a & v
             [] operation = 5 -> a ^^ v
             [] operation = 6 -> a | v
  IN [s EXCEPT !.r[RegA] = IF operation = 7 THEN @ ELSE Byte(r), !.p = 1,
               !.c = Bit(r % 512, 8), !.s = Bit(r % 512, 7), !.z = Flag(Byte(r) = 0)]
I8008Short(s, i) ==
  CASE i.op = "hlt" -> s
    [] i.op = "ret" -> I8008Pop(s)
    [] i.op = "ret_if" -> IF I8008Met(s, i.d) THEN I8008Pop(s) ELSE s
    [] i.op = "alui" -> I8008Alu(s, i.d, i.n)
    [] i.op = "rst" -> [I8008Push(s, s.pc) EXCEPT !.pc = 8 * i.d]
    [] i.op = "mvi" -> I8008Write(s, i.d, i.n)
\* A conditional call pushes the place of its own address, where no
\* instruction begins (-1), whenever it goes on at the address.
I8008Long(s, i) ==
  LET met == IF I8008Met(s, i.d) THEN i.n ELSE s.pc
  IN CASE i.op = "jmp" -> [s EXCEPT !.pc = i.n]
       [] i.op = "call" -> [I8008Push(s, s.pc) EXCEPT !.pc = i.n]
       [] i.op = "jmp_if" -> [s EXCEPT !.pc = met]
       [] i.op = "call_if" -> IF met = i.n THEN [I8008Push(s, -1) EXCEPT !.pc = met] ELSE s
I8008Step(s, i) ==
  CASE i.op = "alu" -> I8008Alu(s, i.d, I8008Read(s, i.s))
    [] i.op = "mov" -> I8008Write(s, i.d, I8008Read(s, i.s))
    [] i.op \in {"jmp", "call", "jmp_if", "call_if"} -> I8008Long(s, i)
    [] OTHER -> I8008Short(s, i)

I8008Reset == [r |-> [k \in 0..7 |-> 0], stack |-> [k \in 0..7 |-> 0], sp |-> 0, m |-> << >>,
               pc |-> 0, known |-> TRUE, c |-> 0, z |-> 0, s |-> 0, p |-> 0]
\* Bytes are in a and b, words in d, e and b, c.
I8008Start(kind, l, r, carry) ==
  LET value == IF kind = "bytes" THEN <<l, r, 0, 0, 0, 0, 20>>
               ELSE <<0, r \div 256, Byte(r), l \div 256, Byte(l), 0, 20>>
  IN [I8008Reset EXCEPT !.r = [k \in 0..7 |-> IF k = RegM THEN 0 ELSE value[k + 1]],
                        !.pc = Base, !.c = carry, !.m = (20 :> Byte(r)) @@ << >>]

I8008I(op, d, s, n) == [op |-> op, d |-> d, s |-> s, n |-> n]
I8008Mov(d, s) == I8008I("mov", d, s, 0)
I8008By(operation, s) == I8008I("alu", operation, s, 0)
I8008With(operation, n) == I8008I("alui", operation, 0, n)
I8008Mvi(d, n) == I8008I("mvi", d, 0, n)
I8008To(op, condition, k) == I8008I(op, condition, 0, Base + k)
I8008Go(k) == I8008To("jmp", 0, k)
I8008Ret == I8008I("ret", 0, 0, 0)
I8008Same(code, also, but) == Agree("8008", "bytes", code, also, but)
I8008Sr == {"c", "z", "s", "p"}
I8008Called == {"stack", "sp"}
I8008FlowTasks ==
  {I8008Same(<<I8008By(op, 1), I8008To("jmp_if", k, 3)>>,
             <<I8008By(op, 1), I8008To("jmp_if", k + 4, 3), I8008Go(4)>>, {}) :
     op \in {0, 2, 5, 7}, k \in 0..3}
  \union {I8008Same(<<I8008By(7, 1), I8008To("call_if", k, 3)>>,
            <<I8008By(7, 1), I8008To("jmp_if", k, 3)>>, I8008Called) : k \in 0..7}
  \union {I8008Same(<<I8008By(7, 1), I8008To("call", 0, 3), I8008Go(5), I8008I("ret_if", k, 0, 0),
                      I8008Mov(4, RegA)>>,
            <<I8008By(7, 1), I8008To("jmp_if", k, 3), I8008Mov(4, RegA)>>, I8008Called) :
          k \in 0..7}
  \union {I8008Same(<<I8008I("rst", 2, 0, 0)>>, <<I8008I("jmp", 0, 0, 16)>>, I8008Called)}
  \union {Undone("8008", "bytes", code, {"stack"}) :
          code \in {<<I8008To("call", 0, 2), I8008Go(3), I8008Ret>>,
                    <<I8008To("call", 0, 2), I8008Go(5), I8008To("call", 0, 4), I8008Ret, I8008Ret>>,
                    <<I8008Go(1)>>}}
I8008ValueTasks ==
  {I8008Same(<<I8008Mvi(2, n), I8008With(op, n)>>, <<I8008Mvi(2, n), I8008By(op, 2)>>, {}) :
     op \in 0..7, n \in {1, 127, 128}}
  \union {I8008Same(<<I8008By(op, RegM)>>, <<I8008By(op, 1)>>, {}) : op \in 0..7}
  \union {I8008Same(<<I8008Mov(k, RegM)>>, <<I8008Mov(k, 1)>>, {}) : k \in 0..4}
  \union {I8008Same(<<I8008Mov(RegM, RegA), I8008Mov(2, RegM)>>,
                    <<I8008Mov(RegM, RegA), I8008Mov(2, RegA)>>, {}),
          I8008Same(<<I8008Mvi(2, 9), I8008Mvi(RegM, 9)>>, <<I8008Mvi(2, 9), I8008Mov(RegM, 2)>>, {}),
          I8008Same(<<I8008By(2, 1), I8008Mvi(RegA, 0)>>, <<I8008By(7, 1), I8008Mvi(RegA, 0)>>, {}),
          I8008Same(<<I8008By(6, 1)>>,
            <<I8008With(5, 255), I8008Mov(2, RegA), I8008Mov(RegA, 1), I8008With(5, 255),
              I8008By(4, 2), I8008With(5, 255), I8008Mvi(2, 0)>>, {}),
          I8008Same(<<I8008By(0, 1), I8008By(2, 1), I8008By(7, RegA)>>, <<I8008By(7, RegA)>>, {}),
          I8008Same(<<I8008By(3, 1)>>,
            <<I8008Mov(2, RegA), I8008Mov(RegA, 1), I8008With(1, 0), I8008Mov(3, RegA),
              I8008Mov(RegA, 2), I8008By(2, 3), I8008Mvi(2, 0), I8008Mvi(3, 0)>>, {"c"}),
          Undone("8008", "bytes", <<I8008By(5, 1), I8008By(5, 1)>>, I8008Sr)}
I8008Wide(low, high) ==
  <<I8008Mov(RegA, 4), I8008By(low, 2), I8008Mov(4, RegA), I8008Mov(RegA, 3), I8008By(high, 1),
    I8008Mov(3, RegA)>>
I8008Tasks ==
  I8008FlowTasks \union I8008ValueTasks
  \union {Decide("8008", "bytes", <<I8008By(op, 1), I8008To("jmp_if", b[1], 3)>>, b[2]) :
          op \in {2, 7}, b \in {<<0, ">=">>, <<4, "<">>, <<1, "#">>, <<5, "=">>}}
  \union {AddsUp("8008", "words", I8008Wide(op[1], op[2]), op[3],
                 <<<<1, "r", 4>>, <<256, "r", 3>>, <<op[4], "c", 0>>>>) :
          op \in {<<0, 1, "add", 65536>>, <<1, 1, "adc", 65536>>,
                  <<2, 3, "sub", -65536>>, <<3, 3, "sbc", -65536>>}}

-----------------------------------------------------------------------------
(* The 1802.  An instruction is [op, k, n]: k is a register, n a constant,  *)
(* or how many instructions a branch passes over.  Any register may be the  *)
(* program counter: the one that P names is in pc.  A skip passes over two  *)
(* bytes, which here are two instructions.                                  *)

RcaR(s, k) == IF k = s.p THEN s.pc ELSE s.r[k]
RcaSet(s, k, v) ==
  IF k = s.p THEN [s EXCEPT !.pc = Word(v)] ELSE [s EXCEPT !.r[k] = Word(v)]
RcaMoved(s, k, n) == RcaSet(s, k, RcaR(s, k) + n)
RcaCell(s, k) == Peek(s, RcaR(s, k))
RcaStored(s, k, v) == Poke(s, RcaR(s, k), v)
RcaX(s) == RcaCell(s, s.x)
\* What was the program counter is a register again.
RcaSep(s, k) == [s EXCEPT !.r = [@ EXCEPT ![s.p] = s.pc, ![k] = 0], !.p = k,
                          !.pc = IF k = s.p THEN s.pc ELSE s.r[k]]

RcaBranch(s) ==
  [br |-> TRUE, bq |-> s.q = 0, bz |-> s.d = 0, bdf |-> s.df # 0, b1 |-> FALSE, b2 |-> FALSE,
   b3 |-> FALSE, b4 |-> FALSE, bnq |-> s.q # 0, bnz |-> s.d # 0, bnf |-> s.df = 0,
   bn1 |-> FALSE, bn2 |-> FALSE, bn3 |-> FALSE, bn4 |-> FALSE]
\* lbq branches when Q is 0, as lbnq does.
RcaLong(s) ==
  [lbr |-> TRUE, lbq |-> s.q = 0, lbz |-> s.d = 0, lbdf |-> s.df # 0, lbnq |-> s.q = 0,
   lbnz |-> s.d # 0, lbnf |-> s.df = 0]
RcaSkip(s) ==
  [nop |-> FALSE, lsnq |-> s.q = 0, lsnz |-> s.d # 0, lsnf |-> s.df = 0, lskp |-> TRUE,
   lsie |-> s.mie # 0, lsq |-> s.q # 0, lsz |-> s.d = 0, lsdf |-> s.df # 0]
RcaPast(s, taken, n) == IF taken THEN RcaMoved(s, s.p, n) ELSE s

RcaRegister(s, i) ==
  CASE i.op = "ldn" -> [s EXCEPT !.d = RcaCell(s, i.k)]
    [] i.op = "inc" -> RcaMoved(s, i.k, 1)
    [] i.op = "dec" -> RcaMoved(s, i.k, -1)
RcaMisc(s, i) ==
  CASE i.op = "lda" -> RcaMoved([s EXCEPT !.d = RcaCell(s, i.k)], i.k, 1)
    [] i.op = "str" -> RcaStored(s, i.k, s.d)
    [] i.op = "irx" -> RcaMoved(s, s.x, 1)
    [] i.op \in {"out", "inp", "idl", "skp"} -> RcaPast(s, i.op = "skp", 1)
RcaHalf(s, i) ==
  LET v == RcaR(s, i.k)
  IN CASE i.op = "glo" -> [s EXCEPT !.d = Byte(v)]
       [] i.op = "ghi" -> [s EXCEPT !.d = v \div 256]
       [] i.op = "plo" -> RcaSet(s, i.k, v - Byte(v) + s.d)
       [] i.op = "phi" -> RcaSet(s, i.k, Byte(v) + 256 * s.d)
RcaCounter(s, i) ==
  CASE i.op = "dtc" ->
         IF s.cntr = 1
         THEN [s EXCEPT !.q = IF s.etq = 1 THEN Flag(@ = 0) ELSE @, !.cil = 1, !.cntr = s.cn]
         ELSE [s EXCEPT !.cntr = Byte(@ - 1)]
    [] i.op = "ldc" -> [s EXCEPT !.cntr = s.d, !.cn = s.d, !.etq = 0]
    [] i.op = "gec" -> [s EXCEPT !.d = s.cntr]
    [] i.op = "etq" -> [s EXCEPT !.etq = 1]
    [] i.op \in {"xie", "xid"} -> [s EXCEPT !.xie = Flag(i.op = "xie")]
    [] i.op \in {"cie", "cid"} -> [s EXCEPT !.cie = Flag(i.op = "cie")]
    [] i.op \in {"stpc", "spm1", "spm2", "scm1", "scm2", "stm"} -> s
\* bci branches while the counter has not interrupted.
RcaLoops(s, i) ==
  CASE i.op = "dbnz" ->
         LET less == RcaMoved(s, i.k, -1)
         IN RcaPast(less, RcaR(less, i.k) # 0, i.n)
    [] i.op = "bci" -> RcaPast(s, s.cil = 0, i.n)
    [] i.op = "bxi" -> s
RcaLoad(s, k, from) ==
  LET high == RcaMoved(RcaSet(s, k, 256 * RcaCell(s, from)), from, 1)
  IN RcaMoved(RcaSet(high, k, RcaR(high, k) | RcaCell(high, from)), from, 1)
RcaSave(s, i) ==
  LET low == RcaStored(RcaMoved(s, s.x, -1), s.x, s.t)
      d == RcaStored(RcaMoved(low, s.x, -1), s.x, s.d)
      half == (s.d \div 2) | Byte(128 * s.df)
  IN CASE i.op = "rlxa" -> RcaLoad(s, i.k, s.x)
       [] i.op = "dsav" ->
            LET at == RcaMoved(d, s.x, -1)
            IN RcaStored([at EXCEPT !.d = half], s.x, half)
RcaSub16(s, i) ==
  LET low == RcaMoved(RcaStored(s, s.x, RcaR(s, i.k)), s.x, -1)
  IN CASE i.op = "rsxd" ->
            RcaMoved(RcaStored(low, s.x, RcaR(low, i.k) \div 256), s.x, -1)
       [] i.op = "rnx" -> RcaSet(s, s.x, RcaR(s, i.k))
       [] i.op = "rldi" -> RcaSet(s, i.k, i.n)

\* The sum of two binary bytes in two digits, the remainders as C has them.
RcaDigits(t) ==
  LET v == IF t > 99 THEN t - 100 ELSE IF t < 0 THEN 100 + t ELSE t
      tens == IF v < 0 THEN -(-v \div 10) ELSE v \div 10
  IN Byte(v - 10 * tens) | Byte(16 * tens)
RcaOutside(t) == Flag(t > 99 \/ t < 0)
\* dadc puts both digits into the high half.
RcaDecimal(s, i) ==
  LET m == IF i.op \in {"dadi", "daci", "dsmi", "dsbi"} THEN i.n ELSE RcaX(s)
      sum == s.d + m + IF i.op \in {"dadc", "daci"} THEN s.df ELSE 0
      less == s.d - m - IF i.op \in {"dsmb", "dsbi"} THEN Flag(s.df = 0) ELSE 0
      digits == RcaDigits(sum)
  IN IF i.op \in {"dadd", "dadi", "dadc", "daci"}
     THEN [s EXCEPT !.df = RcaOutside(sum),
                    !.d = IF i.op = "dadc" THEN Byte(16 * (digits | (digits \div 16))) ELSE digits]
     ELSE [s EXCEPT !.df = 1 - RcaOutside(less), !.d = RcaDigits(less)]

\* Subtractions set DF unless they borrow.
RcaSum(s, v) == [s EXCEPT !.d = Byte(v), !.df = Bit(v, 8)]
RcaLess(s, v) == [s EXCEPT !.d = Byte(v), !.df = 1 - Bit(Word(v), 8)]
RcaBorrow(s) == Flag(s.df = 0)
RcaCarrying(s, i) ==
  LET m == IF i.op \in {"adci", "sdbi", "smbi"} THEN i.n ELSE RcaX(s)
  IN CASE i.op \in {"adc", "adci"} -> RcaSum(s, m + s.d + s.df)
       [] i.op \in {"sdb", "sdbi"} -> RcaLess(s, m - s.d - RcaBorrow(s))
       [] i.op \in {"smb", "smbi"} -> RcaLess(s, s.d - m - RcaBorrow(s))
       [] i.op = "shrc" ->
            [s EXCEPT !.d = (s.d \div 2) | Byte(128 * s.df), !.df = Bit(s.d, 0)]
       [] i.op = "shlc" -> [s EXCEPT !.d = Byte(2 * s.d) | s.df, !.df = 128 * Bit(s.d, 7)]
\* After a return the new register X is moved on, and the new pc.
RcaControl(s, i) ==
  CASE i.op \in {"ret", "dis"} ->
         LET t == RcaX(s)
             to == [RcaSep(s, t % 16) EXCEPT !.x = t \div 16, !.mie = Flag(i.op = "ret")]
         IN RcaMoved(to, to.x, 1)
    [] i.op = "ldxa" -> RcaMoved([s EXCEPT !.d = RcaX(s)], s.x, 1)
    [] i.op = "stxd" -> RcaMoved(RcaStored(s, s.x, s.d), s.x, -1)
    [] i.op = "sav" -> RcaStored(s, s.x, s.t)
    [] i.op = "mark" ->
         LET t == 16 * s.x + s.p
         IN RcaMoved([RcaStored(s, 2, t) EXCEPT !.t = t, !.x = s.p], 2, -1)
    [] i.op \in {"req", "seq"} -> [s EXCEPT !.q = Flag(i.op = "seq")]
    [] i.op = "sep" -> RcaSep(s, i.k)
    [] i.op = "sex" -> [s EXCEPT !.x = i.k]
\* shl leaves DF 0 or 128.
RcaLogic(s, i) ==
  LET m == IF i.op \in {"ldi", "ori", "ani", "xri", "adi", "sdi", "smi"} THEN i.n ELSE RcaX(s)
  IN CASE i.op \in {"ldx", "ldi"} -> [s EXCEPT !.d = m]
       [] i.op \in {"or", "ori"} -> [s EXCEPT !.d = m | @]
       [] i.op \in {"and", "ani"} -> [s EXCEPT !.d = m & @]
       [] i.op \in {"xor", "xri"} -> [s EXCEPT !.d = m ^^ @]
       [] i.op \in {"add", "adi"} -> RcaSum(s, m + s.d)
       [] i.op \in {"sd", "sdi"} -> RcaLess(s, m - s.d)
       [] i.op \in {"sm", "smi"} -> RcaLess(s, s.d - m)
       [] i.op = "shr" -> [s EXCEPT !.d = @ \div 2, !.df = Bit(s.d, 0)]
       [] i.op = "shl" -> [s EXCEPT !.d = Byte(2 * @), !.df = 128 * Bit(s.d, 7)]

RcaGroups ==
  [register |-> {"ldn", "inc", "dec"}, misc |-> {"lda", "str", "irx", "out", "inp", "idl", "skp"},
   half |-> {"glo", "ghi", "plo", "phi"}, loops |-> {"dbnz", "bci", "bxi"},
   save |-> {"rlxa", "dsav"}, sub16 |-> {"rsxd", "rnx", "rldi"},
   decimal |-> {"dadd", "dadi", "dadc", "daci", "dsm", "dsmi", "dsmb", "dsbi"},
   carrying |-> {"adc", "adci", "sdb", "sdbi", "smb", "smbi", "shrc", "shlc"},
   control |-> {"ret", "dis", "ldxa", "stxd", "sav", "mark", "req", "seq", "sep", "sex"},
   logic |-> {"ldx", "ldi", "or", "ori", "and", "ani", "xor", "xri", "add", "adi", "sd", "sdi",
              "sm", "smi", "shr", "shl"}]
\* The program counter is moved on after the instruction.
RcaStep(s, i) ==
  LET in(group) == i.op \in RcaGroups[group]
      after == CASE i.op \in DOMAIN RcaBranch(s) -> RcaPast(s, RcaBranch(s)[i.op], i.n)
                 [] i.op \in DOMAIN RcaLong(s) -> RcaPast(s, RcaLong(s)[i.op], i.n)
                 [] i.op \in DOMAIN RcaSkip(s) -> RcaPast(s, RcaSkip(s)[i.op], 2)
                 [] in("register") -> RcaRegister(s, i)
                 [] in("misc") -> RcaMisc(s, i)
                 [] in("half") -> RcaHalf(s, i)
                 [] in("loops") -> RcaLoops(s, i)
                 [] in("save") -> RcaSave(s, i)
                 [] in("sub16") -> RcaSub16(s, i)
                 [] in("decimal") -> RcaDecimal(s, i)
                 [] in("carrying") -> RcaCarrying(s, i)
                 [] in("control") -> RcaControl(s, i)
                 [] in("logic") -> RcaLogic(s, i)
                 [] OTHER -> RcaCounter(s, i)
  IN RcaMoved(after, after.p, 1)

\* ETQ is what it was before.
RcaReset == [r |-> [k \in 0..15 |-> 0], m |-> << >>, pc |-> 0, known |-> TRUE, d |-> 0, p |-> 0,
             x |-> 0, t |-> 0, cntr |-> 0, cn |-> 0, df |-> 0, mie |-> 1, cie |-> 1, xie |-> 1,
             cil |-> 0, q |-> 0, etq |-> 0]
\* X is r2 and points at r; the program counter is r3; words are in r5 and r6.
RcaStart(kind, l, r, carry) ==
  [RcaReset EXCEPT !.p = 3, !.x = 2, !.df = carry, !.pc = Base, !.d = Byte(l),
                   !.r = [@ EXCEPT ![2] = 20, ![4] = 23, ![5] = l, ![6] = r],
                   !.m = 20 :> Byte(r)]

RcaI(op, k, n) == [op |-> op, k |-> k, n |-> n]
RcaBy(op) == RcaI(op, 0, 0)
RcaOn(op, k) == RcaI(op, k, 0)
RcaWith(op, n) == RcaI(op, 0, n)
RcaSame(kind, code, also, but) == Agree("1802", kind, code, also, but)
\* D is kept in a cell meanwhile.
RcaBehind(first, op) == <<RcaOn("str", 4)>> \o first \o <<RcaOn("ldn", 4), op>>
RcaSetDf(v) == <<RcaOn("str", 4), RcaWith("ldi", v), RcaBy("shr"), RcaOn("ldn", 4)>>
RcaImmediate ==
  {<<"adci", "adc">>, <<"sdbi", "sdb">>, <<"smbi", "smb">>, <<"ori", "or">>, <<"ani", "and">>,
   <<"xri", "xor">>, <<"adi", "add">>, <<"sdi", "sd">>, <<"smi", "sm">>, <<"dadi", "dadd">>,
   <<"dsmi", "dsm">>, <<"dsbi", "dsmb">>}
RcaMemoryTasks ==
  {RcaSame("bytes", RcaBehind(<<RcaWith("ldi", n), RcaOn("str", 2)>>, RcaBy(op[2])),
           RcaBehind(<<RcaWith("ldi", n), RcaOn("str", 2)>>, RcaWith(op[1], n)), {}) :
     op \in RcaImmediate, n \in {1, 9, 128}}
  \union {RcaSame("bytes", <<RcaOn("lda", 2)>>, <<RcaOn("ldn", 2), RcaOn("inc", 2)>>, {}),
          RcaSame("bytes", <<RcaBy("ldxa")>>, <<RcaBy("ldx"), RcaBy("irx")>>, {}),
          RcaSame("bytes", <<RcaBy("stxd")>>, <<RcaOn("str", 2), RcaOn("dec", 2)>>, {}),
          RcaSame("bytes", <<RcaBy("irx")>>, <<RcaOn("inc", 2)>>, {}),
          RcaSame("bytes", <<RcaOn("sex", 4), RcaBy("ldx"), RcaOn("sex", 2)>>, <<RcaOn("ldn", 4)>>, {}),
          RcaSame("words", <<RcaI("rldi", 6, 4660)>>,
            <<RcaWith("ldi", 18), RcaOn("phi", 6), RcaWith("ldi", 52), RcaOn("plo", 6)>>, {"d"}),
          RcaSame("words", <<RcaOn("rnx", 5)>>,
            <<RcaOn("glo", 5), RcaOn("plo", 2), RcaOn("ghi", 5), RcaOn("phi", 2)>>, {"d"}),
          RcaSame("words", <<RcaOn("rsxd", 5)>>,
            <<RcaOn("glo", 5), RcaBy("stxd"), RcaOn("ghi", 5), RcaBy("stxd")>>, {"d"}),
          RcaSame("words", <<RcaOn("rlxa", 5)>>,
            <<RcaBy("ldxa"), RcaOn("phi", 5), RcaBy("ldxa"), RcaOn("plo", 5)>>, {"d"}),
          RcaSame("words", <<RcaOn("rsxd", 5), RcaI("rldi", 5, 0), RcaBy("irx"), RcaOn("rlxa", 5)>>,
            <<RcaOn("rsxd", 5), RcaOn("inc", 2), RcaOn("inc", 2), RcaOn("inc", 2)>>, {}),
          RcaSame("bytes", <<RcaBy("mark"), RcaOn("sex", 2), RcaBy("sav")>>,
            <<RcaBy("mark"), RcaOn("sex", 2), RcaWith("ldi", 35), RcaOn("str", 2)>>, {"d"}),
          RcaSame("bytes", <<RcaBy("mark"), RcaOn("sex", 2), RcaOn("inc", 2), RcaBy("dis")>>,
            <<RcaWith("ldi", 35), RcaOn("str", 2), RcaOn("inc", 2)>>, {"d", "t", "mie"}),
          RcaSame("bytes", <<RcaBy("mark"), RcaOn("sex", 2), RcaBy("dsav")>>,
            <<RcaBy("mark"), RcaOn("sex", 2), RcaOn("dec", 2), RcaBy("sav"), RcaOn("dec", 2),
              RcaOn("str", 2), RcaOn("dec", 2), RcaBy("shrc"), RcaOn("str", 2)>>, {"df"})}
RcaFlowTasks ==
  {RcaSame("bytes", <<RcaBy("sm"), RcaWith(op[1], 1)>>,
           <<RcaBy("sm"), RcaWith(op[2], 1), RcaWith("br", 1)>>, {}) :
     op \in {<<"bz", "bnz">>, <<"bdf", "bnf">>, <<"lbz", "lbnz">>, <<"lbdf", "lbnf">>,
             <<"bz", "lbnz">>, <<"bdf", "lbnf">>}}
  \union {RcaSame("bytes", <<RcaBy("sm"), RcaBy(op[1]), RcaOn("inc", 5), RcaOn("inc", 5)>>,
            <<RcaBy("sm"), RcaWith(op[2], 2), RcaOn("inc", 5), RcaOn("inc", 5)>>, {}) :
          op \in {<<"lsz", "bz">>, <<"lsnz", "bnz">>, <<"lsdf", "bdf">>, <<"lsnf", "bnf">>}}
  \union {RcaSame("bytes", <<RcaBy(op[1]), RcaBy(op[2]), RcaOn("inc", 5), RcaOn("inc", 5)>>,
            << >>, {"q"}) :
          op \in {<<"seq", "lsq">>, <<"req", "lsnq">>, <<"seq", "lskp">>, <<"req", "lsie">>}}
  \union {RcaSame("bytes", <<RcaBy(op[1]), RcaBy(op[2]), RcaOn("inc", 5)>>, <<RcaOn("inc", 5)>>, {"q"}) :
          op \in {<<"seq", "lsnq">>, <<"req", "lsq">>}
          \union ({"seq"} \X {"lbnq", "b1", "b2", "b3", "b4", "bn1", "bn2", "bn3", "bn4", "bxi", "nop",
                              "idl", "stm", "stpc", "spm1", "spm2", "scm1", "scm2", "out", "inp"})}
  \union {RcaSame("bytes", <<RcaBy("skp"), RcaOn("inc", 5)>>, <<RcaWith("br", 1), RcaOn("inc", 5)>>, {}),
          RcaSame("bytes", <<RcaBy("req"), RcaWith("lbnq", 1), RcaOn("inc", 5)>>, <<RcaBy("req")>>, {}),
          RcaSame("words", <<RcaI("dbnz", 5, 1)>>,
            <<RcaOn("dec", 5), RcaOn("glo", 5), RcaWith("bnz", 3), RcaOn("ghi", 5),
              RcaWith("bnz", 1)>>, {"d"}),
          RcaSame("bytes", <<RcaBy("ldc"), RcaBy("dtc"), RcaBy("gec")>>,
            <<RcaBy("ldc"), RcaWith("smi", 1), RcaWith("bnz", 1), RcaWith("ldi", 1)>>,
            {"df", "cntr", "cil"}),
          RcaSame("bytes", <<RcaBy("ldc"), RcaBy("etq"), RcaBy("dtc")>>,
            <<RcaBy("ldc"), RcaBy("etq"), RcaWith("smi", 1), RcaWith("bnz", 1), RcaBy("seq")>>,
            {"d", "df", "cntr", "cil"}),
          RcaSame("bytes", <<RcaBy("ldc"), RcaWith("ldi", 0), RcaBy("gec")>>, << >>,
            {"cntr", "cn"}),
          Undone("1802", "bytes", <<RcaBy("xid"), RcaBy("cid"), RcaBy("cie"), RcaBy("xie")>>, {})}
RcaDigitsOnly ==
  <<RcaOn("str", 4), RcaBy("ldx"), RcaWith("ani", 7), RcaOn("str", 2), RcaOn("ldn", 4),
    RcaWith("ani", 7)>>
RcaValueTasks ==
  {RcaSame("bytes", RcaDigitsOnly \o <<RcaBy("dadd"), RcaOn("str", 4)>>,
           RcaDigitsOnly \o <<RcaBy("add"), RcaOn("str", 4), RcaWith("smi", 10), RcaWith("bdf", 2),
                              RcaOn("ldn", 4), RcaWith("br", 1), RcaWith("adi", 16),
                              RcaOn("str", 4)>>, {"df"}),
   RcaSame("bytes", RcaDigitsOnly \o <<RcaBy("dsm")>>,
           RcaDigitsOnly \o <<RcaBy("sm"), RcaWith("bdf", 1), RcaWith("adi", 154)>>, {"df"}),
   RcaSame("bytes", RcaDigitsOnly \o <<RcaBy("dsm"), RcaWith("bdf", 1)>>,
           RcaDigitsOnly \o <<RcaBy("sm"), RcaWith("bdf", 1)>>, {"d"}),
   RcaSame("bytes", RcaSetDf(0) \o <<RcaWith("daci", 9)>>, RcaSetDf(0) \o <<RcaWith("dadi", 9)>>, {}),
   RcaSame("bytes", RcaSetDf(1) \o <<RcaWith("daci", 8)>>, RcaSetDf(1) \o <<RcaWith("dadi", 9)>>, {}),
   RcaSame("bytes", RcaSetDf(1) \o <<RcaBy("dsmb")>>, RcaSetDf(1) \o <<RcaBy("dsm")>>, {}),
   RcaSame("bytes", RcaSetDf(0) \o <<RcaWith("dsbi", 8)>>, RcaSetDf(0) \o <<RcaWith("dsmi", 9)>>, {}),
   RcaSame("bytes", RcaSetDf(0) \o <<RcaBy("shrc")>>, RcaSetDf(0) \o <<RcaBy("shr")>>, {}),
   RcaSame("bytes", RcaSetDf(0) \o <<RcaBy("adc")>>, RcaSetDf(0) \o <<RcaBy("add")>>, {}),
   RcaSame("bytes", RcaSetDf(1) \o <<RcaBy("smb")>>, RcaSetDf(1) \o <<RcaBy("sm")>>, {}),
   RcaSame("bytes", RcaSetDf(1) \o <<RcaBy("sdb")>>, RcaSetDf(1) \o <<RcaBy("sd")>>, {}),
   RcaSame("bytes", RcaSetDf(0) \o <<RcaBy("shlc")>>, RcaSetDf(0) \o <<RcaBy("shl")>>, {}),
   RcaSame("bytes", <<RcaBy("shl"), RcaWith("bdf", 1)>>, <<RcaWith("ani", 128), RcaWith("bnz", 1)>>,
           {"d", "df"}),
   RcaSame("bytes", <<RcaBy("or"), RcaOn("str", 4)>>,
           <<RcaWith("xri", 255), RcaOn("str", 4), RcaBy("ldx"), RcaWith("xri", 255),
             RcaOn("sex", 4), RcaBy("and"), RcaWith("xri", 255), RcaOn("str", 4), RcaOn("sex", 2)>>,
           {}),
   Undone("1802", "bytes", [k \in 1..9 |-> RcaBy("shrc")], {}),
   Undone("1802", "bytes", <<RcaBy("xor"), RcaBy("xor")>>, {}),
   Undone("1802", "words", <<RcaOn("inc", 5), RcaOn("dec", 5)>>, {})}
RcaWide(low, high) ==
  <<RcaOn("glo", 6), RcaOn("str", 2), RcaOn("glo", 5), RcaBy(low), RcaOn("plo", 5),
    RcaOn("ghi", 6), RcaOn("str", 2), RcaOn("ghi", 5), RcaBy(high), RcaOn("phi", 5)>>
RcaReversed ==
  <<RcaOn("glo", 5), RcaOn("str", 2), RcaOn("glo", 6), RcaBy("sd"), RcaOn("plo", 5),
    RcaOn("ghi", 5), RcaOn("str", 2), RcaOn("ghi", 6), RcaBy("sdb"), RcaOn("phi", 5)>>
Rca1802Tasks ==
  RcaMemoryTasks \union RcaFlowTasks \union RcaValueTasks
  \union {Decide("1802", "bytes", <<RcaBy(q[1]), RcaWith(q[2], 1)>>, q[3]) :
          q \in {<<"sm", "bz", "=">>, <<"sm", "bnz", "#">>, <<"sm", "bdf", ">=">>,
                 <<"sm", "bnf", "<">>, <<"sd", "bdf", "<=">>, <<"sd", "bnf", ">">>,
                 <<"sm", "lbdf", ">=">>, <<"sd", "lbnf", ">">>, <<"xor", "lbz", "=">>}}
  \union {AddsUp("1802", "words", RcaWide(op[1], "adc"), op[2],
                 <<<<1, "r", 5>>, <<65536, "df", 0>>>>) :
          op \in {<<"add", "add">>, <<"adc", "adc">>}}
  \union {AddsUp("1802", "words", code, "sub",
                 <<<<1, "r", 5>>, <<65536, "df", 0>>, <<-65536, "one", 0>>>>) :
          code \in {RcaWide("sm", "smb"), RcaReversed}}

=============================================================================
