-------------------------------- MODULE Stm8 -------------------------------
(***************************************************************************)
(* The simulator of the STM8, simulate/stm8.cpp.                           *)
(*                                                                         *)
(* An instruction is [op, type, dest, src, n, p, rel]: the operation, the  *)
(* kind of its operands and the registers they name, as in the row of      *)
(* table/stm8.cpp, the number or address n that follows it, a second       *)
(* number p (the bit, or the place a move goes to) and the distance of a   *)
(* branch.  The same operations are written out several times in the code, *)
(* for a cell of the memory, for an absolute address and for a register.   *)
(***************************************************************************)
EXTENDS Alu

Stm8Push(s, v) == [Poke(s, s.sp, Byte(v)) EXCEPT !.sp = Word(@ - 1)]
Stm8Push16(s, v) == Stm8Push(Stm8Push(s, v), v \div 256)
Stm8Push24(s, v) == Stm8Push(Stm8Push16(s, v), v \div 65536)
Stm8Pop(s) == Peek(s, Word(s.sp + 1))
Stm8Pop16(s) == 256 * Peek(s, Word(s.sp + 1)) + Peek(s, Word(s.sp + 2))
Stm8Pop24(s) == 65536 * Peek(s, Word(s.sp + 1)) + 256 * Peek(s, Word(s.sp + 2))
                + Peek(s, Word(s.sp + 3))

\* The flags in the order of their bits.
Stm8Cc(s) == 128 * s.v + 32 * s.i1 + 16 * s.h + 8 * s.i0 + 4 * s.n + 2 * s.z + s.c
Stm8SetCc(s, v) ==
  [s EXCEPT !.v = Bit(v, 7), !.i1 = Bit(v, 5), !.h = Bit(v, 4), !.i0 = Bit(v, 3),
            !.n = Bit(v, 2), !.z = Bit(v, 1), !.c = Bit(v, 0)]

Stm8Unknown(s) == [s EXCEPT !.known = FALSE]

VHNZC == {"v", "h", "n", "z", "c"}
VNZC == {"v", "n", "z", "c"}
VNZ == {"v", "n", "z"}
NZ == {"n", "z"}

\* The flags in set after o1 + o2 = r, or o1 - o2 = r when kind is "sub".
\* The two terms of V are in different bits when they are compared.
Stm8Flags8(s, set, kind, o1, o2, r) ==
  LET term(n) == IF kind = "sub" THEN On(o1, n) /\ (On(o2, n) \/ On(r, n))
                 ELSE Majority(o1, o2, r, n)
      c == IF kind = "sub" THEN Borrowed(o1, o2, r, 7) ELSE Carried(o1, o2, r, 7)
  IN [s EXCEPT !.v = IF "v" \in set THEN Flag(term(7) \/ term(6)) ELSE @,
               !.h = IF "h" \in set THEN Flag(Carried(o1, o2, r, 3)) ELSE @,
               !.n = IF "n" \in set THEN Bit(r, 7) ELSE @,
               !.z = IF "z" \in set THEN Flag(Byte(r) = 0) ELSE @,
               !.c = IF "c" \in set THEN Flag(c) ELSE @]
Stm8Flags16(s, set, kind, o1, o2, r) ==
  LET term(n) == IF kind = "sub" THEN On(o1, n) /\ (On(o2, n) \/ On(r, n))
                 ELSE Majority(o1, o2, r, n)
      c == IF kind = "sub" THEN Borrowed(o1, o2, r, 15) ELSE Carried(o1, o2, r, 15)
  IN [s EXCEPT !.v = IF "v" \in set THEN Flag(term(15) \/ term(14)) ELSE @,
               !.h = IF "h" \in set THEN Flag(Carried(o1, o2, r, 7)) ELSE @,
               !.n = IF "n" \in set THEN Bit(r, 15) ELSE @,
               !.z = IF "z" \in set THEN Flag(Word(r) = 0) ELSE @,
               !.c = IF "c" \in set THEN Flag(c) ELSE @]

\* r goes to A, or to register reg of 16 bits, and sets the flags.
Stm8ToA(s, set, kind, data, r) ==
  [Stm8Flags8(s, set, kind, s.a, data, r) EXCEPT !.a = Byte(r)]
Stm8ToWord(s, reg, set, kind, data, r) ==
  [Stm8Flags16(s, set, kind, s[reg], data, r) EXCEPT ![reg] = Word(r)]

Stm8Jump(s, ea) == [s EXCEPT !.pc = (s.pc - (s.pc % 65536)) | ea]

\* The operations on a cell: what follows NEG in the alphabet.
Stm8CommonFromNeg(s, i, ea, data) ==
  LET cell(c, r) == Poke([Stm8Flags8(s, NZ, "add", 0, 0, r) EXCEPT !.c = c], ea, r)
  IN CASE i.op = "neg" -> [cell(Flag(data # 0), -data) EXCEPT !.v = Flag(data = 128)]
       [] i.op = "or" -> Stm8ToA(s, NZ, "add", data, s.a | data)
       [] i.op = "rlc" -> cell(Bit(data, 7), 2 * data + s.c)
       [] i.op = "rrc" -> cell(Bit(data, 0), (data \div 2) + 128 * s.c)
       [] i.op = "sbc" -> Stm8ToA(s, VNZC, "sub", data, s.a - data - s.c)
       [] i.op = "sll" -> cell(Bit(data, 7), 2 * data)
       [] i.op = "sra" -> cell(Bit(data, 0), 128 * Bit(data, 7) + (data \div 2))
       [] i.op = "srl" -> cell(Bit(data, 0), data \div 2)
       [] i.op = "sub" -> Stm8ToA(s, VNZC, "sub", data, s.a - data)
       [] i.op = "swap" -> cell(s.c, (data \div 16) + 16 * data)
       [] i.op = "tnz" -> Stm8Flags8(s, NZ, "add", 0, 0, data)
       [] i.op = "xor" -> Stm8ToA(s, NZ, "add", data, s.a ^^ data)
       [] OTHER -> Stm8Unknown(s)
Stm8Common(s, i, ea) ==
  LET data == IF i.type = "number8" THEN ea ELSE Peek(s, ea)
      word == PeekBig(s, ea)
      cell(set, o2, r) == Poke(Stm8Flags8(s, set, "add", data, o2, r), ea, r)
  IN CASE i.op = "adc" -> Stm8ToA(s, VHNZC, "add", data, s.a + data + s.c)
       [] i.op = "add" -> Stm8ToA(s, VHNZC, "add", data, s.a + data)
       [] i.op = "and" -> Stm8ToA(s, NZ, "add", data, s.a & data)
       [] i.op = "bcp" -> Stm8Flags8(s, NZ, "add", 0, 0, s.a & data)
       [] i.op = "call" -> Stm8Jump(Stm8Push16(s, s.pc), ea)
       [] i.op = "clr" -> [Poke(s, ea, 0) EXCEPT !.n = 0, !.z = 1]
       [] i.op = "cp" -> Stm8Flags8(s, VNZC, "sub", s.a, data, s.a - data)
       [] i.op = "cpw" /\ i.dest \in {"x", "y"} ->
            Stm8Flags16(s, VNZC, "sub", s[i.dest], word, s[i.dest] - word)
       [] i.op = "cpl" -> [cell(NZ, 0, 255 - data) EXCEPT !.c = 1]
       [] i.op = "dec" -> cell(VNZ, 1, data - 1)
       [] i.op = "inc" -> cell(VNZ, 1, data + 1)
       [] i.op = "jp" -> Stm8Jump(s, ea)
       [] i.op = "ld" /\ i.dest = "a" -> Stm8ToA(s, NZ, "add", data, data)
       [] i.op = "ld" /\ i.src = "a" -> Poke(Stm8Flags8(s, NZ, "add", 0, 0, s.a), ea, s.a)
       [] i.op = "ldw" /\ i.dest \in {"x", "y"} ->
            Stm8ToWord(s, i.dest, NZ, "add", word, word)
       [] i.op = "ldw" /\ i.src \in {"x", "y"} ->
            PokeBig(Stm8Flags16(s, NZ, "add", 0, 0, s[i.src]), ea, s[i.src])
       [] OTHER -> Stm8CommonFromNeg(s, i, ea, data)

Stm8None(s, i) ==
  LET full == Stm8Push(Stm8Push(Stm8Push16(Stm8Push16(Stm8Push24(s, s.pc), s.y), s.x), s.a),
                       Stm8Cc(s))
      later(n) == [s EXCEPT !.sp = Word(@ + n)]
  IN CASE i.op \in {"break", "sim"} -> [s EXCEPT !.i1 = 1, !.i0 = 1]
       [] i.op = "ccf" -> [s EXCEPT !.c = 1 - @]
       [] i.op \in {"halt", "rim", "wfi"} -> [s EXCEPT !.i1 = 1, !.i0 = 0]
       [] i.op = "iret" ->
            [Stm8SetCc(s, Stm8Pop(s)) EXCEPT
               !.a = Stm8Pop(later(1)), !.x = Stm8Pop16(later(2)), !.y = Stm8Pop16(later(4)),
               !.pc = Stm8Pop24(later(6)), !.sp = Word(@ + 9)]
       [] i.op \in {"nop", "wfe"} -> s
       [] i.op = "rcf" -> [s EXCEPT !.c = 0]
       [] i.op = "ret" -> [s EXCEPT !.pc = (@ - (@ % 65536)) + Stm8Pop16(s), !.sp = Word(@ + 2)]
       [] i.op = "retf" -> [s EXCEPT !.pc = Stm8Pop24(s), !.sp = Word(@ + 3)]
       [] i.op = "rvf" -> [s EXCEPT !.v = 0]
       [] i.op = "scf" -> [s EXCEPT !.c = 1]
       [] i.op = "trap" ->
            [full EXCEPT !.i1 = 1, !.i0 = 1,
                         !.pc = 65536 * Peek(s, 32773) + PeekBig(s, 32774)]
       [] OTHER -> Stm8Unknown(s)

Stm8Number8(s, i) ==
  CASE i.op = "addw" -> [s EXCEPT !.sp = Word(@ + i.n)]
    [] i.op = "push" -> Stm8Push(s, i.n)
    [] i.op = "sub" /\ i.dest = "sp" -> [s EXCEPT !.sp = Word(@ - i.n)]
    [] i.op = "sub" /\ i.dest \notin {"a", "sp"} -> Stm8Unknown(s)
    [] i.op \in {"call", "clr", "cpw", "cpl", "dec", "inc", "jp", "ldw", "neg", "rlc", "rrc",
                 "sll", "sra", "srl", "swap", "tnz"} -> Stm8Unknown(s)
    [] OTHER -> Stm8Common(s, i, i.n)
Stm8Number16(s, i) ==
  CASE i.dest \notin {"x", "y"} -> Stm8Unknown(s)
    [] i.op = "addw" -> Stm8ToWord(s, i.dest, VHNZC, "add", i.n, s[i.dest] + i.n)
    [] i.op = "cpw" -> Stm8Flags16(s, VNZC, "sub", s[i.dest], i.n, s[i.dest] - i.n)
    [] i.op = "ldw" -> Stm8ToWord(s, i.dest, NZ, "add", i.n, i.n)
    [] i.op = "subw" -> Stm8ToWord(s, i.dest, VHNZC, "sub", i.n, s[i.dest] - i.n)
    [] OTHER -> Stm8Unknown(s)
Stm8Address8(s, i) ==
  IF i.op \in {"call", "jp"} THEN Stm8Unknown(s) ELSE Stm8Common(s, i, i.n)

\* An absolute address has the operations once more, in three parts.
Stm8Address16FromSll(s, i, data) ==
  LET cell(c, r) == Poke([Stm8Flags8(s, NZ, "add", 0, 0, r) EXCEPT !.c = c], i.n, r)
      word == PeekBig(s, i.n)
  IN CASE i.op = "sll" -> cell(Bit(data, 7), 2 * data)
       [] i.op = "sra" -> cell(Bit(data, 0), 128 * Bit(data, 7) + (data \div 2))
       [] i.op = "srl" -> cell(Bit(data, 0), data \div 2)
       [] i.op = "sub" -> Stm8ToA(s, VNZC, "sub", data, s.a - data)
       [] i.op = "subw" /\ i.dest \in {"x", "y"} ->
            Stm8ToWord(s, i.dest, VHNZC, "sub", word, s[i.dest] - word)
       [] i.op = "swap" -> cell(s.c, (data \div 16) + 16 * data)
       [] i.op = "tnz" -> Stm8Flags8(s, NZ, "add", 0, 0, data)
       [] i.op = "xor" -> Stm8ToA(s, NZ, "add", data, s.a ^^ data)
       [] OTHER -> Stm8Unknown(s)
Stm8Address16FromLd(s, i, data) ==
  LET cell(c, r) == Poke([Stm8Flags8(s, NZ, "add", 0, 0, r) EXCEPT !.c = c], i.n, r)
      word == PeekBig(s, i.n)
  IN CASE i.op = "ld" /\ i.dest = "a" -> Stm8ToA(s, NZ, "add", data, data)
       [] i.op = "ld" /\ i.src = "a" -> cell(s.c, s.a)
       [] i.op = "ldw" /\ i.dest \in {"x", "y"} ->
            Stm8ToWord(s, i.dest, NZ, "add", word, word)
       [] i.op = "ldw" /\ i.src \in {"x", "y"} ->
            PokeBig(Stm8Flags16(s, NZ, "add", 0, 0, s[i.src]), i.n, s[i.src])
       [] i.op = "neg" -> [cell(Flag(data # 0), -data) EXCEPT !.v = Flag(data = 128)]
       [] i.op = "or" -> Stm8ToA(s, NZ, "add", data, s.a | data)
       [] i.op = "pop" -> Poke([s EXCEPT !.sp = Word(@ + 1)], i.n, Stm8Pop(s))
       [] i.op = "push" -> Stm8Push(s, data)
       [] i.op = "rlc" -> cell(Bit(data, 7), 2 * data + s.c)
       [] i.op = "rrc" -> cell(Bit(data, 0), (data \div 2) + 128 * s.c)
       [] i.op = "sbc" -> Stm8ToA(s, VNZC, "sub", data, s.a - data - s.c)
       [] OTHER -> Stm8Address16FromSll(s, i, data)
Stm8Address16(s, i) ==
  LET data == Peek(s, i.n)
      word == PeekBig(s, i.n)
      cell(set, o2, r) == Poke(Stm8Flags8(s, set, "add", data, o2, r), i.n, r)
  IN CASE i.op = "adc" -> Stm8ToA(s, VHNZC, "add", data, s.a + data + s.c)
       [] i.op = "add" -> Stm8ToA(s, VHNZC, "add", data, s.a + data)
       [] i.op = "addw" /\ i.dest \in {"x", "y"} ->
            Stm8ToWord(s, i.dest, VHNZC, "add", word, s[i.dest] + word)
       [] i.op = "and" -> Stm8ToA(s, NZ, "add", data, s.a & data)
       [] i.op = "bcp" -> Stm8Flags8(s, NZ, "add", 0, 0, s.a & data)
       [] i.op = "call" -> Stm8Jump(Stm8Push16(s, s.pc), i.n)
       [] i.op = "clr" -> [Poke(s, i.n, 0) EXCEPT !.n = 0, !.z = 1]
       [] i.op = "cp" -> Stm8Flags8(s, VNZC, "sub", s.a, data, s.a - data)
       [] i.op = "cpw" /\ i.dest \in {"x", "y"} ->
            Stm8Flags16(s, VNZC, "sub", s[i.dest], word, s[i.dest] - word)
       [] i.op = "cpl" -> [cell(NZ, 0, 255 - data) EXCEPT !.c = 1]
       [] i.op = "dec" -> cell(VNZ, 1, data - 1)
       [] i.op = "exg" -> [Poke(s, i.n, s.a) EXCEPT !.a = data]
       [] i.op = "inc" -> cell(VNZ, 1, data + 1)
       [] i.op = "jp" -> Stm8Jump(s, i.n)
       [] OTHER -> Stm8Address16FromLd(s, i, data)

\* The addresses of 24 bits.
Stm8Far(s, i, ea) ==
  CASE i.op = "callf" -> [Stm8Push24(s, s.pc) EXCEPT !.pc = ea]
    [] i.op = "int" -> s
    [] i.op = "jpf" -> [s EXCEPT !.pc = ea]
    [] i.op = "ldf" /\ i.dest = "a" -> Stm8ToA(s, NZ, "add", 0, Peek(s, ea))
    [] i.op = "ldf" /\ i.src = "a" -> Poke(Stm8Flags8(s, NZ, "add", 0, 0, s.a), ea, s.a)
    [] OTHER -> Stm8Unknown(s)

Stm8Near(s, i, ea) == IF i.op = "ldf" THEN Stm8Far(s, i, ea) ELSE Stm8Unknown(s)

Stm8Indexed(s, i) ==
  CASE i.type \in {"index_x", "offset8_index_x", "offset16_index_x"} ->
         Stm8Common(s, i, s.x + i.n)
    [] i.type \in {"index_y", "offset8_index_y", "offset16_index_y"} ->
         Stm8Common(s, i, s.y + i.n)
    [] i.type = "offset24_index_x" -> Stm8Near(s, i, s.x + i.n)
Stm8Offset24IndexY(s, i) == Stm8Near(s, i, s.y + i.n)
Stm8OffsetSp(s, i) ==
  LET ea == s.sp + i.n
      word == PeekBig(s, ea)
  IN CASE i.op \in {"addw", "subw"} /\ i.dest \notin {"x", "y"} -> Stm8Unknown(s)
       [] i.op = "addw" -> Stm8ToWord(s, i.dest, VHNZC, "add", word, s[i.dest] + word)
       [] i.op = "subw" -> Stm8ToWord(s, i.dest, VHNZC, "sub", word, s[i.dest] - word)
       [] i.op \in {"call", "jp"} -> Stm8Unknown(s)
       [] OTHER -> Stm8Common(s, i, ea)
Stm8Read24(s, a) == 65536 * Peek(s, a) + PeekBig(s, a + 1)
Stm8Indirect(s, i) ==
  CASE i.type \in {"indirect8", "indirect16"} -> Stm8Common(s, i, PeekBig(s, i.n))
    [] i.type = "indirect16_e" ->
         IF i.op = "int" THEN Stm8Unknown(s) ELSE Stm8Far(s, i, Stm8Read24(s, i.n))
    [] i.type \in {"indirect8_x", "indirect16_x"} ->
         Stm8Common(s, i, s.x + PeekBig(s, i.n))
Stm8IndirectFar(s, i) ==
  CASE i.type = "indirect16_e_x" -> Stm8Near(s, i, s.x + Stm8Read24(s, i.n))
    [] i.type = "indirect8_y" -> Stm8Common(s, i, s.y + PeekBig(s, i.n))
    [] i.type = "indirect16_e_y" -> Stm8Near(s, i, s.y + Stm8Read24(s, i.n))

Stm8AddressBit(s, i) ==
  LET data == Peek(s, i.n)
      place == 2^i.p
      without == data - place * Bit(data, i.p)
  IN CASE i.op = "bccm" -> Poke(s, i.n, without | (s.c * place))
       [] i.op = "bcpl" -> Poke(s, i.n, data ^^ place)
       [] i.op = "bres" -> Poke(s, i.n, without)
       [] i.op = "bset" -> Poke(s, i.n, data | place)
       [] OTHER -> Stm8Unknown(s)
Stm8BitLoop(s, i) ==
  LET bit == Bit(Peek(s, i.n), i.p)
      taken == [s EXCEPT !.pc = @ + i.rel]
  IN CASE i.op = "btjf" -> IF bit = 0 THEN [taken EXCEPT !.c = 0] ELSE [s EXCEPT !.c = 1]
       [] i.op = "btjt" -> IF bit = 1 THEN [taken EXCEPT !.c = 1] ELSE [s EXCEPT !.c = 0]
       [] OTHER -> Stm8Unknown(s)

Stm8TakenFromJrsge(s, op) ==
  CASE op = "jrsge" -> s.n = s.v
    [] op = "jrsgt" -> s.z = 0 /\ s.n = s.v
    [] op = "jrsle" -> s.z = 1 \/ s.n # s.v
    [] op = "jrslt" -> s.n # s.v
    [] op = "jrt" -> TRUE
    [] op = "jruge" -> s.c = 0
    [] op = "jrugt" -> s.c = 0 /\ s.z = 0
    [] op = "jrule" -> s.c = 1 \/ s.z = 1
    [] op = "jrult" -> s.c = 1
    [] op = "jrv" -> s.v = 1
Stm8Taken(s, op) ==
  CASE op \in {"jra", "jril"} -> TRUE
    [] op = "jrc" -> s.c = 1
    [] op = "jreq" -> s.z = 1
    [] op \in {"jrf", "jrih"} -> FALSE
    [] op = "jrh" -> s.h = 1
    [] op = "jrm" -> s.i1 = 1 /\ s.i0 = 1
    [] op = "jrmi" -> s.n = 1
    [] op = "jrnc" -> s.c = 0
    [] op = "jrne" -> s.z = 0
    [] op = "jrnh" -> s.h = 0
    [] op = "jrnm" -> ~(s.i1 = 1 /\ s.i0 = 1)
    [] op = "jrnv" -> s.v = 0
    [] op = "jrpl" -> s.n = 0
    [] OTHER -> Stm8TakenFromJrsge(s, op)
Stm8Relative(s, i) ==
  CASE i.op = "callr" -> [Stm8Push16(s, s.pc) EXCEPT !.pc = @ + i.rel]
    [] i.op # "callr" /\ Stm8Taken(s, i.op) -> [s EXCEPT !.pc = @ + i.rel]
    [] OTHER -> s

\* The operations on A, and those on X or Y, in four parts.
Stm8SingleFromSra(s, i) ==
  LET a(c, r) == [Stm8Flags8(s, NZ, "add", 0, 0, r) EXCEPT !.c = c, !.a = Byte(r)]
      v == s[i.dest]
      w(c, r) == [Stm8Flags16(s, NZ, "add", 0, 0, r) EXCEPT !.c = c, ![i.dest] = Word(r)]
  IN CASE i.op = "sra" -> a(Bit(s.a, 0), 128 * Bit(s.a, 7) + (s.a \div 2))
       [] i.op = "sraw" -> w(Bit(v, 0), 32768 * Bit(v, 15) + (v \div 2))
       [] i.op = "srl" -> a(Bit(s.a, 0), s.a \div 2)
       [] i.op = "srlw" -> w(Bit(v, 0), v \div 2)
       [] i.op = "swap" -> a(s.c, (s.a \div 16) + 16 * s.a)
       [] i.op = "swapw" -> w(s.c, (v \div 256) + 256 * v)
       [] i.op = "tnz" -> a(s.c, s.a)
       [] i.op = "tnzw" -> w(s.c, v)
       [] OTHER -> Stm8Unknown(s)
Stm8SingleFromRlc(s, i) ==
  LET a(c, r) == [Stm8Flags8(s, NZ, "add", 0, 0, r) EXCEPT !.c = c, !.a = Byte(r)]
      v == s[i.dest]
      w(c, r) == [Stm8Flags16(s, NZ, "add", 0, 0, r) EXCEPT !.c = c, ![i.dest] = Word(r)]
  IN CASE i.op = "rlc" -> a(Bit(s.a, 7), 2 * s.a + s.c)
       [] i.op = "rlcw" -> w(Bit(v, 15), 2 * v + s.c)
       [] i.op = "rrc" -> a(Bit(s.a, 0), (s.a \div 2) + 128 * s.c)
       [] i.op = "rrcw" -> w(Bit(v, 0), (v \div 2) + 32768 * s.c)
       [] i.op = "sll" -> a(Bit(s.a, 7), 2 * s.a)
       [] i.op = "sllw" -> w(Bit(v, 15), 2 * v)
       [] OTHER -> Stm8SingleFromSra(s, i)

Stm8SingleFromNeg(s, i) ==
  LET wide == i.dest \in {"x", "y"}
      v == s[i.dest]
      popped(n) == [s EXCEPT !.sp = Word(@ + n)]
  IN CASE i.op = "neg" ->
            [Stm8ToA(s, NZ, "add", 0, -s.a) EXCEPT !.v = Flag(s.a = 128), !.c = Flag(s.a # 0)]
       [] i.op = "negw" /\ wide ->
            [Stm8ToWord(s, i.dest, NZ, "add", 0, -v) EXCEPT
               !.v = Flag(v = 32768), !.c = Flag(v # 0)]
       [] i.op = "pop" /\ i.dest = "a" -> [popped(1) EXCEPT !.a = Stm8Pop(s)]
       [] i.op = "pop" /\ i.dest = "cc" -> Stm8SetCc(popped(1), Stm8Pop(s))
       [] i.op = "popw" /\ wide -> [popped(2) EXCEPT ![i.dest] = Stm8Pop16(s)]
       [] i.op = "push" /\ i.dest = "a" -> Stm8Push(s, s.a)
       [] i.op = "push" /\ i.dest = "cc" -> Stm8Push(s, Stm8Cc(s))
       [] i.op = "pushw" /\ wide -> Stm8Push16(s, v)
       [] i.op \in {"neg", "negw", "pop", "popw", "push", "pushw"} -> Stm8Unknown(s)
       [] OTHER -> Stm8SingleFromRlc(s, i)
Stm8Single(s, i) ==
  LET wide == i.dest \in {"x", "y"}
      v == s[i.dest]
  IN CASE i.op = "clr" -> [s EXCEPT !.a = 0, !.n = 0, !.z = 1]
       [] i.op = "clrw" /\ wide -> [s EXCEPT ![i.dest] = 0, !.n = 0, !.z = 1]
       [] i.op = "cpl" -> [Stm8ToA(s, NZ, "add", 0, 255 - s.a) EXCEPT !.c = 1]
       [] i.op = "cplw" /\ wide ->
            [Stm8ToWord(s, i.dest, NZ, "add", 0, 65535 - v) EXCEPT !.c = 1]
       [] i.op = "dec" -> Stm8ToA(s, VNZ, "add", 1, s.a - 1)
       [] i.op = "decw" /\ wide -> Stm8ToWord(s, i.dest, VNZ, "add", 1, v - 1)
       [] i.op = "inc" -> Stm8ToA(s, VNZ, "add", 1, s.a + 1)
       [] i.op = "incw" /\ wide -> Stm8ToWord(s, i.dest, VNZ, "add", 1, v + 1)
       [] i.op \in {"clrw", "cplw", "decw", "incw"} -> Stm8Unknown(s)
       [] OTHER -> Stm8SingleFromNeg(s, i)

Stm8Low(w) == w % 256
Stm8High(w) == w \div 256
Stm8Halves == [xl |-> "x", xh |-> "x", yl |-> "y", yh |-> "y"]

Stm8TwoFromLdw(s, i) ==
  LET v == s[i.dest]
      rotated(r, a) == [Stm8ToWord(s, i.dest, NZ, "add", 0, r) EXCEPT !.a = a]
  IN CASE i.op = "ldw" -> [s EXCEPT ![i.dest] = s[i.src]]
       [] i.op = "mul" -> [s EXCEPT ![i.dest] = Stm8Low(v) * s.a, !.h = 0, !.c = 0]
       [] i.op = "rlwa" -> rotated(256 * Stm8Low(v) + s.a, Stm8High(v))
       [] i.op = "rrwa" -> rotated(256 * s.a + Stm8High(v), Stm8Low(v))
       [] OTHER -> Stm8Unknown(s)
Stm8Two(s, i) ==
  LET divided(quotient, rest, by) ==
        IF s[by] = 0 THEN [s EXCEPT !.c = 1]
        ELSE LET q == s[quotient] \div s[by]
             IN [s EXCEPT ![quotient] = q, ![rest] = s[quotient] % s[by],
                          !.v = 0, !.h = 0, !.n = 0, !.z = Flag(q = 0), !.c = 0]
      low == i.src \in {"xl", "yl"}
      set(half, v) ==
        LET reg == Stm8Halves[half]
        IN [s EXCEPT ![reg] = IF half \in {"xl", "yl"} THEN 256 * Stm8High(@) + v
                              ELSE 256 * v + Stm8Low(@)]
  IN CASE i.op = "div" -> divided(i.dest, "a", "a")
       [] i.op = "divw" -> divided("x", "y", "y")
       [] i.op = "exg" /\ low -> [set(i.src, s.a) EXCEPT !.a = Stm8Low(s[Stm8Halves[i.src]])]
       [] i.op = "exgw" -> [s EXCEPT !.x = s.y, !.y = s.x]
       [] i.op = "ld" /\ i.dest = "a" ->
            [s EXCEPT !.a = IF low THEN Stm8Low(s[Stm8Halves[i.src]])
                            ELSE Stm8High(s[Stm8Halves[i.src]])]
       [] i.op = "ld" /\ i.src = "a" -> set(i.dest, s.a)
       [] OTHER -> Stm8TwoFromLdw(s, i)

Stm8Move(s, i) ==
  CASE i.op # "mov" -> Stm8Unknown(s)
    [] i.type = "address16_number8" -> Poke(s, i.p, i.n)
    [] i.type \in {"address8_address8", "address16_address16"} -> Poke(s, i.p, Peek(s, i.n))

Stm8Step(s, i) ==
  CASE i.type = "none" -> Stm8None(s, i)
    [] i.type = "number8" -> Stm8Number8(s, i)
    [] i.type = "number16" -> Stm8Number16(s, i)
    [] i.type = "address8" -> Stm8Address8(s, i)
    [] i.type = "address16" -> Stm8Address16(s, i)
    [] i.type = "address24" -> Stm8Far(s, i, i.n)
    [] i.type \in {"index_x", "offset8_index_x", "offset16_index_x", "offset24_index_x",
                   "index_y", "offset8_index_y", "offset16_index_y"} -> Stm8Indexed(s, i)
    [] i.type = "offset24_index_y" -> Stm8Offset24IndexY(s, i)
    [] i.type = "offset8_index_sp" -> Stm8OffsetSp(s, i)
    [] i.type \in {"indirect8", "indirect16", "indirect16_e", "indirect8_x", "indirect16_x"} ->
         Stm8Indirect(s, i)
    [] i.type \in {"indirect16_e_x", "indirect8_y", "indirect16_e_y"} -> Stm8IndirectFar(s, i)
    [] i.type = "address_bit" -> Stm8AddressBit(s, i)
    [] i.type = "address_bit_loop" -> Stm8BitLoop(s, i)
    [] i.type = "relative" -> Stm8Relative(s, i)
    [] i.type = "single" -> Stm8Single(s, i)
    [] i.type = "two" -> Stm8Two(s, i)
    [] i.type \in {"address16_number8", "address8_address8", "address16_address16"} ->
         Stm8Move(s, i)

Stm8Reset == [a |-> 0, x |-> 0, y |-> 0, sp |-> 1023, pc |-> 0, known |-> TRUE,
              v |-> 0, i1 |-> 1, h |-> 0, i0 |-> 1, n |-> 0, z |-> 0, c |-> 0,
              m |-> << >>]

-----------------------------------------------------------------------------
(* The programs.  A and the cells 16 to 20 hold the operands of 8 bits, X  *)
(* and Y those of 16 bits, or addresses; 21 to 30 hold pointers.  The      *)
(* programs lie above 64 kB.                                               *)

Stm8Base == 65536 + Base

Stm8Start(kind, l, r, carry) ==
  LET word == kind = "words"
      hold(a) == CASE a \in 16..20 /\ word -> IF a % 2 = 0 THEN r \div 256 ELSE Byte(r)
                   [] a \in 16..20 /\ ~word -> r
                   [] a \in {23, 27} -> 2
                   [] a \in {25, 30} -> 20
                   [] a = 32773 -> 1
                   [] a = 32774 -> 129
                   [] OTHER -> 0
  IN [Stm8Reset EXCEPT
        !.a = Byte(l), !.x = IF word THEN l ELSE 18, !.y = IF word THEN r ELSE 17,
        !.sp = 12, !.pc = Stm8Base, !.c = carry,
        !.m = [a \in 16..31 \union 32773..32775 |-> hold(a)]]

Stm8I(op, type, dest, src, n) ==
  [op |-> op, type |-> type, dest |-> dest, src |-> src, n |-> n, p |-> 0, rel |-> 0]
Stm8Of(op, type, n) == Stm8I(op, type, "a", "", n)
Stm8In(op, reg) == Stm8I(op, "single", reg, "", 0)
Stm8By(op) == Stm8I(op, "none", "", "", 0)
Stm8Pair(op, dest, src) == Stm8I(op, "two", dest, src, 0)
Stm8To(op, rel) == [Stm8I(op, "relative", "", "", 0) EXCEPT !.rel = rel]
Stm8BitOf(op, cell, p) == [Stm8I(op, "address_bit", "", "", cell) EXCEPT !.p = p]
Stm8Mov(cell, n) == [Stm8I("mov", "address16_number8", "", "", n) EXCEPT !.p = cell]
Stm8Skip == Stm8To("jra", 1)

\* The modes of addressing: kind, number and the cell that is meant.
Stm8Modes ==
  {<<"address16", 20, 20>>, <<"index_x", 0, 18>>, <<"offset8_index_x", 2, 20>>,
   <<"offset16_index_x", 1, 19>>, <<"index_y", 0, 17>>, <<"offset8_index_y", 3, 20>>,
   <<"offset16_index_y", 2, 19>>, <<"offset8_index_sp", 8, 20>>, <<"indirect8", 24, 20>>,
   <<"indirect16", 24, 20>>, <<"indirect8_x", 26, 20>>, <<"indirect16_x", 26, 20>>,
   <<"indirect8_y", 26, 19>>}
Stm8FarModes ==
  {<<"address24", 20, 20>>, <<"offset24_index_x", 2, 20>>, <<"offset24_index_y", 1, 18>>,
   <<"indirect16_e", 28, 20>>, <<"indirect16_e_x", 21, 20>>, <<"indirect16_e_y", 21, 19>>}

Stm8Accumulate == {"adc", "add", "and", "bcp", "cp", "or", "sbc", "sub", "xor", "ld"}
Stm8Change == {"clr", "cpl", "dec", "inc", "neg", "rlc", "rrc", "sll", "sra", "srl", "swap", "tnz"}
Stm8Wide == {"clrw", "cplw", "decw", "incw", "negw", "rlcw", "rrcw", "sllw", "sraw", "srlw",
             "swapw", "tnzw"}

\* One operation on A of the halves of X.
Stm8Half(op, half) == <<Stm8Pair("ld", "a", half), Stm8In(op, "a"), Stm8Pair("ld", half, "a")>>

Stm8Same(kind, code, also, but) == Agree("stm8", kind, code, also, but)

\* The same operation in all modes, on A, X and Y, and on the halves of X.
Stm8ModeTasks ==
  {Stm8Same("bytes", <<Stm8Of(op, m[1], m[2])>>, <<Stm8Of(op, "address8", m[3])>>, {}) :
     op \in Stm8Accumulate, m \in Stm8Modes}
  \union {Stm8Same("bytes", <<Stm8Of(op, m[1], m[2])>>,
            <<Stm8Of("exg", "address16", m[3]), Stm8In(op, "a"), Stm8Of("exg", "address16", m[3])>>,
            {}) : op \in Stm8Change, m \in Stm8Modes}
  \union {Stm8Same("bytes", <<Stm8I("ld", m[1], "", "a", m[2])>>,
            <<Stm8Of("bcp", "number8", 255), Stm8I("ldf", "address24", "", "a", m[3])>>, {}) :
          m \in Stm8Modes}
  \union {Stm8Same("bytes", <<Stm8I("ldf", m[1], "", "a", m[2]), Stm8Of("ldf", m[1], m[2])>>,
            <<Stm8I("ld", "address8", "", "a", m[3])>>, {}) : m \in Stm8FarModes}
  \union {Stm8Same("bytes", <<Stm8I("ldw", m[1], reg, "", m[2])>>,
            <<Stm8I("ldw", "address8", reg, "", m[3])>>, {}) :
          m \in Stm8Modes, reg \in {"x", "y"}}
  \union {Stm8Same("bytes", <<Stm8I("ldw", m[1], "", reg, m[2])>>,
            <<Stm8I("ldw", "address8", "", reg, m[3])>>, {}) :
          m \in Stm8Modes, reg \in {"x", "y"}}
  \union {Stm8Same("bytes", <<Stm8Of(op, "number8", n)>>,
            <<Stm8Mov(31, n), Stm8Of(op, "address8", 31), Stm8Mov(31, 0)>>, {}) :
          op \in Stm8Accumulate, n \in {1, 127, 128}}
  \union {Stm8Same("words", <<Stm8I(op, "number16", "x", "", 4660)>>,
            <<Stm8Mov(30, 18), Stm8Mov(31, 52), Stm8I(op, "address16", "x", "", 30),
              Stm8Mov(30, 20), Stm8Mov(31, 0)>>, {}) : op \in {"addw", "subw", "cpw", "ldw"}}
  \union {Stm8Same("words", <<Stm8I(op, "offset8_index_sp", "x", "", 8)>>,
            <<Stm8Pair("exgw", "x", "y"), Stm8I(op, "address16", "y", "", 20),
              Stm8Pair("exgw", "x", "y")>>, {}) : op \in {"addw", "subw", "cpw"}}
  \union {Stm8Same("words", <<Stm8In(op, "x")>>,
            <<Stm8Pair("exgw", "x", "y"), Stm8In(op, "y"), Stm8Pair("exgw", "x", "y")>>, {}) :
          op \in Stm8Wide}
  \union {Stm8Same("words", <<Stm8In(op[1], "x")>>,
            Stm8Half(op[2], op[3]) \o Stm8Half(op[4], op[5]), {"a", "n", "z"}) :
          op \in {<<"sllw", "sll", "xl", "rlc", "xh">>, <<"srlw", "srl", "xh", "rrc", "xl">>,
                  <<"sraw", "sra", "xh", "rrc", "xl">>, <<"rlcw", "rlc", "xl", "rlc", "xh">>,
                  <<"rrcw", "rrc", "xh", "rrc", "xl">>, <<"cplw", "cpl", "xl", "cpl", "xh">>}}
  \union {Stm8Same("words", <<Stm8In(op[1], "x")>>, <<Stm8I(op[2], "number16", "x", "", op[3])>>,
                   op[4]) :
          op \in {<<"clrw", "ldw", 0, {}>>, <<"incw", "addw", 1, {"h", "c"}>>,
                  <<"decw", "subw", 1, {"v", "h", "c"}>>, <<"tnzw", "cpw", 0, {"v", "c"}>>}}

\* A flag changed by its instruction, and in a copy of CC on the stack.
Stm8OnCc(op, n) ==
  <<Stm8In("push", "cc"), Stm8In("pop", "a"), Stm8Of(op, "number8", n), Stm8In("push", "a"),
    Stm8In("pop", "cc")>>
Stm8Opposite ==
  {<<"jrc", "jrnc">>, <<"jrh", "jrnh">>, <<"jrm", "jrnm">>, <<"jreq", "jrne">>,
   <<"jrpl", "jrmi">>, <<"jrv", "jrnv">>, <<"jrsge", "jrslt">>, <<"jrsgt", "jrsle">>,
   <<"jruge", "jrult">>, <<"jrugt", "jrule">>, <<"jrt", "jrf">>, <<"jril", "jrih">>}
Stm8FlagTasks ==
  {Stm8Same("bytes", <<Stm8By(op[1])>>, Stm8OnCc(op[2], op[3]), {"a"}) :
     op \in {<<"scf", "or", 1>>, <<"rcf", "and", 254>>, <<"ccf", "xor", 1>>,
             <<"rvf", "and", 127>>, <<"sim", "or", 40>>, <<"break", "or", 40>>}}
  \union {Stm8Same("bytes", <<Stm8By("sim"), Stm8By(op)>>,
            <<Stm8By("sim")>> \o Stm8OnCc("and", 247), {"a"}) : op \in {"rim", "halt", "wfi"}}
  \union {Stm8Same("bytes", <<Stm8Of("sub", "address8", 20), Stm8To(op[1], 1)>>,
            <<Stm8Of("sub", "address8", 20), Stm8To(op[2], 1), Stm8Skip>>, {}) :
          op \in Stm8Opposite}
  \union {Stm8Same("bytes",
            <<Stm8Of("clr", "address8", 20), Stm8BitOf(op[1], 20, p)>>,
            <<Stm8Of("clr", "address8", 20), Stm8Of("ld", "address8", 20),
              Stm8Of(op[2], "number8", op[3]), Stm8I("ld", "address8", "", "a", 20)>>,
            {"a", "n", "z"}) : p \in {7}, op \in {<<"bset", "or", 128>>, <<"bres", "and", 127>>,
                                                  <<"bcpl", "xor", 128>>}}
  \union {Stm8Same("bytes", <<Stm8BitOf("bccm", 20, 3)>>,
            <<Stm8BitOf("bres", 20, 3), Stm8To("jrnc", 1), Stm8BitOf("bset", 20, 3)>>, {})}
  \union {Stm8Same("bytes",
            <<[Stm8BitOf(op[1], 20, 0) EXCEPT !.type = "address_bit_loop", !.rel = 1]>>,
            <<Stm8Of("ld", "address8", 20), Stm8In("srl", "a"), Stm8To(op[2], 1)>>,
            {"a", "n", "z"}) : op \in {<<"btjt", "jrc">>}}
  \union {Stm8Same("bytes",
            <<[Stm8BitOf("btjf", 20, 7) EXCEPT !.type = "address_bit_loop", !.rel = 1]>>,
            <<Stm8Of("ld", "address8", 20), Stm8In("sll", "a"), Stm8To("jrnc", 1)>>,
            {"a", "n", "z"})}

\* What is put back: the stack, calls, rotations.
Stm8Target(n) == Base + n
Stm8Undo(code, but) == Undone("stm8", "words", code, but)
Stm8CallTasks ==
  {Stm8Undo(<<call, Stm8Skip, back>>, {}) :
     call \in {Stm8To("callr", 1), Stm8Of("call", "address16", Stm8Target(2))},
     back \in {Stm8By("ret")}}
  \union {Stm8Undo(<<Stm8Of("callf", "address24", Stm8Base + 2), Stm8Skip, Stm8By("retf")>>, {}),
          Stm8Undo(<<Stm8By("trap"), Stm8Skip, Stm8By("iret")>>, {}),
          Stm8Undo(<<Stm8In("pushw", "x"), Stm8In("pushw", "y"), Stm8In("push", "a"),
                     Stm8In("push", "cc"), Stm8In("clrw", "x"), Stm8In("clrw", "y"),
                     Stm8In("clr", "a"), Stm8In("pop", "cc"), Stm8In("pop", "a"),
                     Stm8In("popw", "y"), Stm8In("popw", "x")>>, {}),
          Stm8Undo(<<Stm8Of("push", "address16", 20), Stm8Of("push", "number8", 7),
                     Stm8I("sub", "number8", "sp", "", 3), Stm8I("addw", "number8", "sp", "", 4),
                     Stm8Of("pop", "address16", 20)>>, {}),
          Stm8Undo(<<Stm8Pair("ldw", "y", "x"), Stm8Pair("ldw", "x", "sp"),
                     Stm8Pair("ldw", "sp", "y"), Stm8Pair("ldw", "sp", "x"),
                     Stm8Pair("ldw", "x", "y")>>, {"y"}),
          Stm8Undo(<<Stm8In("pushw", "x"), Stm8I("ldw", "number16", "x", "", Stm8Target(5)),
                     Stm8Of("call", "index_x", 0), Stm8In("popw", "x"), Stm8Skip,
                     Stm8By("ret")>>, {"n", "z"})}
  \union {Stm8Same("words", <<Stm8I("ldw", "number16", "x", "", Stm8Target(3)), jump, Stm8By("nop")>>,
            <<Stm8I("ldw", "number16", "x", "", Stm8Target(3)), Stm8Skip, Stm8By("wfe")>>, {}) :
          jump \in {Stm8Of("jp", "index_x", 0), Stm8Of("jp", "address16", Stm8Target(3)),
                    Stm8Of("jpf", "address24", Stm8Base + 3)}}
  \union {Stm8Undo(code, {"n", "z", "c", "v"}) :
            code \in {<<Stm8In("rlcw", "x"), Stm8In("rrcw", "x")>>,
                      <<Stm8In("rrc", "a"), Stm8In("rlc", "a")>>,
                      <<Stm8In("swapw", "x"), Stm8In("swapw", "x")>>,
                      <<Stm8In("negw", "x"), Stm8In("cplw", "x"), Stm8In("incw", "x")>>,
                      <<Stm8In("neg", "a"), Stm8In("dec", "a"), Stm8In("cpl", "a")>>,
                      <<Stm8Pair("rlwa", "x", "a"), Stm8Pair("rrwa", "x", "a")>>,
                      <<Stm8Pair("rlwa", "y", "a"), Stm8Pair("rlwa", "y", "a"),
                        Stm8Pair("rlwa", "y", "a")>>,
                      <<Stm8Pair("exg", "a", "xl"), Stm8Pair("exg", "a", "xl")>>,
                      <<Stm8Pair("exg", "a", "yl"), Stm8Pair("exg", "a", "yl")>>}}
  \union {Stm8Same("words", <<Stm8In("clr", "a"), Stm8Pair("div", "x", "a")>>,
                   <<Stm8In("clr", "a"), Stm8By("scf")>>, {})}

\* A comparison and a branch, for 8 and for 16 bits.
Stm8Relations ==
  {<<"jreq", "=">>, <<"jrne", "#">>, <<"jrult", "<">>, <<"jrc", "<">>, <<"jruge", ">=">>,
   <<"jrnc", ">=">>, <<"jrugt", ">">>, <<"jrule", "<=">>}
Stm8DecideTasks ==
  {Decide("stm8", "bytes", <<Stm8Of(op, "address8", 20), Stm8To(r[1], 1)>>, r[2]) :
     op \in {"cp", "sub"}, r \in Stm8Relations}
  \union {Decide("stm8", "words", <<Stm8I(op, "address16", "x", "", 18), Stm8To(r[1], 1)>>, r[2]) :
          op \in {"cpw", "subw"}, r \in Stm8Relations}

Stm8SumTasks ==
  {AddsUp("stm8", "words",
     <<Stm8Pair("ld", "a", "xl"), Stm8Of(op[1], "address8", 19), Stm8Pair("ld", "xl", "a"),
       Stm8Pair("ld", "a", "xh"), Stm8Of(op[2], "address8", 18), Stm8Pair("ld", "xh", "a")>>,
     op[3], <<<<1, "x", 0>>, <<op[4], "c", 0>>>>) :
     op \in {<<"add", "adc", "add", 65536>>, <<"sub", "sbc", "sub", -65536>>,
             <<"adc", "adc", "adc", 65536>>, <<"sbc", "sbc", "sbc", -65536>>}}
  \union {AddsUp("stm8", "words", <<Stm8I(op[1], "address16", "x", "", 18)>>,
                 op[2], <<<<1, "x", 0>>, <<op[3], "c", 0>>>>) :
          op \in {<<"addw", "add", 65536>>, <<"subw", "sub", -65536>>}}
  \union {AddsUp("stm8", "bytes", <<Stm8I("ldw", "number16", Stm8Halves[half], "", 0),
                   Stm8Of("exg", "address16", 20), Stm8Pair("ld", half, "a"),
                   Stm8Of("exg", "address16", 20), Stm8Pair("mul", Stm8Halves[half], "a")>>,
                 "mul", <<<<1, Stm8Halves[half], 0>>>>) : half \in {"xl", "yl"}}
  \union {AddsUp("stm8", "words", <<Stm8Pair("divw", "x", "y")>>,
                 "div", <<<<1, "x", 0>>, <<1, "y", 0>>>>),
          AddsUp("stm8", "bytes", <<Stm8In("clrw", "x"), Stm8Pair("ld", "xl", "a"),
                   Stm8Of("ld", "address8", 20), Stm8Pair("div", "x", "a")>>,
                 "div", <<<<1, "x", 0>>, <<1, "a", 0>>>>)}

Stm8Tasks ==
  Stm8ModeTasks \union Stm8FlagTasks \union Stm8CallTasks \union Stm8DecideTasks
  \union Stm8SumTasks
=============================================================================
