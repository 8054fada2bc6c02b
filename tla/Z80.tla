-------------------------------- MODULE Z80 --------------------------------
(***************************************************************************)
(* The simulator of the Z80, simulate/z80.cpp.                             *)
(*                                                                         *)
(* An instruction is [op, type, reg, src, n, d]: the operation and the     *)
(* kind of its operands as in the row of table/z80.cpp, the registers, the *)
(* number or address n, and the displacement d of (ix+d), the bit or the   *)
(* distance of a jump.  The same operation is written out several times in *)
(* the code, once for each kind of operand.  The simulator adds the length *)
(* of an instruction to pc after it has executed it, so that jumps subtract *)
(* that length.  The flags are fs, fz, fx, fh, fy, fv, fn and fc.          *)
(***************************************************************************)
EXTENDS Alu

Z80F(s) == 128 * s.fs + 64 * s.fz + 32 * s.fx + 16 * s.fh + 8 * s.fy + 4 * s.fv + 2 * s.fn + s.fc
Z80SetF(s, v) ==
  [s EXCEPT !.fs = Bit(v, 7), !.fz = Bit(v, 6), !.fx = Bit(v, 5), !.fh = Bit(v, 4),
            !.fy = Bit(v, 3), !.fv = Bit(v, 2), !.fn = Bit(v, 1), !.fc = Bit(v, 0)]

Z80Cell(s, a) == Peek(s, Word(a))
Z80Cells(s, a) == 256 * Z80Cell(s, a + 1) + Z80Cell(s, a)
Z80SetCell(s, a, v) == Poke(s, Word(a), v)
Z80SetCells_Big(s, a, v) == Z80SetCell(Z80SetCell(s, a, v \div 256), a + 1, v)  \* fault
Z80SetCells(s, a, v) == Z80SetCell(Z80SetCell(s, a + 1, v \div 256), a, v)
Z80Push(s, v) == LET sp == Word(s.sp - 2) IN Z80SetCells([s EXCEPT !.sp = sp], sp, v)
Z80Pop(s) == Z80Cells(s, s.sp)
Z80Popped(s) == [s EXCEPT !.sp = Word(@ + 2)]
Z80Goto(s, a) == [s EXCEPT !.pc = Word(a - 1)]

Z80Pair(s, p) ==
  CASE p = "bc" -> 256 * s.b + s.c
    [] p = "de" -> 256 * s.d + s.e
    [] p = "hl" -> 256 * s.h + s.l
    [] p = "af" -> 256 * s.a + Z80F(s)
    [] OTHER -> s[p]
Z80SetPair(s, p, v) ==
  CASE p = "bc" -> [s EXCEPT !.b = v \div 256, !.c = Byte(v)]
    [] p = "de" -> [s EXCEPT !.d = v \div 256, !.e = Byte(v)]
    [] p = "hl" -> [s EXCEPT !.h = v \div 256, !.l = Byte(v)]
    [] p = "af" -> Z80SetF([s EXCEPT !.a = v \div 256], Byte(v))
    [] OTHER -> [s EXCEPT ![p] = v]

Z80Unknown(s) == [s EXCEPT !.known = FALSE]
Z80Hnc(s, h, n, c) == [s EXCEPT !.fh = h, !.fn = n, !.fc = c]
Z80Hn(s) == [s EXCEPT !.fh = 0, !.fn = 0]
Z80N(s, n) == [s EXCEPT !.fn = n]

Z80Parity(v) == Flag(EvenParity(Byte(v)))
Z80Sign(s, v) == [s EXCEPT !.fz = Flag(Byte(v) = 0), !.fs = Bit(Byte(v), 7)]
Z80Half(neg, old, number, new) ==
  Flag(IF neg THEN Borrowed(old, number, new, 3) ELSE Carried(old, number, new, 3))
Z80Carry_Added(neg, old, number, new) == Flag(Carried(old, number, new, 7))  \* fault
Z80Carry(neg, old, number, new) ==
  Flag(IF neg THEN Borrowed(old, number, new, 7) ELSE Carried(old, number, new, 7))
Z80Overflow(neg, old, number, new) ==
  Flag(IF neg THEN Bit(old, 7) # Bit(number, 7) /\ Bit(new, 7) = Bit(number, 7)
       ELSE Bit(old, 7) = Bit(number, 7) /\ Bit(new, 7) # Bit(old, 7))
Z80Half16(neg, old, number, new) ==
  Flag(IF neg THEN Borrowed(old, number, new, 11) ELSE Carried(old, number, new, 11))
Z80Carry16_Byte(neg, old, number, new) ==  \* fault
  Flag(IF neg THEN Borrowed(old, number, new, 7) ELSE Carried(old, number, new, 7))
Z80Carry16(neg, old, number, new) ==
  Flag(IF neg THEN Borrowed(old, number, new, 15) ELSE Carried(old, number, new, 15))
Z80Overflow16(old, number, new) ==
  Flag(Bit(old, 15) = Bit(number, 15) /\ Bit(new, 15) # Bit(old, 15))

\* What an operation on A leaves in A and in the flags; v says what becomes of V.
Z80FlagsA(s, op, a, number, v) ==
  LET sum == op \in {"adc", "add"}
      less == op \in {"sub", "sbc", "cp"}
      compares == op \in {"cpi", "cpd", "cpir", "cpdr"}
      vflag == CASE v = "parity" -> Z80Parity(a)
                 [] v = "overflow" -> Z80Overflow(~sum, s.a, number, a)
                 [] OTHER -> s.fv
  IN [Z80Sign(s, a) EXCEPT
        !.a = IF op = "cp" \/ compares THEN @ ELSE Byte(a),
        !.fv = vflag,
        !.fh = CASE sum -> Z80Half(FALSE, s.a, number, a)
                 [] less \/ compares \/ op = "neg" -> Z80Half(TRUE, s.a, number, a)
                 [] OTHER -> @,
        !.fc = CASE sum -> Z80Carry(FALSE, s.a, number, Byte(a))
                 [] less -> Z80Carry(TRUE, s.a, number, Byte(a))
                 [] OTHER -> @]
Z80Flags8(s, op, new, old, v) ==
  [Z80Sign(s, new) EXCEPT
     !.fv = CASE v = "parity" -> Z80Parity(new)
              [] op = "inc" -> Flag(old = 127)
              [] op = "dec" -> Flag(old = 128),
     !.fh = IF op \in {"inc", "dec"} THEN Z80Half(op = "dec", old, 1, Byte(new)) ELSE @]
Z80Flags16(s, op, new, old, number, v) ==
  LET neg == op = "sbc"
      set == [s EXCEPT !.fh = Z80Half16(neg, old, number, Word(new)),
                       !.fc = Z80Carry16(neg, old, number, Word(new))]
  IN IF v # "overflow" THEN set
     ELSE [set EXCEPT !.fv = Z80Overflow16(old, number, Word(new)),
                      !.fz = Flag(Word(new) = 0), !.fs = Bit(Word(new), 15)]

Z80Daa(s) ==
  LET high == s.fc = 1 \/ s.a > 153
      low == s.fh = 1 \/ s.a % 16 > 9
      correction == (IF high THEN 96 ELSE 0) + (IF low THEN 6 ELSE 0)
      r == IF s.fn = 1 THEN s.a - correction ELSE s.a + correction
  IN [Z80Sign(s, r) EXCEPT !.fc = Flag(high), !.fv = Z80Parity(r),
                           !.fh = Flag(s.fn = 0 /\ s.a % 16 >= 10), !.a = Byte(r)]

Z80None(s, i) ==
  LET a(v, c) == [Z80Hnc(s, 0, 0, c) EXCEPT !.a = v]
      swapped(p, tick) == [Z80SetPair(s, p, s[tick]) EXCEPT ![tick] = Z80Pair(s, p)]
  IN CASE i.op = "ccf" -> Z80Hnc(s, s.fc, 0, 1 - s.fc)
       [] i.op = "cpl" -> [s EXCEPT !.a = 255 - @, !.fh = 1, !.fn = 1]
       [] i.op = "daa" -> Z80Daa(s)
       [] i.op = "di" -> [s EXCEPT !.iff1 = 0, !.iff2 = 0]
       [] i.op = "ei" -> [s EXCEPT !.iff1 = 1, !.iff2 = 1]
       [] i.op = "ex" -> swapped("af", "af_tick")
       [] i.op = "exx" -> [Z80SetPair(Z80SetPair(Z80SetPair(s,
                             "bc", s.bc_tick), "de", s.de_tick), "hl", s.hl_tick) EXCEPT
                             !.bc_tick = Z80Pair(s, "bc"), !.de_tick = Z80Pair(s, "de"),
                             !.hl_tick = Z80Pair(s, "hl")]
       [] i.op \in {"halt", "nop"} -> s
       [] i.op = "ret" -> Z80Goto(Z80Popped(s), Z80Pop(s))
       [] i.op = "rla" -> a(Byte(2 * s.a) + s.fc, Bit(s.a, 7))
       [] i.op = "rlca" -> a(Byte(2 * s.a) + Bit(s.a, 7), Bit(s.a, 7))
       [] i.op = "rra" -> a((s.a \div 2) + 128 * s.fc, Bit(s.a, 0))
       [] i.op = "rrca" -> a((s.a \div 2) + 128 * Bit(s.a, 0), Bit(s.a, 0))
       [] i.op = "scf" -> Z80Hnc(s, 0, 0, 1)
       [] OTHER -> Z80Unknown(s)

\* The eight conditions, those of returns, of jr and of jumps and calls.
Z80Returns(s, cc) ==
  CASE cc = "nz" -> s.fz = 0
    [] cc = "z" -> s.fz = 1
    [] cc = "nc" -> s.fc = 0
    [] cc = "c" -> s.fc = 1
    [] cc = "po" -> s.fv = 0
    [] cc = "pe" -> s.fv = 1
    [] cc = "p" -> s.fs = 0
    [] cc = "m" -> s.fs = 1

Z80AReg8(s, i) ==
  LET number == s[i.src]
      a(v, n) == Z80FlagsA(Z80N(s, n), i.op, v, number, "overflow")
  IN CASE i.op = "adc" -> a(s.a + number + s.fc, 0)
       [] i.op = "add" -> a(s.a + number, 0)
       [] i.op = "sbc" -> a(s.a - (number + s.fc), 1)
Z80Reg8(s, i) ==
  LET number == s[i.src]
      logic(v, h) == Z80FlagsA(Z80Hnc(s, h, 0, 0), i.op, v, number, "parity")
  IN CASE i.op = "and" -> logic(s.a & number, 1)
       [] i.op = "or" -> logic(s.a | number, 0)
       [] i.op = "xor" -> logic(s.a ^^ number, 0)
       [] i.op \in {"cp", "sub"} -> Z80FlagsA(Z80N(s, 1), i.op, s.a - number, number, "overflow")
\* A rotation or shift gives a value of more than 8 bits when it is of a cell.
Z80Reg8Cb(s, i) ==
  LET number == s[i.reg]
      r(v, c) == [Z80Flags8([Z80Hn(s) EXCEPT !.fc = c], i.op, Byte(v), number, "parity")
                    EXCEPT ![i.reg] = Byte(v)]
  IN CASE i.op = "rl" -> r(2 * number + s.fc, Bit(number, 7))
       [] i.op = "rlc" -> r(2 * number + Bit(number, 7), Bit(number, 7))
       [] i.op = "rr" -> r((number \div 2) + 128 * s.fc, Bit(number, 0))
       [] i.op = "rrc" -> r((number \div 2) + 128 * Bit(number, 0), Bit(number, 0))
       [] i.op = "sla" -> r(2 * number, Bit(number, 7))
       [] i.op = "sra" -> r((number \div 2) + 128 * Bit(number, 7), Bit(number, 0))
       [] i.op = "sll" -> r(2 * number + 1, Bit(number, 7))
       [] i.op = "srl" -> r(number \div 2, Bit(number, 0))

Z80ANumber8(s, i) ==
  LET a(v, n) == Z80FlagsA(Z80N(s, n), i.op, v, i.n, "overflow")
  IN CASE i.op = "adc" -> a(s.a + i.n + s.fc, 0)
       [] i.op = "add" -> a(s.a + i.n, 0)
       [] i.op = "sbc" -> a(s.a - (i.n + s.fc), 1)
Z80Number8(s, i) ==
  LET logic(v, h) == Z80FlagsA(Z80Hnc(s, h, 0, 0), i.op, v, i.n, "parity")
  IN CASE i.op = "and" -> logic(s.a & i.n, 1)
       [] i.op = "or" -> logic(s.a | i.n, 0)
       [] i.op = "xor" -> logic(s.a ^^ i.n, 0)
       [] i.op \in {"cp", "sub"} -> Z80FlagsA(Z80N(s, 1), i.op, s.a - i.n, i.n, "overflow")

Z80Offset8(s, i) ==
  LET b == Byte(s.b - 1)
      jump == [s EXCEPT !.pc = Word(@ + i.d)]
  IN IF i.op = "jr" THEN jump
     ELSE [(IF b # 0 THEN jump ELSE s) EXCEPT !.b = b]
Z80CondOffset8(s, i) ==
  LET jumps == CASE i.src = "nz" -> s.fz = 0
                 [] i.src = "z" -> s.fz = 1
                 [] i.src = "nc" -> s.fc = 0
                 [] i.src = "c" -> s.fc = 1
  IN IF jumps THEN [s EXCEPT !.pc = Word(@ + i.d)] ELSE s

Z80Reg8V2(s, i) ==
  LET new == Byte(IF i.op = "dec" THEN s[i.reg] - 1 ELSE s[i.reg] + 1)
  IN Z80Flags8([s EXCEPT ![i.reg] = new, !.fn = Flag(i.op = "dec")], i.op, new, s[i.reg],
               "overflow")

Z80IndexHl(s, i) ==
  LET hl == Z80Pair(s, "hl")
      tmp == Z80Cell(s, hl)
      cell(v, n) == Z80SetCell(Z80Flags8(Z80N(s, n), i.op, v, tmp, "overflow"), hl, v)
      logic(v, h) == Z80FlagsA(Z80Hnc(s, h, 0, 0), i.op, v, tmp, "parity")
  IN CASE i.op = "jp" -> Z80Goto(s, hl)
       [] i.op = "inc" -> cell(tmp + 1, 0)
       [] i.op = "dec" -> cell(tmp - 1, 1)
       [] i.op = "and" -> logic(s.a & tmp, 1)
       [] i.op = "xor" -> logic(s.a ^^ tmp, 0)
       [] i.op = "or" -> logic(s.a | tmp, 0)
       [] i.op \in {"sub", "cp"} -> Z80FlagsA(Z80N(s, 1), i.op, s.a - tmp, tmp, "overflow")
Z80AIndexHl(s, i) ==
  LET tmp == Z80Cell(s, Z80Pair(s, "hl"))
      a(v, n) == Z80FlagsA(Z80N(s, n), i.op, v, tmp, "overflow")
  IN CASE i.op = "adc" -> a(s.a + (tmp + s.fc), 0)
       [] i.op = "add" -> a(s.a + tmp, 0)
       [] i.op = "sbc" -> a(s.a - (tmp + s.fc), 1)
Z80IndexHlCb(s, i) ==
  LET hl == Z80Pair(s, "hl")
      number == Z80Cell(s, hl)
      r(v, c) == Z80SetCell(Z80Flags8([Z80Hn(s) EXCEPT !.fc = c], i.op, v, number, "parity"), hl, v)
  IN CASE i.op = "rl" -> r(2 * number + s.fc, Bit(number, 7))
       [] i.op = "rlc" -> r(2 * number + Bit(number, 7), Bit(number, 7))
       [] i.op = "rr" -> r((number \div 2) + 128 * s.fc, Bit(number, 0))
       [] i.op = "rrc" -> r((number \div 2) + 128 * Bit(number, 0), Bit(number, 0))
       [] i.op = "sla" -> r(2 * number, Bit(number, 7))
       [] i.op = "sra" -> r((number \div 2) + 128 * Bit(number, 7), Bit(number, 0))
       [] i.op = "sll" -> r(2 * number + 1, Bit(number, 7))
       [] i.op = "srl" -> r(number \div 2, Bit(number, 0))
Z80IndexLong(s, i) ==
  LET at == s[i.src] + i.d
      number == Z80Cell(s, at)
      r(v, c) == Z80SetCell(Z80Flags8([Z80Hn(s) EXCEPT !.fc = c], i.op, v, number, "parity"), at, v)
  IN CASE i.op = "rl" -> r(2 * number + s.fc, Bit(number, 7))
       [] i.op = "rlc" -> r(2 * number + Bit(number, 7), Bit(number, 7))
       [] i.op = "rr" -> r((number \div 2) + 128 * s.fc, Bit(number, 0))
       [] i.op = "rrc" -> r((number \div 2) + 128 * Bit(number, 0), Bit(number, 0))
       [] i.op = "sla" -> r(2 * number, Bit(number, 7))
       [] i.op = "sra" -> r((number \div 2) + 128 * Bit(number, 7), Bit(number, 0))
       [] i.op = "sll" -> r(2 * number + 1, Bit(number, 7))
       [] i.op = "srl" -> r(number \div 2, Bit(number, 0))

\* Bit i.n of a register or a cell.
Z80WithBit(op, v, n) ==
  CASE op = "set" -> v | 2^n
    [] op = "res" -> v - 2^n * Bit(v, n)
    [] op = "bit" -> v
Z80Tested(s, op, v, n) ==
  IF op = "bit" THEN [s EXCEPT !.fh = 1, !.fn = 0, !.fz = 1 - Bit(v, n)] ELSE s
Z80BitReg8(s, i) ==
  [Z80Tested(s, i.op, s[i.reg], i.n) EXCEPT ![i.reg] = Z80WithBit(i.op, @, i.n)]
Z80BitIndexHl(s, i) ==
  LET hl == Z80Pair(s, "hl")
      data == Z80Cell(s, hl)
  IN Z80SetCell(Z80Tested(s, i.op, data, i.n), hl, Z80WithBit(i.op, data, i.n))
Z80BitIndex(s, i) ==
  LET at == s[i.src] + i.d
      number == Z80Cell(s, at)
  IN Z80SetCell(Z80Tested(s, i.op, number, i.n), at, Z80WithBit(i.op, number, i.n))

\* One step of the operations on blocks, and as many as the code repeats.
Z80Pairs(s, hl, de, bc) == Z80SetPair(Z80SetPair(Z80SetPair(s, "hl", hl), "de", de), "bc", bc)
Z80Copy(s, i) ==
  LET by == IF i.op \in {"ldi", "ldir"} THEN 1 ELSE -1
      hl == Z80Pair(s, "hl")
      de == Z80Pair(s, "de")
      bc == Z80Pair(s, "bc")
      repeats == i.op \in {"ldir", "lddr"}
      count == IF ~repeats THEN 1 ELSE IF bc = 0 THEN 65536 ELSE bc
      copied[k \in 0..count] ==
        IF k = 0 THEN s
        ELSE Z80SetCell(copied[k - 1], de + by * (k - 1),
                        Z80Cell(copied[k - 1], hl + by * (k - 1)))
      left == Word(bc - count)
  IN [Z80Pairs(copied[count], Word(hl + by * count), Word(de + by * count), left)
        EXCEPT !.fh = 0, !.fn = 0, !.fv = Flag(~repeats /\ left # 0)]
Z80Search(s, i) ==
  LET by == IF i.op \in {"cpi", "cpir"} THEN 1 ELSE -1
      hl == Z80Pair(s, "hl")
      bc == Z80Pair(s, "bc")
      most == IF i.op \in {"cpi", "cpd"} THEN 1 ELSE IF bc = 0 THEN 65536 ELSE bc
      cell(k) == Z80Cell(s, hl + by * (k - 1))
      matches(k) == cell(k) = s.a
      count == IF \E k \in 1..most : matches(k)
               THEN CHOOSE k \in 1..most : matches(k) /\ \A j \in 1..k-1 : ~matches(j)
               ELSE most
      left == Word(bc - count)
      compared == Z80FlagsA(s, i.op, s.a - cell(count), cell(count), "unchanged")
  IN [Z80Pairs(compared, Word(hl + by * count), Z80Pair(s, "de"), left)
        EXCEPT !.fn = 1, !.fv = Flag(left # 0)]

Z80Io(s, port) == IF port \in DOMAIN s.io THEN s.io[port] ELSE 0
Z80SetIo(s, port, v) == [s EXCEPT !.io = (port :> v) @@ @]
\* Only the last value that goes to a port is there afterwards; with B = 0 the
\* loops of otir and otdr come after one more output.
Z80OutBlock(s, i) ==
  LET by == IF i.op \in {"outi", "otir"} THEN 1 ELSE -1
      repeats == i.op \in {"otir", "otdr"}
      count == IF ~repeats THEN 1 ELSE IF s.b = 0 THEN 257 ELSE s.b
      hl == Z80Pair(s, "hl")
      b == IF repeats THEN 0 ELSE Byte(s.b - 1)
      out == Z80SetIo(s, s.c, Z80Cell(s, hl + by * (count - 1)))
  IN [Z80SetPair(out, "hl", Word(hl + by * count)) EXCEPT !.b = b, !.fn = 1, !.fz = Flag(b = 0)]
Z80InBlock(s, i) ==
  LET by == IF i.op \in {"ini", "inir"} THEN 1 ELSE -1
      repeats == i.op \in {"inir", "indr"}
      count == IF ~repeats THEN 1 ELSE IF s.b = 0 THEN 256 ELSE s.b
      hl == Z80Pair(s, "hl")
      b == IF repeats THEN 0 ELSE Byte(s.b - 1)
      in[k \in 0..count] ==
        IF k = 0 THEN s ELSE Z80SetCell(in[k - 1], hl + by * (k - 1), Z80Io(s, s.c))
  IN [Z80SetPair(in[count], "hl", Word(hl + by * count)) EXCEPT
        !.b = b, !.fn = 1, !.fz = Flag(b = 0)]
Z80Digits(s, i) ==
  LET hl == Z80Pair(s, "hl")
      cell == Z80Cell(s, hl)
      digits(new, low) ==
        LET a == 16 * (s.a \div 16) + low
        IN Z80SetCell([Z80Flags8(Z80Hn(s), i.op, a, 0, "parity") EXCEPT !.a = a], hl, new)
  IN IF i.op = "rld" THEN digits(16 * (cell % 16) + (s.a % 16), cell \div 16)
     ELSE digits(16 * (s.a % 16) + (cell \div 16), cell % 16)

Z80None16(s, i) ==
  CASE i.op = "neg" ->
         Z80FlagsA([s EXCEPT !.fc = Flag(s.a # 0), !.fv = Flag(s.a = 128), !.fn = 1],
                   "neg", -s.a, 0, "unchanged")
    [] i.op \in {"reti", "retn"} -> Z80Goto(Z80Popped(s), Z80Pop(s))
    [] i.op \in {"ldi", "ldd", "ldir", "lddr"} -> Z80Copy(s, i)
    [] i.op \in {"cpi", "cpd", "cpir", "cpdr"} -> Z80Search(s, i)
    [] i.op \in {"outi", "outd", "otir", "otdr"} -> Z80OutBlock(s, i)
    [] i.op \in {"ini", "ind", "inir", "indr"} -> Z80InBlock(s, i)
    [] i.op \in {"rld", "rrd"} -> Z80Digits(s, i)
    [] OTHER -> Z80Unknown(s)

Z80Reg16(s, i) ==
  Z80SetPair(s, i.reg, Word(Z80Pair(s, i.reg) + (IF i.op = "dec" THEN -1 ELSE 1)))
Z80Reg16p(s, i) ==
  IF i.op = "push" THEN Z80Push(s, Z80Pair(s, i.reg))
  ELSE Z80SetPair(Z80Popped(s), i.reg, Z80Pop(s))
Z80HlReg16One(s, i) ==
  LET old == Z80Pair(s, "hl")
      number == Z80Pair(s, i.src)
      value == old + number
  IN Z80Flags16(Z80SetPair(Z80N(s, 0), "hl", Word(value)), "add", value, old, number, "unchanged")
Z80HlReg16Two(s, i) ==
  LET old == Z80Pair(s, "hl")
      number == Z80Pair(s, i.src)
      value == IF i.op = "adc" THEN old + (number + s.fc) ELSE old - (number + s.fc)
  IN Z80Flags16(Z80SetPair(Z80N(s, Flag(i.op = "sbc")), "hl", Word(value)), i.op, value, old,
                number, "overflow")

Z80Index(s, i) ==
  LET at == s[i.src] + i.d
      tmp == Z80Cell(s, at)
      cell(v, n) == Z80SetCell(Z80Flags8(Z80N(s, n), i.op, v, tmp, "overflow"), at, v)
      logic(v, h) == Z80FlagsA(Z80Hnc(s, h, 0, 0), i.op, v, tmp, "parity")
  IN CASE i.op = "and" -> logic(s.a & tmp, 1)
       [] i.op = "or" -> logic(s.a | tmp, 0)
       [] i.op = "xor" -> logic(s.a ^^ tmp, 0)
       [] i.op \in {"sub", "cp"} -> Z80FlagsA(Z80N(s, 1), i.op, s.a - tmp, tmp, "overflow")
       [] i.op = "dec" -> cell(tmp - 1, 1)
       [] i.op = "inc" -> cell(tmp + 1, 0)
       [] OTHER -> Z80Unknown(s)
Z80AIndex(s, i) ==
  LET tmp == Z80Cell(s, s[i.src] + i.d)
      a(v, n) == Z80FlagsA(Z80N(s, n), i.op, v, tmp, "overflow")
  IN CASE i.op = "add" -> a(s.a + tmp, 0)
       [] i.op = "adc" -> a(s.a + (tmp + s.fc), 0)
       [] i.op = "sbc" -> a(s.a - (tmp + s.fc), 1)
       [] OTHER -> Z80Unknown(s)
Z80Xy(s, i) ==
  CASE i.op = "push" -> Z80Push(s, s[i.reg])
    [] i.op = "pop" -> [Z80Popped(s) EXCEPT ![i.reg] = Z80Pop(s)]
    [] i.op = "dec" -> [s EXCEPT ![i.reg] = Word(@ - 1)]
    [] i.op = "inc" -> [s EXCEPT ![i.reg] = Word(@ + 1)]
    [] OTHER -> Z80Unknown(s)
Z80XyReg16(s, i) ==
  LET old == s[i.reg]
      number == Z80Pair(s, i.src)
      new == old + number
  IN Z80Flags16([Z80N(s, 0) EXCEPT ![i.reg] = Word(new)], "add", new, old, number, "unchanged")
Z80IndexXy(s, i) == IF i.op = "jp" THEN Z80Goto(s, s[i.src]) ELSE Z80Unknown(s)
Z80IndexSpXy(s, i) == [Z80SetCells(s, s.sp, s[i.reg]) EXCEPT ![i.reg] = Z80Pop(s)]
Z80IndexAddressXy(s, i) == Z80SetCells(s, i.n, s[i.src])
Z80IndexAddressReg16(s, i) == Z80SetCells(s, i.n, Z80Pair(s, i.src))

Z80Address(s, i) == Z80Goto(IF i.op = "call" THEN Z80Push(s, s.pc + 1) ELSE s, i.n)
Z80CondAddress(s, i) ==
  LET jumps == CASE i.src = "nz" -> s.fz = 0
                 [] i.src = "z" -> s.fz = 1
                 [] i.src = "nc" -> s.fc = 0
                 [] i.src = "c" -> s.fc = 1
                 [] i.src = "po" -> s.fv = 0
                 [] i.src = "pe" -> s.fv = 1
                 [] i.src = "p" -> s.fs = 0
                 [] i.src = "m" -> s.fs = 1
  IN IF ~jumps THEN s
     ELSE Z80Goto(IF i.op = "call" THEN Z80Push(s, s.pc + 1) ELSE s, i.n)

\* The instructions that execute() treats itself: those of 8 bits,
Z80Loads(s, i) ==
  LET hl == Z80Pair(s, "hl")
  IN CASE i.type = "reg8_reg8" -> [s EXCEPT ![i.reg] = s[i.src]]
       [] i.type = "reg8_number8" -> [s EXCEPT ![i.reg] = i.n]
       [] i.type = "reg8_index_hl" -> [s EXCEPT ![i.reg] = Z80Cell(s, hl)]
       [] i.type = "index_hl_reg8" -> Z80SetCell(s, hl, s[i.src])
       [] i.type = "index_hl_number8" -> Z80SetCell(s, hl, i.n)
       [] i.type = "a_index_address" -> [s EXCEPT !.a = Z80Cell(s, i.n)]
       [] i.type = "index_address_a" -> Z80SetCell(s, i.n, s.a)
       [] i.type = "a_index_bc" -> [s EXCEPT !.a = Z80Cell(s, Z80Pair(s, "bc"))]
       [] i.type = "a_index_de" -> [s EXCEPT !.a = Z80Cell(s, Z80Pair(s, "de"))]
       [] i.type = "index_de_a" -> Z80SetCell(s, Z80Pair(s, "de"), s.a)
       [] i.type = "index_bc_a" -> Z80SetCell(s, Z80Pair(s, "bc"), s.a)
       [] i.type = "reg16_address" -> Z80SetPair(s, i.reg, i.n)
       [] i.type = "index_address_hl" -> Z80SetCells(s, i.n, hl)
       [] i.type = "hl_index_address" ->
            [s EXCEPT !.l = Z80Cell(s, i.n), !.h = Z80Cell(s, i.n + 1)]
       [] i.type = "index_address8_a" -> Z80SetIo(s, i.n, s.a)
\* those of 16 bits,
Z80LoadsOfTwoBytes(s, i) ==
  LET at == s[i.src] + i.d
      a == [Z80FlagsA(s, "ld", s[i.src], 0, "unchanged") EXCEPT !.fh = 0, !.fn = 0]
      in == Z80Io(s, s.c)
  IN CASE i.type = "im_num" -> [s EXCEPT !.im = IF i.n > 0 THEN i.n - 1 ELSE 0]
       [] i.type = "reg8_index_c" ->
            Z80Flags8([Z80Hn(s) EXCEPT ![i.reg] = in], "in", in, 0, "parity")
       [] i.type = "reg8_index" -> [s EXCEPT ![i.reg] = Z80Cell(s, at)]
       [] i.type = "index_reg8" -> Z80SetCell(s, at, s[i.reg])
       [] i.type = "index_number8" -> Z80SetCell(s, at, i.n)
       [] i.type = "ir_a" -> [s EXCEPT ![i.reg] = s.a]
       [] i.type = "a_ir" -> [a EXCEPT !.fv = Flag(s.iff2 # 0)]
       [] i.type = "xy_address" -> [s EXCEPT ![i.reg] = i.n]
       [] i.type = "reg16_index_address" -> Z80SetPair(s, i.reg, Z80Cells(s, i.n))
       [] i.type = "xy_index_address" -> [s EXCEPT ![i.reg] = Z80Cells(s, i.n)]
       [] i.type = "sp_xy" -> [s EXCEPT !.sp = s[i.src]]
       [] i.type = "index_c_reg8" -> Z80SetIo(s, s.c, s[i.reg])
       [] OTHER -> Z80Unknown(s)
\* and the dispatch, of 8 bits and of 16.
Z80Execute(s, i) ==
  CASE i.type = "none" -> Z80None(s, i)
    [] i.type = "a_reg8" -> Z80AReg8(s, i)
    [] i.type = "reg8" -> Z80Reg8(s, i)
    [] i.type = "a_number8" -> Z80ANumber8(s, i)
    [] i.type = "hl_reg16_1" -> Z80HlReg16One(s, i)
    [] i.type = "a_index_hl" -> Z80AIndexHl(s, i)
    [] i.type = "index_hl" -> Z80IndexHl(s, i)
    [] i.type = "number8" -> Z80Number8(s, i)
    [] i.type = "address" -> Z80Address(s, i)
    [] i.type = "cond_address" -> Z80CondAddress(s, i)
    [] i.type = "reg8_v2" -> Z80Reg8V2(s, i)
    [] i.type = "reg16" -> Z80Reg16(s, i)
    [] i.type = "index_sp_hl" -> Z80SetPair(Z80SetCells(s, s.sp, Z80Pair(s, "hl")), "hl", Z80Pop(s))
    [] i.type = "de_hl" -> Z80SetPair(Z80SetPair(s, "hl", Z80Pair(s, "de")), "de", Z80Pair(s, "hl"))
    [] i.type = "sp_hl" -> [s EXCEPT !.sp = Z80Pair(s, "hl")]
    [] i.type = "a_index_n" -> [s EXCEPT !.a = Z80Io(s, i.n)]
    [] i.type = "offset8" -> Z80Offset8(s, i)
    [] i.type = "jr_cond_address" -> Z80CondOffset8(s, i)
    [] i.type = "reg16p" -> Z80Reg16p(s, i)
    [] i.type = "cond" -> IF Z80Returns(s, i.src) THEN Z80Goto(Z80Popped(s), Z80Pop(s)) ELSE s
    [] i.type = "restart_address" -> Z80Goto(Z80Push(s, s.pc + 1), i.n)
    [] OTHER -> Z80Loads(s, i)
Z80ExecuteTwoBytes(s, i) ==
  CASE i.type = "none16" -> Z80None16(s, i)
    [] i.type = "a_index" -> Z80AIndex(s, i)
    [] i.type = "hl_reg16_2" -> Z80HlReg16Two(s, i)
    [] i.type = "xy_reg16" -> Z80XyReg16(s, i)
    [] i.type = "index" -> Z80Index(s, i)
    [] i.type = "bit_reg8" -> Z80BitReg8(s, i)
    [] i.type = "bit_index_hl" -> Z80BitIndexHl(s, i)
    [] i.type = "bit_index" -> Z80BitIndex(s, i)
    [] i.type = "xy" -> Z80Xy(s, i)
    [] i.type = "index_sp_xy" -> Z80IndexSpXy(s, i)
    [] i.type = "index_xy" -> Z80IndexXy(s, i)
    [] i.type = "index_address_reg16" -> Z80IndexAddressReg16(s, i)
    [] i.type = "index_address_xy" -> Z80IndexAddressXy(s, i)
    [] i.type = "index_long" -> Z80IndexLong(s, i)
    [] i.type = "reg8_cb" -> Z80Reg8Cb(s, i)
    [] i.type = "index_hl_cb" -> Z80IndexHlCb(s, i)
    [] OTHER -> Z80LoadsOfTwoBytes(s, i)

Z80TypesOfOneByte ==
  {"none", "a_reg8", "reg8", "a_number8", "hl_reg16_1", "a_index_hl", "index_hl", "number8",
   "address", "cond_address", "reg8_v2", "reg16", "index_sp_hl", "de_hl", "sp_hl", "a_index_n",
   "offset8", "jr_cond_address", "reg8_reg8", "reg8_number8", "reg8_index_hl", "index_hl_reg8",
   "index_hl_number8", "a_index_address", "index_address_a", "a_index_bc", "a_index_de",
   "index_de_a", "index_bc_a", "reg16_address", "index_address_hl", "hl_index_address",
   "index_address8_a", "reg16p", "cond", "restart_address"}
Z80Step(s, i) ==
  LET next == IF i.type \in Z80TypesOfOneByte THEN Z80Execute(s, i) ELSE Z80ExecuteTwoBytes(s, i)
  IN [next EXCEPT !.pc = Word(@ + 1)]

Z80Reset ==
  [a |-> 0, b |-> 0, c |-> 0, d |-> 0, e |-> 0, h |-> 0, l |-> 0, ix |-> 0, iy |-> 0, sp |-> 0,
   fs |-> 0, fz |-> 0, fx |-> 0, fh |-> 0, fy |-> 0, fv |-> 0, fn |-> 0, fc |-> 0,
   af_tick |-> 0, bc_tick |-> 0, de_tick |-> 0, hl_tick |-> 0, iff1 |-> 0, iff2 |-> 0,
   im |-> 0, iv |-> 0, rr |-> 0, io |-> << >>, pc |-> 0, known |-> TRUE, m |-> << >>]

-----------------------------------------------------------------------------
(* The programs.  A and the other operand in B, C, D, E and the cells 16   *)
(* to 20 are those of 8 bits, HL and DE or IX and IY those of 16; with     *)
(* bytes, HL, IX and IY point to the cells.                                *)

Z80Start(kind, l, r, carry) ==
  LET word == kind = "words"
      high == IF word THEN r \div 256 ELSE r
      hold(a) == CASE a \in 16..20 /\ a % 2 = 1 -> high
                   [] a \in 16..20 -> Byte(r)
                   [] OTHER -> 0
  IN [Z80Reset EXCEPT
        !.a = Byte(l), !.b = high, !.c = Byte(r), !.d = high, !.e = Byte(r),
        !.h = IF word THEN l \div 256 ELSE 0, !.l = IF word THEN Byte(l) ELSE 18,
        !.ix = IF word THEN l ELSE 15, !.iy = IF word THEN r ELSE 19,
        !.sp = 12, !.pc = Base, !.fc = carry, !.m = [a \in 16..31 |-> hold(a)]]

Z80I(op, type, reg, src, n) ==
  [op |-> op, type |-> type, reg |-> reg, src |-> src, n |-> n, d |-> 0]
Z80By(op) == Z80I(op, "none", "", "", 0)
Z80By16(op) == Z80I(op, "none16", "", "", 0)
Z80Sum == {"adc", "add", "sbc"}
Z80Logic == {"and", "or", "xor", "cp", "sub"}
Z80With(op, r) == Z80I(op, IF op \in Z80Sum THEN "a_reg8" ELSE "reg8", "", r, 0)
Z80WithN(op, n) == Z80I(op, IF op \in Z80Sum THEN "a_number8" ELSE "number8", "", "", n)
Z80WithHl(op) == Z80I(op, IF op \in Z80Sum THEN "a_index_hl" ELSE "index_hl", "", "", 0)
Z80WithXy(op, xy, d) ==
  [Z80I(op, IF op \in Z80Sum THEN "a_index" ELSE "index", "", xy, 0) EXCEPT !.d = d]
Z80Ld(reg, src) == Z80I("ld", "reg8_reg8", reg, src, 0)
Z80LdN(reg, n) == Z80I("ld", "reg8_number8", reg, "", n)
Z80LdNn(pair, n) == Z80I("ld", "reg16_address", pair, "", n)
Z80LdHl(reg) == Z80I("ld", "reg8_index_hl", reg, "", 0)
Z80ToHl(reg) == Z80I("ld", "index_hl_reg8", "", reg, 0)
Z80Stack(op, pair) == Z80I(op, IF pair \in {"ix", "iy"} THEN "xy" ELSE "reg16p", pair, "", 0)
Z80Jr(d) == [Z80I("jr", "offset8", "", "", 0) EXCEPT !.d = d]
Z80JrIf(cc, d) == [Z80I("jr", "jr_cond_address", "", cc, 0) EXCEPT !.d = d]
Z80To(op, n) == Z80I(op, "address", "", "", Base + n)
Z80ToIf(op, cc, n) == Z80I(op, "cond_address", "", cc, Base + n)
Z80Wide(op, reg) == Z80I(op, IF reg \in {"ix", "iy"} THEN "xy" ELSE "reg16", reg, "", 0)
Z80AddHl(op, src) == Z80I(op, IF op = "add" THEN "hl_reg16_1" ELSE "hl_reg16_2", "hl", src, 0)
Z80Nop == Z80By("nop")

Z80Same(kind, code, also, but) == Agree("z80", kind, code, also, but)
Z80Undo(kind, code, but) == Undone("z80", kind, code, but)

\* The same operation on registers, numbers, and the cells at HL, IX and IY.
Z80AccumulateTasks ==
  UNION {
    {Z80Same("bytes", <<Z80With(op, r)>>, <<Z80WithHl(op)>>, {}) : r \in {"b", "c", "d", "e"}}
    \union {Z80Same("bytes", <<Z80With(op, r)>>, <<Z80Ld("b", r), Z80With(op, "b")>>, {"b"}) :
            r \in {"a", "h", "l"}}
    \union {Z80Same("bytes", <<Z80WithN(op, n)>>, <<Z80LdN("b", n), Z80With(op, "b")>>, {"b"}) :
            n \in {1, 90, 127, 128}}
    \union {Z80Same("bytes", <<Z80WithXy(op, at[1], at[2])>>, <<Z80WithHl(op)>>, {}) :
            at \in {<<"ix", 3>>, <<"iy", -1>>}} :
    op \in Z80Sum \union Z80Logic}
  \union {Z80Same("bytes", <<Z80With("cp", "b")>>,
            <<Z80Ld("d", "a"), Z80With("sub", "b"), Z80Ld("a", "d")>>, {"d"}),
          Z80Same("bytes", <<Z80By16("neg")>>,
            <<Z80Ld("b", "a"), Z80LdN("a", 0), Z80With("sub", "b")>>, {"b", "fh"}),
          Z80Same("bytes", <<Z80By("cpl")>>, <<Z80WithN("xor", 255)>>,
            {"fs", "fz", "fh", "fv", "fn", "fc"})}

Z80Rotations == {"rl", "rlc", "rr", "rrc", "sla", "sra", "sll", "srl"}
Z80OnReg(op, r) ==
  IF op \in {"inc", "dec"} THEN Z80I(op, "reg8_v2", r, "", 0) ELSE Z80I(op, "reg8_cb", r, "", 0)
Z80OnHl(op) ==
  IF op \in {"inc", "dec"} THEN Z80WithHl(op) ELSE Z80I(op, "index_hl_cb", "", "", 0)
Z80OnXy(op, xy, d) ==
  IF op \in {"inc", "dec"} THEN Z80WithXy(op, xy, d)
  ELSE [Z80I(op, "index_long", "", xy, 0) EXCEPT !.d = d]
Z80ToXy(xy, reg, d) == [Z80I("ld", "index_reg8", reg, xy, 0) EXCEPT !.d = d]
Z80FromXy(reg, xy, d) == [Z80I("ld", "reg8_index", reg, xy, 0) EXCEPT !.d = d]
Z80ChangeTasks ==
  UNION {
    {Z80Same("bytes", <<Z80OnHl(op)>>, <<Z80OnReg(op, r), Z80ToHl(r)>>, {r}) :
       r \in {"b", "c", "d", "e"}}
    \union {Z80Same("bytes", <<Z80OnReg(op, r)>>,
              <<Z80Ld("b", r), Z80OnReg(op, "b"), Z80Ld(r, "b")>>, {"b"}) : r \in {"a", "h", "l"}}
    \union {Z80Same("bytes", <<Z80OnXy(op, at[1], at[2])>>,
              <<Z80OnReg(op, "b"), Z80ToXy(at[1], "b", at[2])>>, {"b"}) :
            at \in {<<"ix", 5>>, <<"iy", -3>>}} :
    op \in Z80Rotations \union {"inc", "dec"}}
  \union {Z80Same("bytes", <<Z80By(op[1])>>, <<Z80OnReg(op[2], "a")>>, {"fs", "fz", "fv"}) :
          op \in {<<"rla", "rl">>, <<"rlca", "rlc">>, <<"rra", "rr">>, <<"rrca", "rrc">>}}
  \union {Z80Same("bytes", <<Z80OnReg(op[1], "a")>>, <<Z80WithN(op[2], 1)>>, {"fc"}) :
          op \in {<<"inc", "add">>, <<"dec", "sub">>}}
  \union {Z80Undo("bytes", <<Z80OnReg(op[1], "b"), Z80OnReg(op[2], "b")>>, {"fs", "fz", "fv", "fc"}) :
          op \in {<<"rlc", "rrc">>, <<"rrc", "rlc">>}}
  \union {Z80Undo("bytes", <<Z80OnReg(op[1], "b"), Z80OnReg(op[2], "b")>>, {"fs", "fz", "fv"}) :
          op \in {<<"rl", "rr">>, <<"rr", "rl">>}}
  \union {Z80Undo("bytes", [k \in 1..3 |-> Z80By16(op)], {"fs", "fz", "fv"}) : op \in {"rld", "rrd"}}
  \union {Z80Undo("bytes", <<Z80By16("rld"), Z80By16("rrd")>>, {"fs", "fz", "fv"})}

Z80BitOf(op, reg, n) == Z80I(op, "bit_reg8", reg, "", n)
Z80BitTasks ==
  {Z80Same("bytes", <<Z80BitOf("bit", r, n)>>, <<Z80Ld("a", r), Z80WithN("and", 2^n)>>,
           {"a", "fs", "fv", "fc"}) : r \in {"b", "l"}, n \in {0, 7}}
  \union {Z80Same("bytes", <<Z80BitOf(op[1], "a", n)>>, <<Z80WithN(op[2], op[3] + op[4] * 2^n)>>,
           {"fs", "fz", "fh", "fv", "fn", "fc"}) :
     n \in {0, 7}, op \in {<<"set", "or", 0, 1>>, <<"res", "and", 255, -1>>}}
  \union {Z80Same("bytes", <<Z80I(op, "bit_index_hl", "", "", n)>>,
            <<Z80BitOf(op, "b", n), Z80ToHl("b")>>, {"b"}) :
          n \in {0, 7}, op \in {"bit", "set", "res"}}
  \union {Z80Same("bytes", <<[Z80I(op, "bit_index", "", at[1], n) EXCEPT !.d = at[2]]>>,
            <<Z80BitOf(op, "b", n), Z80ToXy(at[1], "b", at[2])>>, {"b"}) :
          n \in {0, 7}, op \in {"bit", "set", "res"}, at \in {<<"ix", 5>>, <<"iy", -3>>}}

\* The ways to load and store.
Z80At(op, type, n) == Z80I("ld", type, op, op, n)
Z80LoadTasks ==
  {Z80Same("bytes", <<Z80LdNn(p[1], 20), Z80I("ld", p[2], "", "", 0)>>,
           <<Z80LdNn(p[1], 20), Z80I("ld", "a_index_address", "", "", 20)>>, {}) :
     p \in {<<"bc", "a_index_bc">>, <<"de", "a_index_de">>}}
  \union {Z80Same("bytes", <<Z80LdNn(p[1], 20), Z80I("ld", p[2], "", "", 0)>>,
           <<Z80LdNn(p[1], 20), Z80I("ld", "index_address_a", "", "", 20)>>, {}) :
     p \in {<<"bc", "index_bc_a">>, <<"de", "index_de_a">>}}
  \union {Z80Same("bytes", <<Z80LdHl(r)>>, <<Z80FromXy(r, "ix", 3)>>, {}) : r \in {"a", "b", "e", "h"}}
  \union {Z80Same("bytes", <<Z80I("ld", "index_hl_number8", "", "", 90)>>,
            <<[Z80I("ld", "index_number8", "", "iy", 90) EXCEPT !.d = -1]>>, {}),
          Z80Same("words", <<Z80I("ld", "hl_index_address", "", "", 17)>>,
            <<Z80I("ld", "reg16_index_address", "hl", "", 17)>>, {}),
          Z80Same("words", <<Z80I("ld", "index_address_hl", "", "", 17)>>,
            <<Z80I("ld", "index_address_xy", "", "ix", 17)>>, {}),
          Z80Same("words", <<Z80I("ld", "index_address_reg16", "", "de", 24)>>,
            <<Z80I("ld", "index_address_xy", "", "iy", 24)>>, {}),
          Z80Same("words", <<Z80I("ld", "xy_index_address", "ix", "", 17)>>,
            <<Z80I("ld", "reg16_index_address", "bc", "", 17), Z80Stack("push", "bc"),
              Z80Stack("pop", "ix")>>, {"b", "c"}),
          Z80Same("words", <<Z80I("ld", "xy_address", "ix", "", 4660)>>,
            <<Z80LdN("b", 18), Z80LdN("c", 52), Z80Stack("push", "bc"), Z80Stack("pop", "ix")>>,
            {"b", "c"}),
          Z80Same("words", <<Z80I("ld", "sp_hl", "", "", 0)>>, <<Z80I("ld", "sp_xy", "", "ix", 0)>>, {}),
          Z80Same("words", <<Z80I("ex", "de_hl", "", "", 0)>>,
            <<Z80Stack("push", "de"), Z80Stack("push", "hl"), Z80Stack("pop", "de"),
              Z80Stack("pop", "hl")>>, {}),
          Z80Same("words", <<Z80Stack("push", "de"), Z80I("ex", "index_sp_hl", "", "", 0)>>,
            <<Z80I("ex", "de_hl", "", "", 0), Z80Stack("push", "de"), Z80Ld("d", "h"), Z80Ld("e", "l")>>,
            {}),
          Z80Same("words", <<Z80Stack("push", "iy"), Z80I("ex", "index_sp_xy", "ix", "", 0),
                             Z80Stack("pop", "iy")>>,
            <<Z80Stack("push", "iy"), Z80Stack("push", "ix"), Z80Stack("pop", "iy"),
              Z80Stack("pop", "ix")>>, {}),
          Z80Same("bytes", <<Z80I("out", "index_c_reg8", "a", "", 0), Z80I("in", "reg8_index_c", "b", "", 0),
                             Z80With("or", "a")>>,
            <<Z80I("out", "index_c_reg8", "a", "", 0), Z80Ld("b", "a"), Z80With("or", "a")>>, {}),
          Z80Undo("bytes", <<Z80I("out", "index_address8_a", "", "", 7), Z80LdN("a", 3),
                             Z80I("in", "a_index_n", "", "", 7)>>, {"io"}),
          Z80Same("bytes", <<Z80By("ei"), Z80I("ld", "ir_a", "iv", "", 0), Z80I("ld", "a_ir", "", "iv", 0),
                             Z80ToIf("jp", "pe", 5)>>,
            <<Z80By("ei"), Z80I("ld", "ir_a", "iv", "", 0), Z80WithN("add", 0),
              Z80To("jp", 5)>>, {"fv", "fc"}),
          Z80Same("bytes", <<Z80By("di"), Z80I("ld", "ir_a", "rr", "", 0), Z80LdN("a", 3),
                             Z80I("ld", "a_ir", "", "rr", 0), Z80ToIf("jp", "po", 6)>>,
            <<Z80By("di"), Z80I("ld", "ir_a", "rr", "", 0), Z80Nop, Z80WithN("add", 0),
              Z80To("jp", 6)>>, {"fv", "fc"})}

\* The other registers, the stack, calls and jumps.
Z80Cc == {"nz", "z", "nc", "c", "po", "pe", "p", "m"}
Z80Not == [nz |-> "z", z |-> "nz", nc |-> "c", c |-> "nc", po |-> "pe", pe |-> "po",
           p |-> "m", m |-> "p"]
Z80CallTasks ==
  {Z80Undo("words", code, {}) :
     code \in {<<Z80By("exx"), Z80By("exx")>>,
               <<Z80By("exx"), Z80LdNn("hl", 3), Z80LdNn("de", 5), Z80LdNn("bc", 7), Z80By("exx"),
                 Z80By("exx"), Z80LdNn("hl", 0), Z80LdNn("de", 0), Z80LdNn("bc", 0), Z80By("exx")>>,
               <<Z80I("ex", "none", "", "", 0), Z80I("ex", "none", "", "", 0)>>,
               <<Z80I("ex", "de_hl", "", "", 0), Z80I("ex", "de_hl", "", "", 0)>>,
               <<Z80Stack("push", "bc"), Z80Stack("push", "de"), Z80Stack("push", "hl"),
                 Z80Stack("push", "af"), Z80Stack("push", "ix"), Z80Stack("push", "iy"),
                 Z80LdNn("bc", 1), Z80LdNn("de", 2), Z80LdNn("hl", 3), Z80With("cp", "c"),
                 Z80LdN("a", 4), Z80I("ld", "xy_address", "ix", "", 5),
                 Z80I("ld", "xy_address", "iy", "", 6), Z80Stack("pop", "iy"), Z80Stack("pop", "ix"),
                 Z80Stack("pop", "af"), Z80Stack("pop", "hl"), Z80Stack("pop", "de"),
                 Z80Stack("pop", "bc")>>,
               <<Z80To("call", 2), Z80Jr(1), Z80By("ret")>>,
               <<Z80To("call", 2), Z80Jr(1), Z80By16("reti")>>,
               <<Z80To("call", 2), Z80Jr(1), Z80By16("retn")>>}}
  \union {Z80Same("bytes", <<Z80With("sub", "b"), Z80ToIf("call", cc, 4), Z80Jr(2), Z80Nop,
                             Z80I("ret", "cond", "", cc, 0)>>, <<Z80With("sub", "b")>>, {}) : cc \in Z80Cc}
  \union {Z80Same("bytes", <<Z80With("sub", "b"), Z80ToIf("jp", cc, 4), Z80Nop>>,
            <<Z80With("sub", "b"), Z80ToIf("jp", Z80Not[cc], 3), Z80Jr(1)>>, {}) : cc \in Z80Cc}
  \union {Z80Same("bytes", <<Z80With("sub", "b"), Z80ToIf("jp", cc, 3)>>,
            <<Z80With("sub", "b"), Z80JrIf(cc, 1)>>, {}) : cc \in {"nz", "z", "nc", "c"}}
  \union {Z80Same("words", <<Z80LdNn("hl", Base + 5), Z80Stack("push", "hl"), Z80Stack("pop", "ix"), jump>>,
            <<Z80LdNn("hl", Base + 5), Z80Stack("push", "hl"), Z80Stack("pop", "ix"), Z80To("jp", 5)>>, {}) :
          jump \in {Z80I("jp", "index_hl", "", "", 0), Z80I("jp", "index_xy", "", "ix", 0)}}
  \union {Z80Same("bytes", <<Z80I("ld", "sp_hl", "", "", 0), Z80I("rst", "restart_address", "", "", 8)>>,
            <<Z80I("ld", "sp_hl", "", "", 0), Z80To("call", 8 - Base)>>, {})}
  \union {Z80Same("bytes", <<Z80LdN("b", 3), Z80OnReg("inc", "c"), [Z80Jr(-2) EXCEPT !.op = "djnz"]>>,
            <<Z80LdN("b", 3), Z80OnReg("inc", "c"), Z80OnReg("dec", "b"), Z80JrIf("nz", -3)>>,
            {"fs", "fz", "fh", "fv", "fn"}),
          Z80Same("bytes", <<Z80OnReg("inc", "c"), [Z80Jr(1) EXCEPT !.op = "djnz"]>>,
            <<Z80OnReg("inc", "c"), Z80OnReg("dec", "b"), Z80JrIf("nz", 1)>>,
            {"fs", "fz", "fh", "fv", "fn"})}

\* The flags by their instructions and in F on the stack; decimal numbers.
Z80OnF(code) ==
  <<Z80Stack("push", "af"), Z80Stack("pop", "hl"), Z80Ld("a", "l")>> \o code
  \o <<Z80Ld("l", "a"), Z80Stack("push", "hl"), Z80Stack("pop", "af")>>
Z80Decimal == {<<9, 9>>, <<25, 19>>, <<80, 50>>, <<153, 99>>}
Z80FromDecimal(n) == 16 * ((n % 100) \div 10) + (n % 10)
Z80FlagTasks ==
  {Z80Same("bytes", <<Z80By("scf")>>, Z80OnF(<<Z80WithN("or", 1), Z80WithN("and", 237)>>), {"h", "l"}),
   Z80Same("bytes", <<Z80By("ccf")>>, Z80OnF(<<Z80WithN("xor", 1), Z80WithN("and", 253)>>),
           {"h", "l", "fh"})}
  \union {Z80Same("bytes", <<Z80LdN("a", x[1]), Z80WithN("add", y[1]), Z80By("daa")>>,
            <<IF x[2] + y[2] > 99 THEN Z80By("scf") ELSE Z80With("or", "a"),
              Z80LdN("a", Z80FromDecimal(x[2] + y[2]))>>, {"fs", "fz", "fh", "fv"}) :
          x \in Z80Decimal, y \in Z80Decimal}
  \union {Z80Same("bytes", <<Z80LdN("a", x[1]), Z80WithN("sub", y[1]), Z80By("daa")>>,
            <<IF x[2] < y[2] THEN Z80By("scf") ELSE Z80With("or", "a"),
              Z80LdN("a", Z80FromDecimal(100 + x[2] - y[2]))>>, {"fs", "fz", "fh", "fv", "fn"}) :
          x \in Z80Decimal, y \in Z80Decimal}

\* The instructions on blocks and the loops that they stand for.
Z80BlockTasks ==
  {Z80Same("bytes", <<Z80LdNn("de", op[3]), Z80LdNn("bc", op[4]), Z80By16(op[1])>>,
           <<Z80LdNn("de", op[3]), Z80LdNn("bc", op[4]), Z80By16(op[2]), Z80ToIf("jp", "pe", 2)>>, {}) :
     op \in {<<"ldir", "ldi", 24, 3>>, <<"lddr", "ldd", 24, 3>>, <<"ldir", "ldi", 19, 4>>,
             <<"ldir", "ldi", 24, 1>>}}
  \union {Z80Same("bytes", <<Z80LdNn("bc", op[3]), Z80By16(op[1])>>,
           <<Z80LdNn("bc", op[3]), Z80By16(op[2]), Z80JrIf("z", 1), Z80ToIf("jp", "pe", 1)>>, {}) :
     op \in {<<"cpir", "cpi", 5>>, <<"cpdr", "cpd", 5>>, <<"cpir", "cpi", 1>>}}
  \union {Z80Same("bytes", <<Z80LdN("c", 9)>> \o <<Z80I("out", "index_c_reg8", "a", "", 0)>>
                           \o <<Z80LdN("b", 3), Z80By16(op[1])>>,
           <<Z80LdN("c", 9)>> \o <<Z80I("out", "index_c_reg8", "a", "", 0)>>
           \o <<Z80LdN("b", 3), Z80By16(op[2]), Z80JrIf("nz", -2)>>, {}) :
     op \in {<<"otir", "outi">>, <<"otdr", "outd">>, <<"inir", "ini">>, <<"indr", "ind">>}}

\* A comparison and a jump, unsigned and signed, for 8 and for 16 bits.
Z80DecideTasks ==
  {Decide("z80", "bytes", <<Z80WithHl(op), Z80JrIf(r[1], 1)>>, r[2]) :
     op \in {"cp", "sub"}, r \in {<<"z", "=">>, <<"nz", "#">>, <<"c", "<">>, <<"nc", ">=">>}}
  \union {Decide("z80", "words", <<Z80With("or", "a"), Z80AddHl("sbc", "de"), Z80JrIf(r[1], 1)>>, r[2]) :
     r \in {<<"z", "=">>, <<"nz", "#">>, <<"c", "<">>, <<"nc", ">=">>}}
  \union {Decide("z80", "bytes", <<Z80With(op, "b"), Z80ToIf("jp", "pe", 4), Z80ToIf("jp", r[1], 6),
                                   Z80Jr(1), Z80ToIf("jp", Z80Not[r[1]], 6)>>, r[2]) :
     op \in {"cp", "sub"}, r \in {<<"m", "signed <">>, <<"p", "signed >=">>}}

Z80HlTerms(weight) == <<<<256, "h", 0>>, <<1, "l", 0>>, <<weight, "fc", 0>>>>
Z80Chain(low, high) ==
  <<Z80Ld("a", "l"), Z80With(low, "e"), Z80Ld("l", "a"), Z80Ld("a", "h"), Z80With(high, "d"),
    Z80Ld("h", "a")>>
Z80SumTasks ==
  {AddsUp("z80", "words", Z80Chain(op[1], op[2]), op[1], Z80HlTerms(op[3])) :
     op \in {<<"add", "adc", 65536>>, <<"adc", "adc", 65536>>, <<"sub", "sbc", -65536>>,
             <<"sbc", "sbc", -65536>>}}
  \union {AddsUp("z80", "words", <<Z80AddHl(op[1], "de")>>, op[1], Z80HlTerms(op[2])) :
     op \in {<<"add", 65536>>, <<"adc", 65536>>, <<"sbc", -65536>>}}
  \union {AddsUp("z80", "words", <<Z80I("add", "xy_reg16", "ix", "de", 0)>>, "add",
                 <<<<1, "ix", 0>>, <<65536, "fc", 0>>>>)}
  \union {Z80Same("words", <<Z80AddHl(op[1], "de")>>, Z80Chain(op[2], op[3]), op[4]) :
     op \in {<<"add", "add", "adc", {"a", "fs", "fz", "fv"}>>, <<"adc", "adc", "adc", {"a", "fz"}>>,
             <<"sbc", "sbc", "sbc", {"a", "fz", "fv"}>>}}
  \union {Z80Same("words", <<Z80Wide(op[1], "hl")>>, <<Z80LdNn("de", op[2]), Z80AddHl("add", "de")>>,
            {"d", "e", "fh", "fn", "fc"}) : op \in {<<"inc", 1>>, <<"dec", 65535>>}}
  \union {Z80Same("words", <<Z80Wide(op, "ix")>>,
            <<Z80Stack("push", "ix"), Z80Stack("pop", "hl"), Z80Wide(op, "hl"), Z80Stack("push", "hl"),
              Z80Stack("pop", "ix")>>, {"h", "l"}) : op \in {"inc", "dec"}}
  \union {Z80Same("words", <<Z80I("add", "xy_reg16", "iy", "iy", 0)>>,
            <<Z80Stack("push", "iy"), Z80Stack("pop", "hl"), Z80AddHl("add", "hl"), Z80Stack("push", "hl"),
              Z80Stack("pop", "iy")>>, {"h", "l"})}

Z80Tasks ==
  Z80AccumulateTasks \union Z80ChangeTasks \union Z80BitTasks \union Z80LoadTasks
  \union Z80CallTasks \union Z80FlagTasks \union Z80BlockTasks \union Z80DecideTasks
  \union Z80SumTasks
=============================================================================
