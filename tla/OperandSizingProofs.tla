------------------------ MODULE OperandSizingProofs ------------------------
(***************************************************************************)
(* Pass 2 assembles every instruction where pass 1 did, for programs of    *)
(* any length with operands of any value, on all CPUs of MarkedWays.       *)
(***************************************************************************)
EXTENDS OperandSizing, TLAPS

Statements == 1 .. MaxStatements

(* What the encoder was given for the k-th instruction in pass 1, where    *)
(* nothing was written at its address before.                              *)
First(k) ==
  [pass |-> 1, known |-> Known(k, 1), value |-> Value(k, 1), at |-> labels[k],
   mark |-> Marked(way, 1, Known(k, 1), 0)]

Size(k) == Encode(way, First(k)).size

(* The k-th instruction takes the space up to the next label ... *)
Laid(k) == Size(k) # 0 /\ labels[k + 1] = labels[k] + Size(k)

(* ... and its mark is in the image. *)
Kept(k) == At(image, labels[k]) = LeftByPass1(way, First(k).mark, Size(k))

Increasing ==
  \A i, j \in 1 .. Len(labels) : i < j => labels[i] < labels[j]

InPass1 ==
  pass = 1 =>
    /\ address = labels[next]
    /\ \A a \in DOMAIN image : a < address
    /\ \A k \in 1 .. next - 1 : Laid(k) /\ Kept(k)

InPass2 ==
  pass = 2 =>
    /\ address = labels[next]
    /\ \A k \in Statements : Laid(k)
    /\ \A k \in next .. MaxStatements : Kept(k)

InPass3 == pass = 3 => next = MaxStatements + 1 /\ address = labels[next]

IInv == TypeOK /\ Increasing /\ InPass1 /\ InPass2 /\ InPass3

-----------------------------------------------------------------------------
(* The encoders.                                                           *)

LEMMA FormSize == Rejected.size = 0 /\ \A n, h : Form(n, h).size = n
BY DEF Rejected, Form

LEMMA Zero == 0 \in Generated /\ 0 \in Word /\ 0 \in Address
BY DEF Generated, Word, Address

(* Every form has at most eight bytes. *)
LEMMA Sizes ==
  ASSUME NEW w, NEW g
  PROVE  Encode(w, g).size \in 0 .. 8
<1>1. Msp430Immediate(g).size \in 0 .. 8
  <2>1. Msp430Immediate(g) \in {Form(2, Generated), Form(4, Word), Rejected}
        BY Zenon DEF Msp430Immediate
  <2> QED BY <2>1, FormSize
<1>2. RiscvLi(g).size \in 0 .. 8
  <2>1. RiscvLi(g) \in {Form(4, Signed12), Form(4, UpperOf12), Form(8, Int)}
        BY Zenon DEF RiscvLi
  <2> QED BY <2>1, FormSize
<1>3. RiscvCall(g).size \in 0 .. 8
  <2>1. RiscvCall(g) \in {Form(4, Near(g.at)), Form(8, Int)}
        BY Zenon DEF RiscvCall
  <2> QED BY <2>1, FormSize
<1>4. MipsLi(g).size \in 0 .. 8
  <2>1. MipsLi(g) \in {Form(4, UpperOf16), Form(4, Word), Form(8, Int)}
        BY Zenon DEF MipsLi
  <2> QED BY <2>1, FormSize
<1>5. Stm8Address(g).size \in 0 .. 8
  <2>1. Stm8Address(g) \in {Form(2, EightBits), Form(3, Word), Rejected}
        BY Zenon DEF Stm8Address
  <2> QED BY <2>1, FormSize
<1>6. Hc08Operand(g).size \in 0 .. 8
  <2>1. Hc08Operand(g) \in {Form(2, EightBits), Form(3, Word)}
        BY Zenon DEF Hc08Operand
  <2> QED BY <2>1, FormSize
<1>7. M6800Address(g).size \in 0 .. 8
  <2>1. M6800Address(g) \in {Form(2, Byte), Form(3, Address), Rejected}
        BY Zenon DEF M6800Address
  <2> QED BY <2>1, FormSize
<1>8. EpiphanyImmediate(g).size \in 0 .. 8
  <2>1. EpiphanyImmediate(g) \in {Form(2, Byte), Form(4, Word), Rejected}
        BY Zenon DEF EpiphanyImmediate
  <2> QED BY <2>1, FormSize
<1>9. UnspImmediate(g).size \in 0 .. 8
  <2>1. UnspImmediate(g) \in {Form(2, SixBits), Form(4, Word), Rejected}
        BY Zenon DEF UnspImmediate
  <2> QED BY <2>1, FormSize
<1>10. W65816Address(g).size \in 0 .. 8
  <2>1. W65816Address(g)
          \in {Form(2, Byte), Form(3, Address), Form(4, LongAddress), Rejected}
        BY Zenon DEF W65816Address
  <2> QED BY <2>1, FormSize
<1>11. W65816Indirect(g).size \in 0 .. 8
  <2>1. W65816Indirect(g) \in {Form(1, {}), Form(2, Byte)}
        BY Zenon DEF W65816Indirect
  <2> QED BY <2>1, FormSize
<1>12. M68000Absolute(g).size \in 0 .. 8
  <2>1. M68000Absolute(g) \in {Form(4, Word), Form(6, Int)}
        BY Zenon DEF M68000Absolute
  <2> QED BY <2>1, FormSize
<1>13. M6809Index(g).size \in 0 .. 8
  <2>1. M6809Index(g) \in {Form(2, Signed5), Form(3, Signed8), Form(4, Word)}
        BY Zenon DEF M6809Index
  <2> QED BY <2>1, FormSize
<1>14. ArcOperand(g).size \in 0 .. 8
  <2>1. ArcOperand(g) \in {Form(4, SixBits), Form(8, Int)}
        BY Zenon DEF ArcOperand
  <2> QED BY <2>1, FormSize
<1>15. Tms340Immediate(g).size \in 0 .. 8
  <2>1. Tms340Immediate(g) \in {Form(4, Signed16), Form(6, Int)}
        BY Zenon DEF Tms340Immediate
  <2> QED BY <2>1, FormSize
<1>16. JavaIndex(g).size \in 0 .. 8
  <2>1. JavaIndex(g) \in {Form(2, Byte), Form(4, Address), Rejected}
        BY Zenon DEF JavaIndex
  <2> QED BY <2>1, FormSize
<1>17. F100Address(g).size \in 0 .. 8
  <2>1. F100Address(g) \in {Form(2, Low), Form(4, Wordwise), Rejected}
        BY Zenon DEF F100Address
  <2> QED BY <2>1, FormSize
<1> QED
    BY <1>1, <1>2, <1>3, <1>4, <1>5, <1>6, <1>7, <1>8, <1>9, <1>10,
       <1>11, <1>12, <1>13, <1>14, <1>15, <1>16, <1>17, Zenon DEF Encode

(* What is given to the encoder in the two passes: the same value, if pass *)
(* 1 knows it.                                                             *)
Alike(g1, g2) ==
  /\ g1.pass = 1 /\ g2.pass = 2 /\ g2.known
  /\ g1.value \in Int /\ g2.value \in Int
  /\ g1.at \in Nat /\ g2.at = g1.at
  /\ g1.known => g1.value = g2.value

(* Pass 2 finds the byte pass 1 left, which tells of an unknown operand. *)
SameMark(g1, g2, unknown) ==
  /\ Alike(g1, g2)
  /\ g2.mark = g1.mark
  /\ g1.mark = IF g1.known THEN 0 ELSE unknown

(* One encoder decides the same in both passes, or rejects the operand     *)
(* once it is known.                                                       *)
Same(f1, f2) == f1.size # 0 => f2.size \in {0, f1.size}

LEMMA Msp430ImmediateSame ==
  ASSUME NEW g1, NEW g2, SameMark(g1, g2, 1), ~g1.known => g1.value = 0
  PROVE  Same(Msp430Immediate(g1), Msp430Immediate(g2))
<1>1. CASE g1.known
      BY <1>1, FormSize DEF SameMark, Alike, Same, Msp430Immediate
<1>2. CASE ~g1.known
      BY <1>2, FormSize, Zero DEF SameMark, Alike, Same, Msp430Immediate
<1> QED BY <1>1, <1>2

LEMMA RiscvLiSame ==
  ASSUME NEW g1, NEW g2, SameMark(g1, g2, 1)
  PROVE  Same(RiscvLi(g1), RiscvLi(g2))
<1>1. CASE g1.known
      BY <1>1, FormSize DEF SameMark, Alike, Same, RiscvLi
<1>2. CASE ~g1.known
      BY <1>2, FormSize, Zero DEF SameMark, Alike, Same, RiscvLi
<1> QED BY <1>1, <1>2

LEMMA RiscvCallSame ==
  ASSUME NEW g1, NEW g2, SameMark(g1, g2, 1)
  PROVE  Same(RiscvCall(g1), RiscvCall(g2))
<1>1. CASE g1.known
      BY <1>1, FormSize DEF SameMark, Alike, Same, RiscvCall
<1>2. CASE ~g1.known
      BY <1>2, FormSize, Zero DEF SameMark, Alike, Same, RiscvCall
<1> QED BY <1>1, <1>2

LEMMA MipsLiSame ==
  ASSUME NEW g1, NEW g2, SameMark(g1, g2, 1)
  PROVE  Same(MipsLi(g1), MipsLi(g2))
<1>1. CASE g1.known
      BY <1>1, FormSize DEF SameMark, Alike, Same, MipsLi
<1>2. CASE ~g1.known
      BY <1>2, FormSize, Zero DEF SameMark, Alike, Same, MipsLi
<1> QED BY <1>1, <1>2

LEMMA Hc08OperandSame ==
  ASSUME NEW g1, NEW g2, SameMark(g1, g2, 1)
  PROVE  Same(Hc08Operand(g1), Hc08Operand(g2))
<1>1. CASE g1.known
      BY <1>1, FormSize DEF SameMark, Alike, Same, Hc08Operand
<1>2. CASE ~g1.known
      BY <1>2, FormSize, Zero DEF SameMark, Alike, Same, Hc08Operand
<1> QED BY <1>1, <1>2

LEMMA EpiphanyImmediateSame ==
  ASSUME NEW g1, NEW g2, SameMark(g1, g2, 1), ~g1.known => g1.value = 0
  PROVE  Same(EpiphanyImmediate(g1), EpiphanyImmediate(g2))
<1>1. CASE g1.known
      BY <1>1, FormSize DEF SameMark, Alike, Same, EpiphanyImmediate
<1>2. CASE ~g1.known
      BY <1>2, FormSize, Zero DEF SameMark, Alike, Same, EpiphanyImmediate
<1> QED BY <1>1, <1>2

LEMMA UnspImmediateSame ==
  ASSUME NEW g1, NEW g2, SameMark(g1, g2, 1), ~g1.known => g1.value = 0
  PROVE  Same(UnspImmediate(g1), UnspImmediate(g2))
<1>1. CASE g1.known
      BY <1>1, FormSize DEF SameMark, Alike, Same, UnspImmediate
<1>2. CASE ~g1.known
      BY <1>2, FormSize, Zero DEF SameMark, Alike, Same, UnspImmediate
<1> QED BY <1>1, <1>2

LEMMA W65816AddressSame ==
  ASSUME NEW g1, NEW g2, SameMark(g1, g2, 1), ~g1.known => g1.value = 0
  PROVE  Same(W65816Address(g1), W65816Address(g2))
<1>1. CASE g1.known
      BY <1>1, FormSize DEF SameMark, Alike, Same, W65816Address
<1>2. CASE ~g1.known
      BY <1>2, FormSize, Zero DEF SameMark, Alike, Same, W65816Address
<1> QED BY <1>1, <1>2

LEMMA Stm8AddressSame ==
  ASSUME NEW g1, NEW g2, SameMark(g1, g2, Stm8Unknown)
  PROVE  Same(Stm8Address(g1), Stm8Address(g2))
<1>1. CASE g1.known
      BY <1>1, FormSize DEF SameMark, Alike, Same, Stm8Address
<1>2. CASE ~g1.known
      BY <1>2, FormSize, Zero DEF SameMark, Alike, Same, Stm8Address, Stm8Unknown
<1> QED BY <1>1, <1>2

LEMMA M68000AbsoluteSame ==
  ASSUME NEW g1, NEW g2, SameMark(g1, g2, 4)
  PROVE  Same(M68000Absolute(g1), M68000Absolute(g2))
<1>1. CASE g1.known
      BY <1>1, FormSize DEF SameMark, Alike, Same, M68000Absolute
<1>2. CASE ~g1.known
      BY <1>2, FormSize, Zero DEF SameMark, Alike, Same, M68000Absolute
<1> QED BY <1>1, <1>2

LEMMA F100AddressSame ==
  ASSUME NEW g1, NEW g2, SameMark(g1, g2, 1)
  PROVE  Same(F100Address(g1), F100Address(g2))
<1>1. CASE g1.known
      BY <1>1, FormSize DEF SameMark, Alike, Same, F100Address
<1>2. CASE ~g1.known
      BY <1>2, FormSize, Zero DEF SameMark, Alike, Same, F100Address
<1> QED BY <1>1, <1>2

(* The marks of these are a size, and a prefix. *)
LEMMA M6800AddressSame ==
  ASSUME NEW g1, NEW g2, Alike(g1, g2), g2.mark = M6800Address(g1).size - 1
  PROVE  Same(M6800Address(g1), M6800Address(g2))
BY FormSize DEF Alike, Same, M6800Address

LEMMA JavaIndexSame ==
  ASSUME NEW g1, NEW g2, Alike(g1, g2), g1.mark = 0,
         g2.mark = IF JavaIndex(g1).size = 4 THEN Wide ELSE Code
  PROVE  Same(JavaIndex(g1), JavaIndex(g2))
<1>1. CASE g1.known
      BY <1>1, FormSize DEF Alike, Same, JavaIndex, Wide, Code
<1>2. CASE ~g1.known
      BY <1>2, FormSize, Zero DEF Alike, Same, JavaIndex, Wide, Code
<1> QED BY <1>1, <1>2

(* On the CPUs of MarkedWays, whatever pass 1 knew of the operand.         *)
LEMMA SameForm ==
  ASSUME NEW w \in MarkedWays, NEW g1, NEW g2, Alike(g1, g2),
         ~g1.known => g1.value = Default(w),
         g1.mark = Marked(w, 1, g1.known, 0),
         g2.mark = Marked(w, 2, g2.known,
                          LeftByPass1(w, g1.mark, Encode(w, g1).size))
  PROVE  Same(Encode(w, g1), Encode(w, g2))
<1>1. w # "f100_l_short" /\ w \notin {"6809_index", "arc_operand", "tms340_immediate"}
      BY DEF MarkedWays, KnownWays
<1>2. g2.mark = LeftByPass1(w, g1.mark, Encode(w, g1).size)
      BY <1>1 DEF Marked
<1>3. CASE w = "msp430_immediate"
  <2>1. Encode(w, g1) = Msp430Immediate(g1) /\ Encode(w, g2) = Msp430Immediate(g2)
        BY <1>3 DEF Encode
  <2>2. SameMark(g1, g2, 1) /\ (~g1.known => g1.value = 0)
        BY <1>2, <1>3 DEF SameMark, Marked, LeftByPass1, UnknownMark, Default
  <2> QED BY <2>1, <2>2, Msp430ImmediateSame
<1>4. CASE w = "riscv_li"
  <2>1. Encode(w, g1) = RiscvLi(g1) /\ Encode(w, g2) = RiscvLi(g2)
        BY <1>4 DEF Encode
  <2>2. SameMark(g1, g2, 1)
        BY <1>2, <1>4 DEF SameMark, Marked, LeftByPass1, UnknownMark, Default
  <2> QED BY <2>1, <2>2, RiscvLiSame
<1>5. CASE w = "riscv_call"
  <2>1. Encode(w, g1) = RiscvCall(g1) /\ Encode(w, g2) = RiscvCall(g2)
        BY <1>5 DEF Encode
  <2>2. SameMark(g1, g2, 1)
        BY <1>2, <1>5 DEF SameMark, Marked, LeftByPass1, UnknownMark, Default
  <2> QED BY <2>1, <2>2, RiscvCallSame
<1>6. CASE w = "mips_li"
  <2>1. Encode(w, g1) = MipsLi(g1) /\ Encode(w, g2) = MipsLi(g2)
        BY <1>6 DEF Encode
  <2>2. SameMark(g1, g2, 1)
        BY <1>2, <1>6 DEF SameMark, Marked, LeftByPass1, UnknownMark, Default
  <2> QED BY <2>1, <2>2, MipsLiSame
<1>7. CASE w = "stm8_address"
  <2>1. Encode(w, g1) = Stm8Address(g1) /\ Encode(w, g2) = Stm8Address(g2)
        BY <1>7 DEF Encode
  <2>2. SameMark(g1, g2, Stm8Unknown)
        BY <1>2, <1>7 DEF SameMark, Marked, LeftByPass1, UnknownMark, Default
  <2> QED BY <2>1, <2>2, Stm8AddressSame
<1>8. CASE w = "68hc08_operand"
  <2>1. Encode(w, g1) = Hc08Operand(g1) /\ Encode(w, g2) = Hc08Operand(g2)
        BY <1>8 DEF Encode
  <2>2. SameMark(g1, g2, 1)
        BY <1>2, <1>8 DEF SameMark, Marked, LeftByPass1, UnknownMark, Default
  <2> QED BY <2>1, <2>2, Hc08OperandSame
<1>9. CASE w = "6800_address"
  <2>1. Encode(w, g1) = M6800Address(g1) /\ Encode(w, g2) = M6800Address(g2)
        BY <1>9 DEF Encode
  <2>2. g2.mark = M6800Address(g1).size - 1
        BY <1>2, <1>9, <2>1 DEF LeftByPass1
  <2> QED BY <2>1, <2>2, M6800AddressSame
<1>10. CASE w = "epiphany_immediate"
  <2>1. Encode(w, g1) = EpiphanyImmediate(g1) /\ Encode(w, g2) = EpiphanyImmediate(g2)
        BY <1>10 DEF Encode
  <2>2. SameMark(g1, g2, 1) /\ (~g1.known => g1.value = 0)
        BY <1>2, <1>10 DEF SameMark, Marked, LeftByPass1, UnknownMark, Default
  <2> QED BY <2>1, <2>2, EpiphanyImmediateSame
<1>11. CASE w = "unsp_immediate"
  <2>1. Encode(w, g1) = UnspImmediate(g1) /\ Encode(w, g2) = UnspImmediate(g2)
        BY <1>11 DEF Encode
  <2>2. SameMark(g1, g2, 1) /\ (~g1.known => g1.value = 0)
        BY <1>2, <1>11 DEF SameMark, Marked, LeftByPass1, UnknownMark, Default
  <2> QED BY <2>1, <2>2, UnspImmediateSame
<1>12. CASE w = "65816_address"
  <2>1. Encode(w, g1) = W65816Address(g1) /\ Encode(w, g2) = W65816Address(g2)
        BY <1>12 DEF Encode
  <2>2. SameMark(g1, g2, 1) /\ (~g1.known => g1.value = 0)
        BY <1>2, <1>12 DEF SameMark, Marked, LeftByPass1, UnknownMark, Default
  <2> QED BY <2>1, <2>2, W65816AddressSame
<1>13. CASE w = "68000_absolute"
  <2>1. Encode(w, g1) = M68000Absolute(g1) /\ Encode(w, g2) = M68000Absolute(g2)
        BY <1>13 DEF Encode
  <2>2. SameMark(g1, g2, 4)
        BY <1>2, <1>13 DEF SameMark, Marked, LeftByPass1, UnknownMark, Default
  <2> QED BY <2>1, <2>2, M68000AbsoluteSame
<1>14. CASE w = "java_index"
  <2>1. Encode(w, g1) = JavaIndex(g1) /\ Encode(w, g2) = JavaIndex(g2)
        BY <1>14 DEF Encode
  <2>2. g1.mark = 0 /\ g2.mark = IF JavaIndex(g1).size = 4 THEN Wide ELSE Code
        BY <1>2, <1>14, <2>1 DEF LeftByPass1, Marked
  <2> QED BY <2>1, <2>2, JavaIndexSame
<1>15. CASE w = "f100_l_address"
  <2>1. Encode(w, g1) = F100Address(g1) /\ Encode(w, g2) = F100Address(g2)
        BY <1>15 DEF Encode
  <2>2. SameMark(g1, g2, 1)
        BY <1>2, <1>15 DEF SameMark, Marked, LeftByPass1, UnknownMark, Default
  <2> QED BY <2>1, <2>2, F100AddressSame
<1> QED BY <1>3, <1>4, <1>5, <1>6, <1>7, <1>8, <1>9, <1>10, <1>11, <1>12, <1>13, <1>14, <1>15 DEF MarkedWays, KnownWays

(* What the chosen form holds.                                             *)
LEMMA FormHolds == \A n, h : Form(n, h).holds = h
BY DEF Form

LEMMA Shorts == Byte \subseteq Address /\ EightBits \ {255} \subseteq EightBits
<1>1. \A x : x \in Byte => x \in Address BY SMTT(30) DEF Byte, Address
<1> QED BY <1>1, ZenonT(40)

(* The long form is only taken for a value the short one cannot hold, or   *)
(* one that was not known.                                                 *)
LEMMA HoldsForm ==
  ASSUME NEW w \in MarkedWays, NEW g1, NEW g2, Alike(g1, g2),
         ~g1.known => g1.value = Default(w),
         g1.mark = Marked(w, 1, g1.known, 0),
         g2.mark = Marked(w, 2, g2.known,
                          LeftByPass1(w, g1.mark, Encode(w, g1).size)),
         Encode(w, g2).size # 0, g2.value \in Holdable(w)
  PROVE  g2.value \in Encode(w, g2).holds
<1>1. w # "f100_l_short" /\ w \notin {"6809_index", "arc_operand", "tms340_immediate"}
      BY DEF MarkedWays, KnownWays
<1>2. g2.mark = LeftByPass1(w, g1.mark, Encode(w, g1).size)
      BY <1>1 DEF Marked
<1>3. g2.value \in Int BY DEF Alike
<1>4. CASE w = "msp430_immediate"
  <2>1. Encode(w, g1) = Msp430Immediate(g1) /\ Encode(w, g2) = Msp430Immediate(g2)
        BY <1>4 DEF Encode
  <2>2. g2.value \in Word BY <1>4 DEF Holdable
  <2>3. Msp430Immediate(g2).size # 0 BY <2>1
  <2> QED BY <1>3, <2>1, <2>2, <2>3, FormSize, FormHolds, Shorts DEF Msp430Immediate
<1>5. CASE w = "riscv_li"
  <2>1. Encode(w, g1) = RiscvLi(g1) /\ Encode(w, g2) = RiscvLi(g2)
        BY <1>5 DEF Encode
  <2>2. g2.value \in Int BY <1>5 DEF Holdable
  <2>3. RiscvLi(g2).size # 0 BY <2>1
  <2> QED BY <1>3, <2>1, <2>2, <2>3, FormSize, FormHolds, Shorts DEF RiscvLi
<1>6. CASE w = "riscv_call"
  <2>1. Encode(w, g1) = RiscvCall(g1) /\ Encode(w, g2) = RiscvCall(g2)
        BY <1>6 DEF Encode
  <2>2. g2.value \in Int BY <1>6 DEF Holdable
  <2>3. RiscvCall(g2).size # 0 BY <2>1
  <2> QED BY <1>3, <2>1, <2>2, <2>3, FormSize, FormHolds, Shorts DEF RiscvCall
<1>7. CASE w = "mips_li"
  <2>1. Encode(w, g1) = MipsLi(g1) /\ Encode(w, g2) = MipsLi(g2)
        BY <1>7 DEF Encode
  <2>2. g2.value \in Int BY <1>7 DEF Holdable
  <2>3. MipsLi(g2).size # 0 BY <2>1
  <2> QED BY <1>3, <2>1, <2>2, <2>3, FormSize, FormHolds, Shorts DEF MipsLi
<1>8. CASE w = "stm8_address"
  <2>1. Encode(w, g1) = Stm8Address(g1) /\ Encode(w, g2) = Stm8Address(g2)
        BY <1>8 DEF Encode
  <2>2. g2.value \in Word BY <1>8 DEF Holdable
  <2>3. Stm8Address(g2).size # 0 BY <2>1
  <2> QED BY <1>3, <2>1, <2>2, <2>3, FormSize, FormHolds, Shorts DEF Stm8Address
<1>9. CASE w = "68hc08_operand"
  <2>1. Encode(w, g1) = Hc08Operand(g1) /\ Encode(w, g2) = Hc08Operand(g2)
        BY <1>9 DEF Encode
  <2>2. g2.value \in Word BY <1>9 DEF Holdable
  <2>3. Hc08Operand(g2).size # 0 BY <2>1
  <2> QED BY <1>3, <2>1, <2>2, <2>3, FormSize, FormHolds, Shorts DEF Hc08Operand
<1>10. CASE w = "6800_address"
  <2>1. Encode(w, g1) = M6800Address(g1) /\ Encode(w, g2) = M6800Address(g2)
        BY <1>10 DEF Encode
  <2>2. g2.value \in Address BY <1>10 DEF Holdable
  <2>3. g2.mark = M6800Address(g1).size - 1 /\ g2.pass = 2 /\ g1.pass = 1
        BY <1>2, <1>10, <2>1 DEF LeftByPass1, Alike
  <2>4. g1.known => g1.value = g2.value BY DEF Alike
  <2>5. ~g1.known => g1.value \notin Byte BY <1>10 DEF Default, Byte
  <2>6. g2.mark = 1 => g1.value \in Byte
        BY <2>3, FormSize DEF M6800Address
  <2>7. M6800Address(g2).size # 0 BY <2>1
  <2> QED BY <2>1, <2>2, <2>3, <2>4, <2>5, <2>6, <2>7, FormSize, FormHolds DEF M6800Address
<1>11. CASE w = "epiphany_immediate"
  <2>1. Encode(w, g1) = EpiphanyImmediate(g1) /\ Encode(w, g2) = EpiphanyImmediate(g2)
        BY <1>11 DEF Encode
  <2>2. g2.value \in Word BY <1>11 DEF Holdable
  <2>3. EpiphanyImmediate(g2).size # 0 BY <2>1
  <2> QED BY <1>3, <2>1, <2>2, <2>3, FormSize, FormHolds, Shorts DEF EpiphanyImmediate
<1>12. CASE w = "unsp_immediate"
  <2>1. Encode(w, g1) = UnspImmediate(g1) /\ Encode(w, g2) = UnspImmediate(g2)
        BY <1>12 DEF Encode
  <2>2. g2.value \in Word BY <1>12 DEF Holdable
  <2>3. UnspImmediate(g2).size # 0 BY <2>1
  <2> QED BY <1>3, <2>1, <2>2, <2>3, FormSize, FormHolds, Shorts DEF UnspImmediate
<1>13. CASE w = "65816_address"
  <2>1. Encode(w, g1) = W65816Address(g1) /\ Encode(w, g2) = W65816Address(g2)
        BY <1>13 DEF Encode
  <2>2. g2.value \in LongAddress BY <1>13 DEF Holdable
  <2>3. W65816Address(g2).size # 0 BY <2>1
  <2> QED BY <1>3, <2>1, <2>2, <2>3, FormSize, FormHolds, Shorts DEF W65816Address
<1>14. CASE w = "68000_absolute"
  <2>1. Encode(w, g1) = M68000Absolute(g1) /\ Encode(w, g2) = M68000Absolute(g2)
        BY <1>14 DEF Encode
  <2>2. g2.value \in Int BY <1>14 DEF Holdable
  <2>3. M68000Absolute(g2).size # 0 BY <2>1
  <2> QED BY ZenonT(40), <1>3, <2>1, <2>2, <2>3, FormSize, FormHolds, Shorts DEF M68000Absolute
<1>15. CASE w = "java_index"
  <2>1. Encode(w, g1) = JavaIndex(g1) /\ Encode(w, g2) = JavaIndex(g2)
        BY <1>15 DEF Encode
  <2>2. g2.value \in Address BY <1>15 DEF Holdable
  <2>3. JavaIndex(g2).size # 0 BY <2>1
  <2> QED BY <1>3, <2>1, <2>2, <2>3, FormSize, FormHolds, Shorts DEF JavaIndex
<1>16. CASE w = "f100_l_address"
  <2>1. Encode(w, g1) = F100Address(g1) /\ Encode(w, g2) = F100Address(g2)
        BY <1>16 DEF Encode
  <2>2. g2.value \in Wordwise BY <1>16 DEF Holdable
  <2>3. F100Address(g2).size # 0 BY <2>1
  <2> QED BY <1>3, <2>1, <2>2, <2>3, FormSize, FormHolds, Shorts DEF F100Address
<1> QED BY <1>4, <1>5, <1>6, <1>7, <1>8, <1>9, <1>10, <1>11, <1>12, <1>13, <1>14, <1>15, <1>16 DEF MarkedWays, KnownWays

-----------------------------------------------------------------------------
(* The operands.                                                           *)

LEMMA OperandValues ==
  ASSUME TypeOK, NEW k \in Statements
  PROVE  /\ prog[k].label \in 0 .. MaxStatements + 1
         /\ prog[k].number \in Int
<1>1. prog[k] \in Operands BY DEF TypeOK, Statements
<1>2. CASE prog[k] \in [label : {0}, number : Numbers]
  <2>1. prog[k].label = 0 /\ prog[k].number \in Numbers BY <1>2
  <2>2. prog[k].number \in Int BY <2>1, OperandSizingValues
  <2>3. prog[k].label \in 0 .. MaxStatements + 1
        BY <2>1, OperandSizingConstants
  <2> QED BY <2>2, <2>3
<1>3. CASE prog[k] \in [label : 1 .. MaxStatements + 1, number : {0}]
      BY <1>3, OperandSizingConstants
<1> QED BY <1>1, <1>2, <1>3 DEF Operands

LEMMA UnitPositive == \A w : Unit(w) \in {1, 2} /\ Default(w) \in Int
BY DEF Unit, Default

(* A known operand has the same value in both passes. *)
LEMMA Values ==
  ASSUME TypeOK, NEW k \in Statements
  PROVE  /\ k <= Len(labels) => Value(k, 1) \in Int
         /\ Len(labels) = MaxStatements + 1 => Value(k, 2) \in Int
         /\ Known(k, 2)
         /\ Known(k, 1) => Value(k, 1) = Value(k, 2)
         /\ ~Known(k, 1) => Value(k, 1) = Default(way)
<1> DEFINE n == prog[k].label
<1>1. n \in Nat /\ n <= MaxStatements + 1 /\ prog[k].number \in Int
      BY OperandValues, OperandSizingConstants
<1>2. k \in Nat /\ labels \in Seq(Nat) BY DEF Statements, TypeOK
<1>3. ASSUME n # 0, n <= Len(labels)
      PROVE  labels[n] \div Unit(way) \in Int
  <2>1. labels[n] \in Nat BY <1>1, <1>2, <1>3
  <2> QED BY <2>1, UnitPositive
<1>4. Known(k, 2) BY DEF Known
<1>5. Known(k, 1) <=> n <= k BY DEF Known
<1>6. CASE n = 0
      BY <1>1, <1>2, <1>4, <1>5, <1>6, UnitPositive DEF Value
<1>7. CASE n # 0
  <2>1. Value(k, 2) = labels[n] \div Unit(way)
        BY <1>4, <1>7 DEF Value
  <2>2. Known(k, 1) => Value(k, 1) = labels[n] \div Unit(way)
        BY <1>7 DEF Value
  <2>3. ~Known(k, 1) => Value(k, 1) = Default(way)
        BY <1>7 DEF Value
  <2> QED BY <1>1, <1>2, <1>3, <1>4, <1>5, <1>7, <2>1, <2>2, <2>3, UnitPositive
<1> QED BY <1>6, <1>7

(* What pass 1 knew of an instruction does not change when labels follow. *)
LEMMA FirstStays ==
  ASSUME TypeOK, NEW k \in Statements, way' = way, prog' = prog,
         \A j \in 1 .. k : labels'[j] = labels[j]
  PROVE  First(k)' = First(k) /\ Size(k)' = Size(k)
<1>1. Known(k, 1)' = Known(k, 1) BY Zenon DEF Known
<1>2. Value(k, 1)' = Value(k, 1)
  <2> DEFINE n == prog[k].label
  <2>1. n \in Nat BY OperandValues, OperandSizingConstants
  <2>2. CASE n = 0 BY <2>2, Zenon DEF Value
  <2>3. CASE n # 0 /\ n <= k
    <3>1. n \in 1 .. k BY <2>1, <2>3 DEF Statements
    <3>2. labels'[n] = labels[n] BY <3>1
    <3> QED BY <2>3, <3>2, <1>1, Zenon DEF Value
  <2>4. CASE n # 0 /\ ~(n <= k)
    <3>1. ~Known(k, 1) BY <2>4 DEF Known
    <3> QED BY <2>4, <3>1, <1>1, Zenon DEF Value
  <2> QED BY <2>2, <2>3, <2>4
<1>3. labels'[k] = labels[k] BY DEF Statements
<1>4. First(k)' = First(k) BY <1>1, <1>2, <1>3, Zenon DEF First
<1> QED BY <1>4, Zenon DEF Size

-----------------------------------------------------------------------------
(* The state.                                                              *)

(* Pass 1 gives the encoder what First says. *)
LEMMA GivenInPass1 ==
  ASSUME IInv, pass = 1, next <= MaxStatements
  PROVE  Given(next, 1, address) = First(next)
<1>1. At(image, address) = 0
      BY DEF IInv, InPass1, TypeOK, At
<1> QED BY <1>1, Zenon DEF IInv, InPass1, Given, First

(* What the encoder is given in pass 2, and was given in pass 1. *)
LEMMA GivenTwice ==
  ASSUME IInv, Ways \subseteq MarkedWays, pass = 2, next <= MaxStatements,
         NEW g1, g1 = First(next), NEW g2, g2 = Given(next, 2, address)
  PROVE  /\ way \in MarkedWays /\ Alike(g1, g2) /\ Laid(next)
         /\ ~g1.known => g1.value = Default(way)
         /\ g1.mark = Marked(way, 1, g1.known, 0)
         /\ g2.mark = Marked(way, 2, g2.known,
                             LeftByPass1(way, g1.mark, Encode(way, g1).size))
<1>1. next \in Statements /\ next \in Nat /\ way \in MarkedWays
      BY OperandSizingConstants DEF IInv, TypeOK, Statements
<1>2. TypeOK /\ labels \in Seq(Nat) /\ Len(labels) = MaxStatements + 1
      BY DEF IInv, TypeOK
<1>3. address = labels[next] /\ Laid(next) /\ Kept(next)
      BY <1>1 DEF IInv, InPass2, Statements
<1>4. next <= Len(labels) BY <1>1, <1>2, OperandSizingConstants
<1>5. /\ g1.pass = 1 /\ g1.known = Known(next, 1) /\ g1.value = Value(next, 1)
      /\ g1.at = labels[next] /\ g1.mark = Marked(way, 1, Known(next, 1), 0)
      BY DEF First
<1>6. /\ g2.pass = 2 /\ g2.known = Known(next, 2) /\ g2.value = Value(next, 2)
      /\ g2.at = address
      /\ g2.mark = Marked(way, 2, Known(next, 2), At(image, address))
      BY DEF Given
<1>7. labels[next] \in Nat BY <1>1, <1>2, <1>4 DEF Statements
<1>8. Alike(g1, g2) /\ (~g1.known => g1.value = Default(way))
      BY <1>1, <1>2, <1>3, <1>4, <1>5, <1>6, <1>7, Values DEF Alike
<1>9. At(image, address) = LeftByPass1(way, g1.mark, Encode(way, g1).size)
      BY <1>3 DEF Kept, Size
<1> QED BY <1>1, <1>3, <1>5, <1>6, <1>8, <1>9

(* Pass 2 comes to the same form, and it holds the operand. *)
LEMMA SameSize ==
  ASSUME IInv, Ways \subseteq MarkedWays, pass = 2, next <= MaxStatements,
         Encode(way, Given(next, 2, address)).size # 0
  PROVE  /\ Encode(way, Given(next, 2, address)).size = Size(next)
         /\ Given(next, 2, address).value \in Holdable(way) =>
              Given(next, 2, address).value
                \in Encode(way, Given(next, 2, address)).holds
<1>1. PICK g1, g2 : g1 = First(next) /\ g2 = Given(next, 2, address)
      OBVIOUS
<1>2. /\ way \in MarkedWays /\ Alike(g1, g2) /\ Laid(next)
      /\ ~g1.known => g1.value = Default(way)
      /\ g1.mark = Marked(way, 1, g1.known, 0)
      /\ g2.mark = Marked(way, 2, g2.known,
                          LeftByPass1(way, g1.mark, Encode(way, g1).size))
      BY <1>1, GivenTwice
<1>3. Same(Encode(way, g1), Encode(way, g2)) BY <1>2, SameForm
<1>4. Encode(way, g2).size # 0 /\ g2.value \in Holdable(way)
        => g2.value \in Encode(way, g2).holds
      BY <1>2, HoldsForm
<1> QED BY <1>1, <1>2, <1>3, <1>4 DEF Same, Laid, Size

LEMMA InitInv == Init => IInv
<1> SUFFICES ASSUME Init PROVE IInv
    OBVIOUS
<1>1. /\ pass = 1 /\ next = 1 /\ labels = << address >> /\ address \in Nat
      /\ image = << >> /\ cut = {} /\ way \in Ways
      /\ prog \in [1 .. MaxStatements -> Operands]
      BY OperandSizingValues DEF Init
<1>2. DOMAIN image = {} BY <1>1
<1>3. labels \in Seq(Nat) /\ Len(labels) = 1 /\ labels[1] = address BY <1>1
<1>4. TypeOK BY <1>1, <1>2, <1>3, OperandSizingConstants DEF TypeOK
<1>5. Increasing BY <1>3 DEF Increasing
<1>6. InPass1 BY <1>1, <1>2, <1>3 DEF InPass1
<1>7. InPass2 /\ InPass3 BY <1>1 DEF InPass2, InPass3
<1> QED BY <1>4, <1>5, <1>6, <1>7 DEF IInv

(* The image after an instruction was written. *)
LEMMA WrittenFirst ==
  ASSUME NEW m, NEW a, NEW first, NEW others
  PROVE  At(Written(m, a, first, others), a) = first
BY Zenon DEF Written, At

LEMMA WrittenElsewhere ==
  ASSUME NEW m, NEW a, NEW first, NEW others, NEW x, x # a, x \notin others
  PROVE  At(Written(m, a, first, others), x) = At(m, x)
BY Zenon DEF Written, At

LEMMA WrittenBytes ==
  ASSUME NEW m, NEW a, NEW first, NEW others,
         first \in {0, 1, 2, 3, 4, Wide, Code},
         \A x \in DOMAIN m : m[x] \in {0, 1, 2, 3, 4, Wide, Code},
         NEW y \in DOMAIN Written(m, a, first, others)
  PROVE  Written(m, a, first, others)[y] \in {0, 1, 2, 3, 4, Wide, Code}
BY DEF Written

LEMMA Assemble1Inv == IInv /\ Assemble1 => IInv'
<1> SUFFICES ASSUME IInv, Assemble1 PROVE IInv'
    OBVIOUS
<1> DEFINE size == Size(next)
           rest == IF WritesInPass1(way) THEN address + 1 .. address + size - 1 ELSE {}
           mark == LeftByPass1(way, First(next).mark, size)
<1>1. pass = 1 /\ next <= MaxStatements BY DEF Assemble1
<1>2. TypeOK /\ Increasing /\ InPass1 BY DEF IInv
<1>3. /\ next \in Nat /\ 1 <= next /\ next <= MaxStatements /\ MaxStatements \in Nat
      /\ labels \in Seq(Nat) /\ Len(labels) = next
      /\ address = labels[next] /\ address \in Nat
      /\ \A a \in DOMAIN image : a < address
      /\ DOMAIN image \subseteq Nat
      /\ \A k \in 1 .. next - 1 : Laid(k) /\ Kept(k)
  <2>1. next \in 1 .. MaxStatements + 1 /\ labels \in Seq(Nat) /\ address \in Nat
        /\ DOMAIN image \subseteq Nat /\ (pass = 1 => Len(labels) = next)
        BY <1>2 DEF TypeOK
  <2>2. address = labels[next] /\ (\A a \in DOMAIN image : a < address)
        /\ \A k \in 1 .. next - 1 : Laid(k) /\ Kept(k)
        BY <1>1, <1>2 DEF InPass1
  <2> QED BY <1>1, <2>1, <2>2, OperandSizingConstants
<1>4. way' = way /\ prog' = prog /\ cut' = cut BY DEF Assemble1
<1>5. Given(next, 1, address) = First(next) BY <1>1, GivenInPass1
<1>6. \/ /\ size = 0 /\ pass' = 0
         /\ UNCHANGED << next, address, labels, image >>
      \/ /\ size # 0 /\ image' = Written(image, address, mark, rest)
         /\ address' = address + size
         /\ labels' = Append(labels, address + size)
         /\ next' = next + 1
         /\ pass' = pass
      BY <1>5, Zenon DEF Assemble1, Size
<1>7. size \in 0 .. 8 BY Sizes DEF Size
<1>8. CASE size = 0
  <2>1. /\ pass' = 0 /\ next' = next /\ address' = address /\ labels' = labels
        /\ image' = image
        BY <1>6, <1>8
  <2>2. TypeOK' BY <1>2, <1>4, <2>1 DEF TypeOK
  <2>3. Increasing' BY <1>2, <2>1 DEF Increasing
  <2> QED BY <2>1, <2>2, <2>3 DEF IInv, InPass1, InPass2, InPass3
<1>9. CASE size # 0
  <2> HIDE DEF size, rest, mark
  <2>1. /\ pass' = 1 /\ next' = next + 1 /\ address' = address + size
        /\ labels' = Append(labels, address + size)
        /\ image' = Written(image, address, mark, rest)
        BY <1>1, <1>6, <1>9
  <2>2. size \in 1 .. 8 BY <1>7, <1>9
  <2>3. /\ labels' \in Seq(Nat) /\ Len(labels') = next + 1
        /\ labels'[next + 1] = address + size
        /\ \A j \in 1 .. next : labels'[j] = labels[j]
        BY <1>3, <2>1, <2>2
  <2>4. \A j \in 1 .. next : labels[j] \in Nat BY <1>3
  <2>5. mark \in {0, 1, 2, 3, 4, Wide, Code}
    <3>1. First(next).mark \in {0, 1, 2, 3, 4}
          BY DEF First, Marked, UnknownMark, Stm8Unknown
    <3>2. Encode(way, First(next)).size = size BY DEF size, Size
    <3>3. way = "6800_address" => size \in {2, 3}
      <4>1. way = "6800_address" => size = M6800Address(First(next)).size
            BY <3>2 DEF Encode
      <4>2. M6800Address(First(next)) \in {Form(2, Byte), Form(3, Address), Rejected}
            BY Zenon DEF M6800Address
      <4> QED BY <1>9, <4>1, <4>2, FormSize
    <3> HIDE DEF Wide, Code
    <3> QED BY <3>1, <3>3 DEF mark, LeftByPass1
  <2>6. /\ DOMAIN image' = DOMAIN image \cup {address} \cup rest
        /\ At(image', address) = mark
        /\ \A x \in DOMAIN image' : image'[x] \in {0, 1, 2, 3, 4, Wide, Code}
        /\ \A x \in Nat : x < address \/ address + size <= x => At(image', x) = At(image, x)
    <3>1. \A x \in rest : x \in Nat /\ address < x /\ x < address + size
          BY <1>3, <2>2 DEF rest
    <3>2. \A x \in DOMAIN image : image[x] \in {0, 1, 2, 3, 4, Wide, Code}
          BY <1>2 DEF TypeOK
    <3>3. \A x \in DOMAIN image' : image'[x] \in {0, 1, 2, 3, 4, Wide, Code}
          BY <2>1, <2>5, <3>2, WrittenBytes
    <3>4. DOMAIN image' = DOMAIN image \cup {address} \cup rest
          BY <2>1 DEF Written
    <3>5. At(image', address) = mark
          BY <2>1, WrittenFirst
    <3>6. ASSUME NEW x \in Nat, x < address \/ address + size <= x
          PROVE  At(image', x) = At(image, x)
      <4>1. x # address /\ x \notin rest BY <1>3, <2>2, <3>1, <3>6
      <4> QED BY <2>1, <4>1, WrittenElsewhere
    <3> QED BY <3>3, <3>4, <3>5, <3>6
  <2>7. \A x \in DOMAIN image' : x \in Nat /\ x < address + size
    <3>1. \A x \in rest : x \in Nat /\ address < x /\ x < address + size
          BY <1>3, <2>2 DEF rest
    <3> QED BY <1>3, <2>2, <2>6, <3>1
  <2>8. TypeOK'
    <3>1. /\ way' \in Ways /\ prog' \in [1 .. MaxStatements -> Operands]
          /\ cut' \subseteq 1 .. MaxStatements
          BY <1>2, <1>4 DEF TypeOK
    <3>2. pass' \in 0 .. 3 /\ pass' \notin {2, 3} BY <2>1
    <3>3. next' \in 1 .. MaxStatements + 1 /\ address' \in Nat
          BY <1>3, <2>1, <2>2
    <3>4. labels' \in Seq(Nat) /\ Len(labels') = next' BY <2>1, <2>3
    <3>5. DOMAIN image' \subseteq Nat BY <2>7
    <3> QED BY <2>6, <3>1, <3>2, <3>3, <3>4, <3>5 DEF TypeOK
  <2>9. Increasing'
    <3> SUFFICES ASSUME NEW i \in 1 .. next + 1, NEW j \in 1 .. next + 1, i < j
                 PROVE  labels'[i] < labels'[j]
        BY <2>3 DEF Increasing
    <3>1. i \in 1 .. next /\ labels'[i] = labels[i] BY <1>3, <2>3
    <3>2. CASE j = next + 1
      <4>1. labels[i] <= labels[next] 
            BY <1>2, <1>3, <2>4, <3>1 DEF Increasing
      <4> QED BY <1>3, <2>2, <2>3, <2>4, <3>1, <3>2, <4>1
    <3>3. CASE j # next + 1
      <4>1. j \in 1 .. next /\ labels'[j] = labels[j] BY <1>3, <2>3, <3>3
      <4> QED BY <1>2, <1>3, <3>1, <4>1 DEF Increasing
    <3> QED BY <3>2, <3>3
  <2>10. InPass1'
    <3>1. address' = labels'[next'] BY <1>3, <2>1, <2>3
    <3>2. \A a \in DOMAIN image' : a < address' BY <2>1, <2>7
    <3>3. ASSUME NEW k \in 1 .. next
          PROVE  Laid(k)' /\ Kept(k)'
      <4>1. k \in Statements /\ k \in Nat BY <1>3 DEF Statements
      <4>2. First(k)' = First(k) /\ Size(k)' = Size(k)
        <5>1. \A j \in 1 .. k : labels'[j] = labels[j] BY <1>3, <2>3
        <5> QED BY <1>2, <1>4, <4>1, <5>1, FirstStays
      <4>3. labels'[k] = labels[k] /\ labels[k] \in Nat BY <2>3, <2>4
      <4>4. CASE k = next
        <5>1. Laid(k)'
              BY <1>3, <1>9, <2>1, <2>3, <4>2, <4>3, <4>4 DEF Laid, size
        <5>2. Kept(k)'
          <6>1. At(image', labels'[k]) = mark BY <1>3, <2>6, <4>3, <4>4
          <6> QED BY <1>4, <4>2, <4>4, <6>1, Zenon DEF Kept, mark, size
        <5> QED BY <5>1, <5>2
      <4>5. CASE k # next
        <5>1. k \in 1 .. next - 1 /\ k + 1 \in 1 .. next BY <1>3, <4>5
        <5>2. Laid(k) /\ Kept(k) BY <1>3, <5>1
        <5>3. labels'[k + 1] = labels[k + 1] BY <2>3, <5>1
        <5>4. Laid(k)' BY <4>2, <4>3, <5>2, <5>3 DEF Laid
        <5>5. labels[k] < address BY <1>2, <1>3, <5>1 DEF Increasing
        <5>6. At(image', labels'[k]) = At(image, labels[k])
              BY <2>6, <4>3, <5>5
        <5>7. Kept(k)' BY <1>4, <4>2, <5>2, <5>6, Zenon DEF Kept
        <5> QED BY <5>4, <5>7
      <4> QED BY <4>4, <4>5
    <3>4. \A k \in 1 .. next' - 1 : Laid(k)' /\ Kept(k)'
          BY <1>3, <2>1, <3>3
    <3> QED BY <3>1, <3>2, <3>4 DEF InPass1
  <2>11. InPass2' /\ InPass3' BY <2>1 DEF InPass2, InPass3
  <2> QED BY <2>8, <2>9, <2>10, <2>11 DEF IInv
<1> QED BY <1>8, <1>9

LEMMA StartPass2Inv == IInv /\ StartPass2 => IInv'
<1> SUFFICES ASSUME IInv, StartPass2 PROVE IInv'
    OBVIOUS
<1>1. /\ pass = 1 /\ next > MaxStatements
      /\ pass' = 2 /\ next' = 1 /\ address' = labels[1] /\ labels' = labels
      /\ way' = way /\ prog' = prog /\ image' = image /\ cut' = cut
      BY DEF StartPass2
<1>2. TypeOK /\ Increasing /\ InPass1 BY DEF IInv
<1>3. next = MaxStatements + 1 /\ Len(labels) = MaxStatements + 1 /\ labels \in Seq(Nat)
      /\ MaxStatements \in Nat /\ 1 <= MaxStatements
      BY <1>1, <1>2, OperandSizingConstants DEF TypeOK
<1>4. TypeOK'
  <2>1. labels[1] \in Nat BY <1>3
  <2>2. pass' \in 0 .. 3 /\ next' \in 1 .. MaxStatements + 1 /\ address' \in Nat
        BY <1>1, <1>3, <2>1
  <2> QED BY <1>1, <1>2, <1>3, <2>2 DEF TypeOK
<1>5. Increasing' BY <1>1, <1>2 DEF Increasing
<1>6. InPass1' /\ InPass3' BY <1>1 DEF InPass1, InPass3
<1>7. ASSUME NEW k \in Statements
      PROVE  Laid(k)' /\ Kept(k)'
  <2>1. Laid(k) /\ Kept(k)
        BY <1>1, <1>2, <1>3 DEF InPass1, Statements
  <2>2. First(k)' = First(k) /\ Size(k)' = Size(k)
        BY <1>1, <1>2, FirstStays
  <2> QED BY <1>1, <2>1, <2>2, Zenon DEF Laid, Kept
<1>8. InPass2' BY <1>1, <1>7 DEF InPass2, Statements
<1> QED BY <1>4, <1>5, <1>6, <1>8 DEF IInv

LEMMA Assemble2Inv ==
  Ways \subseteq MarkedWays => (IInv /\ Assemble2 => IInv')
<1> SUFFICES ASSUME Ways \subseteq MarkedWays, IInv, Assemble2 PROVE IInv'
    OBVIOUS
<1> DEFINE g    == Given(next, 2, address)
           size == Encode(way, g).size
           rest == address + 1 .. address + size - 1
<1>1. pass = 2 /\ next <= MaxStatements BY DEF Assemble2
<1>2. TypeOK /\ Increasing /\ InPass2 BY DEF IInv
<1>3. /\ next \in Nat /\ 1 <= next /\ next <= MaxStatements /\ MaxStatements \in Nat
      /\ labels \in Seq(Nat) /\ Len(labels) = MaxStatements + 1
      /\ address = labels[next] /\ address \in Nat
      /\ DOMAIN image \subseteq Nat
      /\ \A k \in Statements : Laid(k)
      /\ \A k \in next .. MaxStatements : Kept(k)
      /\ cut \subseteq 1 .. MaxStatements
  <2>1. next \in 1 .. MaxStatements + 1 /\ labels \in Seq(Nat) /\ address \in Nat
        /\ DOMAIN image \subseteq Nat /\ (pass \in {2, 3} => Len(labels) = MaxStatements + 1)
        /\ cut \subseteq 1 .. MaxStatements
        BY <1>2 DEF TypeOK
  <2>2. address = labels[next] /\ (\A k \in Statements : Laid(k))
        /\ \A k \in next .. MaxStatements : Kept(k)
        BY <1>1, <1>2 DEF InPass2
  <2> QED BY <1>1, <2>1, <2>2, OperandSizingConstants
<1>4. way' = way /\ prog' = prog /\ labels' = labels BY DEF Assemble2
<1>5. \/ /\ size = 0 /\ pass' = 0
         /\ UNCHANGED << next, address, image, cut >>
      \/ /\ size # 0 /\ image' = Written(image, address, Code, rest)
         /\ address' = address + size
         /\ next' = next + 1
         /\ cut' \in {cut, cut \cup {next}}
         /\ pass' = pass
      BY Zenon DEF Assemble2
<1>6. size \in 0 .. 8 BY Sizes
<1>7. size # 0 => size = Size(next) BY <1>1, SameSize
<1> HIDE DEF g, size, rest
<1>8. Increasing' BY <1>2, <1>4 DEF Increasing
<1>9. CASE size = 0
  <2>1. pass' = 0 /\ next' = next /\ address' = address /\ image' = image /\ cut' = cut
        BY <1>5, <1>9
  <2>2. TypeOK' BY <1>2, <1>4, <2>1 DEF TypeOK
  <2> QED BY <1>8, <2>1, <2>2 DEF IInv, InPass1, InPass2, InPass3
<1>10. CASE size # 0
  <2>1. /\ pass' = 2 /\ next' = next + 1 /\ address' = address + size
        /\ image' = Written(image, address, Code, rest)
        /\ cut' \in {cut, cut \cup {next}}
        BY <1>1, <1>5, <1>10
  <2>2. size \in 1 .. 8 BY <1>6, <1>10
  <2>3. next \in Statements BY <1>3 DEF Statements
  <2>4. address' = labels'[next']
        BY <1>3, <1>4, <1>7, <1>10, <2>1, <2>3 DEF Laid
  <2>5. \A x \in rest : x \in Nat /\ address < x /\ x < address + size
        BY SMTT(30), <1>3, <2>2 DEF rest
  <2>6. DOMAIN image' = DOMAIN image \cup {address} \cup rest
        BY <2>1 DEF Written
  <2>7. TypeOK'
    <3>1. way' \in Ways /\ prog' \in [1 .. MaxStatements -> Operands]
          BY <1>2, <1>4 DEF TypeOK
    <3>2. cut' \subseteq 1 .. MaxStatements
      <4>1. next \in 1 .. MaxStatements BY <1>3
      <4> QED BY <1>3, <2>1, <4>1
    <3>3. /\ pass' \in 0 .. 3 /\ pass' # 1
          /\ next' \in 1 .. MaxStatements + 1 /\ address' \in Nat
          BY <1>3, <2>1, <2>2
    <3>4. labels' \in Seq(Nat) /\ Len(labels') = MaxStatements + 1 BY <1>3, <1>4
    <3>5. DOMAIN image' \subseteq Nat BY <1>3, <2>5, <2>6
    <3>6. \A x \in DOMAIN image' : image'[x] \in {0, 1, 2, 3, 4, Wide, Code}
      <4>1. \A x \in DOMAIN image : image[x] \in {0, 1, 2, 3, 4, Wide, Code}
            BY <1>2 DEF TypeOK
      <4>2. Code \in {0, 1, 2, 3, 4, Wide, Code} OBVIOUS
      <4> QED BY <2>1, <4>1, <4>2, WrittenBytes
    <3> QED BY <3>1, <3>2, <3>3, <3>4, <3>5, <3>6 DEF TypeOK
  <2>8. \A k \in Statements : Laid(k)'
    <3> SUFFICES ASSUME NEW k \in Statements PROVE Laid(k)'
        OBVIOUS
    <3>1. Size(k)' = Size(k) BY <1>2, <1>4, FirstStays
    <3> QED BY <1>3, <1>4, <3>1, Zenon DEF Laid
  <2>9. ASSUME NEW k \in next + 1 .. MaxStatements
        PROVE  Kept(k)'
    <3>1. k \in Statements /\ k \in next .. MaxStatements BY <1>3 DEF Statements
    <3>2. First(k)' = First(k) /\ Size(k)' = Size(k)
          BY <1>2, <1>4, <3>1, FirstStays
    <3>3. labels[k] \in Nat /\ labels[next + 1] \in Nat BY <1>3
    <3>4. labels[next + 1] <= labels[k] BY <1>2, <1>3, <3>3 DEF Increasing
    <3>5. labels[next + 1] = address + size BY <1>4, <2>1, <2>4
    <3>6. labels[k] # address /\ labels[k] \notin rest
          BY SMTT(30), <1>3, <2>2, <2>5, <3>3, <3>4, <3>5
    <3>7. At(image', labels[k]) = At(image, labels[k])
          BY <2>1, <3>6, WrittenElsewhere
    <3>8. Kept(k) BY <1>3, <3>1
    <3> QED BY <1>4, <3>2, <3>7, <3>8, Zenon DEF Kept
  <2>10. InPass2'
    <3>1. \A k \in next' .. MaxStatements : Kept(k)' BY <2>1, <2>9
    <3> QED BY <2>4, <2>8, <3>1 DEF InPass2
  <2>11. InPass1' /\ InPass3' BY <2>1 DEF InPass1, InPass3
  <2> QED BY <1>8, <2>7, <2>10, <2>11 DEF IInv
<1> QED BY <1>9, <1>10

LEMMA FinishInv == IInv /\ Finish => IInv'
<1> SUFFICES ASSUME IInv, Finish PROVE IInv'
    OBVIOUS
<1>1. /\ pass = 2 /\ next > MaxStatements /\ pass' = 3 /\ next' = next
      /\ address' = address /\ labels' = labels
      /\ way' = way /\ prog' = prog /\ image' = image /\ cut' = cut
      BY DEF Finish
<1>2. TypeOK /\ Increasing /\ InPass2 BY DEF IInv
<1>3. next = MaxStatements + 1 BY <1>1, <1>2, OperandSizingConstants DEF TypeOK
<1>4. TypeOK' BY <1>1, <1>2 DEF TypeOK
<1>5. Increasing' BY <1>1, <1>2 DEF Increasing
<1>6. InPass1' /\ InPass2' BY <1>1 DEF InPass1, InPass2
<1>7. InPass3' BY <1>1, <1>2, <1>3 DEF InPass2, InPass3
<1> QED BY <1>4, <1>5, <1>6, <1>7 DEF IInv

LEMMA StutterInv == IInv /\ UNCHANGED vars => IInv'
<1> SUFFICES ASSUME IInv, UNCHANGED vars PROVE IInv'
    OBVIOUS
<1>1. /\ pass' = pass /\ next' = next /\ address' = address /\ labels' = labels
      /\ way' = way /\ prog' = prog /\ image' = image /\ cut' = cut
      BY DEF vars
<1>2. TypeOK /\ Increasing /\ InPass1 /\ InPass2 /\ InPass3 BY DEF IInv
<1>3. TypeOK' /\ Increasing' BY <1>1, <1>2 DEF TypeOK, Increasing
<1>4. \A k \in Statements : First(k)' = First(k) /\ Size(k)' = Size(k)
      BY <1>1, <1>2, FirstStays
<1>5. \A k \in Statements : (Laid(k)' <=> Laid(k)) /\ (Kept(k)' <=> Kept(k))
      BY <1>1, <1>4, Zenon DEF Laid, Kept
<1>6. next \in 1 .. MaxStatements + 1 /\ MaxStatements \in Nat
      BY <1>2, OperandSizingConstants DEF TypeOK
<1>7. InPass1' BY <1>1, <1>2, <1>5, <1>6 DEF InPass1, Statements
<1>8. InPass2' BY <1>1, <1>2, <1>5, <1>6 DEF InPass2, Statements
<1>9. InPass3' BY <1>1, <1>2 DEF InPass3
<1> QED BY <1>3, <1>7, <1>8, <1>9 DEF IInv

-----------------------------------------------------------------------------
(* Theorems.                                                               *)

LEMMA Invariance ==
  ASSUME Ways \subseteq MarkedWays
  PROVE  Spec => []IInv
<1>1. IInv /\ [Next]_vars => IInv'
      BY Assemble1Inv, StartPass2Inv, Assemble2Inv, FinishInv, StutterInv DEF Next
<1> QED BY <1>1, InitInv, PTL DEF Spec

(* On the CPUs that leave a mark the state has the shape the code gives    *)
(* it, whatever the program.                                               *)
THEOREM TypeCorrect ==
  ASSUME Ways \subseteq MarkedWays
  PROVE  Spec => []TypeOK
<1>1. IInv => TypeOK BY DEF IInv
<1> QED BY <1>1, Invariance, PTL

(* On these CPUs every instruction is assembled in pass 2 at the address   *)
(* pass 1 gave to its label: programs of any length, operands of any       *)
(* value, labels in any order.                                             *)
THEOREM LabelsAgree ==
  ASSUME Ways \subseteq MarkedWays
  PROVE  Spec => []PassesAgree
<1>1. IInv => PassesAgree BY DEF IInv, InPass2, InPass3, PassesAgree
<1> QED BY <1>1, Invariance, PTL

(* On these CPUs no operand is cut that a form of the instruction can hold.*)
THEOREM OperandsHeld ==
  ASSUME Ways \subseteq MarkedWays
  PROVE  Spec => []HoldsOperand
<1>1. Init => HoldsOperand BY DEF Init, HoldsOperand
<1>2. IInv /\ HoldsOperand /\ [Next]_vars => HoldsOperand'
  <2> SUFFICES ASSUME IInv, HoldsOperand, [Next]_vars PROVE HoldsOperand'
      OBVIOUS
  <2>1. CASE Assemble2
    <3>1. pass = 2 /\ next <= MaxStatements BY <2>1 DEF Assemble2
    <3>2. CASE Encode(way, Given(next, 2, address)).size = 0
          BY <2>1, <3>2, Zenon DEF Assemble2, HoldsOperand
    <3>3. CASE Encode(way, Given(next, 2, address)).size # 0
      <4>1. cut' = cut BY <2>1, <3>1, <3>3, SameSize, Zenon DEF Assemble2
      <4> QED BY <4>1 DEF HoldsOperand
    <3> QED BY <3>2, <3>3
  <2>2. CASE ~Assemble2
        BY <2>2 DEF Next, Assemble1, StartPass2, Finish, vars, HoldsOperand
  <2> QED BY <2>1, <2>2
<1> QED BY <1>1, <1>2, Invariance, PTL DEF Spec

=============================================================================
