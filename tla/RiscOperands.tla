---------------------------- MODULE RiscOperands ----------------------------
(***************************************************************************)
(* The operands of processors whose instructions are words of 32 or 16     *)
(* bits, by the kinds that the rows of table/*.cpp and both switches, the  *)
(* assembler's and the disassembler's, name.                               *)
(***************************************************************************)
EXTENDS Codes, Sequences, TLC

(* PowerPC.  A dot behind the name is one more operand. *)
PpcRegisterAsm ==
  [rd |-> Register(21, 5), ra |-> Register(16, 5), rb |-> Register(11, 5),
   sh |-> Number(0, 31, At(11, 5)), dot |-> Number(0, 1, At(0, 1))]
PpcImmediateAsm ==
  [simm |-> Number(-32768, 65535, At(0, 16)), uimm |-> Number(0, 65535, At(0, 16))]
PpcConditionAsm == [bo |-> Number(0, 31, At(21, 5)), bi |-> Number(0, 31, At(16, 5))]
PpcCompareAsm ==
  [cr |-> Register(23, 3), crb |-> Number(0, 31, At(21, 5)),
   crb_a |-> Number(0, 31, At(16, 5)), crb_b |-> Number(0, 31, At(11, 5))]
PpcOffsetAsm == [offset |-> Number(-32768, 32767, At(0, 16))]
PpcAccessAsm == [nb |-> Number(0, 31, At(11, 5)), crs |-> Register(18, 3)]
PpcSpecialAsm == [spr |-> Number(0, 1023, {<<0, 5, 16>>, <<5, 5, 11>>})]
PpcMaskAsm ==
  [crm |-> Number(0, 255, At(12, 8)), mb |-> Number(0, 31, At(6, 5)),
   me |-> Number(0, 31, At(1, 5)), strm |-> Number(0, 3, At(21, 2))]
PpcVectorAsm == [vc |-> Register(6, 5), vector_dot |-> Number(0, 1, At(10, 1))]
PpcVectorImmediateAsm ==
  [vsimm |-> Number(-16, 15, At(16, 5)), vsh |-> Number(0, 15, At(6, 4))]
PpcFloatAsm == [frc |-> Register(6, 5)]
PpcFlagAsm == [flm |-> Number(0, 255, At(17, 8)), bt |-> Number(0, 31, At(21, 5))]
PpcTrapAsm ==
  [to |-> Number(0, 31, At(21, 5)), crfd |-> Number(0, 7, At(23, 3)),
   l |-> Number(0, 1, At(21, 1)), cmp_simm |-> Number(-32768, 32767, At(0, 16))]
PpcAsm ==
  PpcRegisterAsm @@ PpcImmediateAsm @@ PpcConditionAsm @@ PpcCompareAsm @@ PpcOffsetAsm
    @@ PpcAccessAsm @@ PpcSpecialAsm @@ PpcMaskAsm @@ PpcVectorAsm @@ PpcVectorImmediateAsm
    @@ PpcFloatAsm @@ PpcFlagAsm @@ PpcTrapAsm

PpcIntegerDisasm ==
  [rd |-> ReadsField(21, 5), ra |-> ReadsField(16, 5), rb |-> ReadsField(11, 5),
   sh |-> ReadsField(11, 5), dot |-> ReadsField(0, 1), simm |-> Reads(15, At(0, 16)),
   uimm |-> ReadsField(0, 16), bo |-> ReadsField(21, 5), bi |-> ReadsField(16, 5),
   cr |-> ReadsField(23, 3), crb |-> ReadsField(21, 5), crb_a |-> ReadsField(16, 5),
   crb_b |-> ReadsField(11, 5), offset |-> Reads(15, At(0, 16)), nb |-> ReadsField(11, 5),
   crs |-> ReadsField(18, 3), spr |-> Reads(Unsigned, {<<5, 5, 11>>, <<0, 5, 16>>})]
PpcVectorDisasm ==
  [crm |-> ReadsField(12, 8), mb |-> ReadsField(6, 5), me |-> ReadsField(1, 5),
   strm |-> ReadsField(21, 2), vc |-> ReadsField(6, 5), vector_dot |-> ReadsField(10, 1),
   vsimm |-> Reads(4, At(16, 5)), vsh |-> ReadsField(6, 4)]
PpcFloatDisasm ==
  [flm |-> ReadsField(17, 8), bt |-> ReadsField(21, 5), to |-> ReadsField(21, 5),
   crfd |-> ReadsField(23, 3), l |-> ReadsField(21, 1), cmp_simm |-> Reads(15, At(0, 16))]
PpcDisasm == PpcIntegerDisasm @@ PpcVectorDisasm @@ PpcFloatDisasm

PpcInteger == <<
  << <<"ra", "rd", "sh", "mb", "me", "dot">>, Mask(\hfc00, \h0000) >>,
  << <<"ra", "rd", "uimm">>, Mask(\hfc00, \h0000) >>,
  << <<"rd", "offset", "ra">>, Mask(\hfc00, \h0000) >>,
  << <<"rd", "ra", "simm">>, Mask(\hfc00, \h0000) >>,
  << <<"to", "ra", "uimm">>, Mask(\hfc00, \h0000) >>,
  << <<"ra", "rd", "rb", "dot">>, Mask(\hfc00, \h07fe) >>,
  << <<"ra", "rd", "sh", "dot">>, Mask(\hfc00, \h07fe) >>,
  << <<"rd", "ra", "dot">>, Mask(\hfc00, \h07fe) >>,
  << <<"rd", "ra", "rb", "dot">>, Mask(\hfc00, \h07fe) >>,
  << <<"to", "ra", "rb">>, Mask(\hfc00, \h07fe) >>,
  << <<"crb", "crb_a", "crb_b">>, Mask(\hfc00, \h07ff) >>,
  << <<"rd", "ra", "nb">>, Mask(\hfc00, \h07ff) >>,
  << <<"rd", "ra", "rb">>, Mask(\hfc00, \h07ff) >>,
  << <<"rd", "spr">>, Mask(\hfc00, \h07ff) >>,
  << <<"rd", "ra", "dot">>, Mask(\hfc00, \hfffe) >>,
  << <<"bo", "bi">>, Mask(\hfc00, \hffff) >>,
  << <<"rd", "simm">>, Mask(\hfc0f, \h0000) >>,
  << <<"crm", "rd">>, Mask(\hfc10, \h0fff) >>,
  << <<"rd">>, Mask(\hfc1f, \hffff) >>,
  << <<"crfd", "l", "ra", "cmp_simm">>, Mask(\hfc40, \h0000) >>,
  << <<"crfd", "l", "ra", "uimm">>, Mask(\hfc40, \h0000) >>,
  << <<"crfd", "l", "ra", "rb">>, Mask(\hfc40, \h07ff) >>,
  << <<"cr", "ra", "simm">>, Mask(\hfc60, \h0000) >>,
  << <<"cr", "ra", "rb">>, Mask(\hfc60, \h07ff) >>,
  << <<"cr", "crs">>, Mask(\hfc63, \hffff) >>,
  << <<"cr">>, Mask(\hfc7f, \hffff) >>
>>
PpcFloat == <<
  << <<"rd", "offset", "ra">>, Mask(\hfc00, \h0000) >>,
  << <<"rd", "rb", "dot">>, Mask(\hfc00, \h07fe) >>,
  << <<"rd", "ra", "rb", "dot">>, Mask(\hfc00, \h07fe) >>,
  << <<"rd", "ra", "rb">>, Mask(\hfc00, \h07fe) >>,
  << <<"rd", "rb", "dot">>, Mask(\hfc1f, \h07fe) >>,
  << <<"bt", "dot">>, Mask(\hfc1f, \hfffe) >>,
  << <<"rd", "dot">>, Mask(\hfc1f, \hfffe) >>,
  << <<"flm", "rb", "dot">>, Mask(\hfe01, \h07fe) >>
>>
PpcVector == <<
  << <<"strm">>, Mask(\hff9f, \hffff) >>,
  << <<"rd", "ra", "rb">>, Mask(\hfc00, \h07ff) >>,
  << <<"rd">>, Mask(\hfc1f, \hffff) >>,
  << <<"rb">>, Mask(\hffff, \h07ff) >>,
  << <<"rd", "ra", "rb", "vector_dot">>, Mask(\hfc00, \h03ff) >>,
  << <<"rd", "ra", "rb", "vc">>, Mask(\hfc00, \h003f) >>,
  << <<"rd", "ra", "rb", "vsh">>, Mask(\hfc00, \h043f) >>,
  << <<"rd", "vsimm">>, Mask(\hfc00, \h07ff) >>
>>
PpcForms ==
  FormsOf(PpcAsm, PpcDisasm, PpcInteger) \o FormsOf(PpcAsm, PpcDisasm, PpcFloat)
    \o FormsOf(PpcAsm, PpcDisasm, PpcVector)

-----------------------------------------------------------------------------
(* ARM64.  sf is 0 for w and 1 for x registers, q and sz are the size of    *)
(* the elements of a vector, lsl #12 is one more operand.                   *)
Arm64ShiftAsm ==
  [rd |-> Register(0, 5), rn |-> Register(5, 5), rm |-> Register(16, 5),
   sf |-> Number(0, 1, At(31, 1)), lsl |-> Number(0, 7, At(10, 3)),
   extend |-> Number(0, 7, At(13, 3)), shift |-> Number(0, 3, At(22, 2)),
   count |-> Number(0, 63, At(10, 6))]
Arm64ImmediateAsm == [imm |-> Number(0, 4095, At(10, 12)), lsl12 |-> Number(0, 1, At(22, 1))]
Arm64CompareAsm == [compared |-> Register(5, 5)]
Arm64VectorShiftAsm == [shl |-> Number(0, 7, At(16, 3)), q |-> Number(0, 1, At(30, 1))]
Arm64FloatAsm == [type |-> Number(0, 1, At(22, 1))]
Arm64IndexAsm == [x |-> Number(0, 1, At(30, 1))]
Arm64BitsAsm == [immr |-> Number(0, 63, At(16, 6))]
Arm64BranchAsm == [target |-> Aligned(4, Offset(0, -134217728, 134217727, {<<2, 26, 0>>}))]
Arm64MultiplyAsm == [ra |-> Register(10, 5)]
Arm64ElementsAsm == [size |-> Number(0, 3, At(22, 2))]
Arm64Asm ==
  Arm64ShiftAsm @@ Arm64ImmediateAsm @@ Arm64CompareAsm
    @@ Arm64VectorShiftAsm @@ Arm64FloatAsm @@ Arm64IndexAsm @@ Arm64BitsAsm
    @@ Arm64BranchAsm @@ Arm64MultiplyAsm @@ Arm64ElementsAsm

Arm64IntegerDisasm ==
  [rd |-> ReadsField(0, 5), rn |-> ReadsField(5, 5), rm |-> ReadsField(16, 5),
   sf |-> ReadsField(31, 1), lsl |-> ReadsField(10, 3), extend |-> ReadsField(13, 3),
   shift |-> ReadsField(22, 2), count |-> ReadsField(10, 6), imm |-> ReadsField(10, 12),
   lsl12 |-> Loose(ReadsField(22, 2)),
   immr |-> Loose(Reads(Unsigned, {<<0, 6, 16>>, <<6, 1, 22>>}))]
Arm64MoreDisasm == [target |-> Shows(0, 27, {<<2, 26, 0>>})]
Arm64VectorDisasm ==
  [q |-> ReadsField(30, 1), size |-> ReadsField(22, 2)]
Arm64ShiftDisasm ==
  [compared |-> ReadsField(5, 5), shl |-> ReadsField(16, 3), type |-> Loose(ReadsField(22, 2))]
Arm64LoadDisasm == [x |-> ReadsField(30, 1), ra |-> ReadsField(10, 5)]
Arm64Disasm ==
  Arm64IntegerDisasm @@ Arm64MoreDisasm @@ Arm64VectorDisasm @@ Arm64ShiftDisasm
    @@ Arm64LoadDisasm

Arm64Rows == <<
  << <<"rd", "rn", "q", "size">>, Mask(\hbf3f, \hfc00) >>,
  << <<"rd", "rn">>, Mask(\hffff, \hfc00) >>,
  << <<"rd", "rn", "rm", "q", "size">>, Mask(\hbf20, \hfc00) >>,
  << <<"rd", "rn", "rm", "q">>, Mask(\hbfe0, \hfc00) >>,
  << <<"rd", "rn", "rm", "q">>, Mask(\hbfe0, \hfc00) >>,
  << <<"rd", "rn", "rm">>, Mask(\hffe0, \hfc00) >>,
  << <<"rd", "rn", "q">>, Mask(\hbfff, \hfc00) >>,
  << <<"rd", "rn", "rm", "type">>, Mask(\hffa0, \hfc00) >>,
  << <<"rd", "rn", "type">>, Mask(\hffbf, \hfc00) >>,
  << <<"rd", "rn", "shl", "q">>, Mask(\hbff8, \hfc00) >>
>>
Arm64MoreRows == <<
  << <<"rd", "rn", "rm", "lsl">>, Mask(\hffe0, \he000) >>,
  << <<"rd", "rn", "rm", "extend">>, Mask(\hffe0, \h1c00) >>,
  << <<"rd", "rn", "imm", "lsl12", "sf">>, Mask(\h7f80, \h0000) >>,
  << <<"compared", "imm", "lsl12", "sf">>, Mask(\h7f80, \h001f) >>,
  << <<"rd", "rn", "rm", "shift", "count", "sf">>, Mask(\h7f20, \h0000) >>,
  << <<"rd", "rn", "rm", "sf">>, Mask(\h7fe0, \hfc00) >>,
  << <<"rd">>, Mask(\hffff, \hffe0) >>,
  << <<"rn">>, Mask(\hffff, \hfc1f) >>,
  << <<"rd", "rn", "rm", "ra", "sf">>, Mask(\h7fe0, \h8000) >>,
  << <<"rd", "rn", "rm", "ra">>, Mask(\hffe0, \h8000) >>,
  << <<"rd", "rn", "immr", "sf">>, Mask(\h7f80, \hfc00) >>,
  << <<"rd", "rn", "rm", "x">>, Mask(\hbfe0, \hfc00) >>,
  << <<"target">>, Mask(\hfc00, \h0000) >>
>>
Arm64Forms ==
  FormsOf(Arm64Asm, Arm64Disasm, Arm64Rows) \o FormsOf(Arm64Asm, Arm64Disasm, Arm64MoreRows)

-----------------------------------------------------------------------------
(* Xtensa.  Both orders of the bytes have the same fields, in other places  *)
(* of the instruction, which is read as a number of 24 bits.                *)
XtensaLittle ==
  [at |-> 4, as |-> 8, ar |-> 12, imm8 |-> 16, top |-> 20, fifth |-> 16, imm12 |-> 12,
   imm16 |-> 8, imm18 |-> 6, ur |-> 4]
XtensaBig ==
  [at |-> 16, as |-> 12, ar |-> 8, imm8 |-> 0, top |-> 0, fifth |-> 4, imm12 |-> 0,
   imm16 |-> 0, imm18 |-> 0, ur |-> 12]
XtensaRegisterAsm(p) ==
  [at |-> Register(p.at, 4), as |-> Register(p.as, 4), ar |-> Register(p.ar, 4)]
XtensaSignedAsm(p) ==
  [simm8 |-> Number(-128, 127, At(p.imm8, 8)),
   simm16 |-> Aligned(256, Number(-32768, 32512, {<<8, 8, p.imm8>>}))]
XtensaFlagsAsm(p) ==
  [bs4 |-> Aligned(4, Register(p.as, 4)), bs8 |-> Aligned(8, Register(p.as, 4))]
XtensaBranchAsm(p) ==
  [i8 |-> Offset(4, -128, 127, At(p.imm8, 8)),
   b5 |-> Number(0, 31, {<<0, 4, p.at>>, <<4, 1, p.ar>>}),
   i12 |-> Offset(4, -2048, 2047, At(p.imm12, 12))]
XtensaNarrowAsm ==
  [i6 |-> Offset(4, 0, 63, {<<0, 4, 12>>, <<4, 2, 4>>}), n |-> Number(0, 15, At(8, 4)),
   u60 |-> Aligned(4, Number(0, 60, {<<2, 4, 12>>}))]
XtensaCallsAsm(p) ==
  [call |-> Offset(1, -131072, 131071, At(p.imm18, 18)),
   jump |-> Offset(4, -131072, 131071, At(p.imm18, 18))]
XtensaSmallAsm(p) ==
  [u4 |-> Number(0, 15, At(p.at, 4)), from7 |-> Less(7, Number(7, 22, At(p.at, 4)))]
XtensaScaledAsm(p) ==
  [u1020 |-> Aligned(4, Number(0, 1020, {<<2, 8, p.imm8>>})),
   u32760 |-> Aligned(8, Number(0, 32760, {<<3, 12, p.imm12>>}))]
XtensaMaskAsm(p) ==
  [shift |-> Number(0, 31, {<<0, 4, p.as>>, <<4, 1, p.fifth>>}),
   mask |-> Less(1, Number(1, 16, At(p.top, 4))), u255 |-> Number(0, 255, At(p.imm8, 8)),
   u510 |-> Even(Number(0, 510, {<<1, 8, p.imm8>>})),
   n64 |-> Aligned(4, Less(-64, Number(-64, -4, {<<2, 4, p.ar>>})))]
XtensaLoopAsm(p) ==
  [l32r |-> Aligned(4, Offset(3, -262141, -4, {<<2, 16, p.imm16>>})),
   mw |-> Register(p.ar, 2), loop |-> Offset(4, 0, 255, At(p.imm8, 8))]
XtensaMoveAsm(p) ==
  [twice |-> Number(0, 15, {<<0, 4, p.as>>, <<0, 4, p.at>>}),
   simm12 |-> Number(-2048, 2047, {<<0, 8, p.imm8>>, <<8, 4, p.as>>})]
XtensaMultiplyAsm(p) ==
  [mx |-> Number(0, 1, At(p.ar + 2, 1)), my |-> Less(2, Number(2, 3, At(p.at + 2, 1)))]
XtensaLevelAsm(p) ==
  [level |-> Number(0, 15, At(p.as, 4)), window |-> Number(-8, 7, At(p.at, 4)),
   spr |-> Number(0, 255, At(8, 8)), ur |-> Number(0, 255, At(p.ur, 8))]
XtensaShiftAsm(p) ==
  [slli |-> Back(Less(-32, Number(-31, -1, {<<0, 4, p.at>>, <<4, 1, p.top>>}))),
   srai |-> Number(1, 31, {<<0, 4, p.as>>, <<4, 1, p.top>>}),
   ssai |-> Number(0, 31, {<<0, 4, p.as>>, <<4, 1, p.at>>})]
XtensaAsm(p) ==
  XtensaRegisterAsm(p) @@ XtensaSignedAsm(p) @@ XtensaFlagsAsm(p) @@ XtensaBranchAsm(p)
    @@ XtensaNarrowAsm @@ XtensaCallsAsm(p) @@ XtensaSmallAsm(p) @@ XtensaScaledAsm(p)
    @@ XtensaMaskAsm(p) @@ XtensaLoopAsm(p) @@ XtensaMoveAsm(p) @@ XtensaMultiplyAsm(p)
    @@ XtensaLevelAsm(p) @@ XtensaShiftAsm(p)

XtensaFirstDisasm(p) ==
  [at |-> ReadsField(p.at, 4), as |-> ReadsField(p.as, 4), ar |-> ReadsField(p.ar, 4),
   simm8 |-> Reads(7, At(p.imm8, 8)), simm16 |-> Reads(15, {<<8, 8, p.imm8>>}),
   bs4 |-> Loose(ReadsField(p.as, 4)), bs8 |-> Loose(ReadsField(p.as, 4)),
   i8 |-> Shows(4, 7, At(p.imm8, 8)),
   b5 |-> Reads(Unsigned, {<<0, 4, p.at>>, <<4, 1, p.ar>>}),
   i12 |-> Shows(4, 11, At(p.imm12, 12)), call |-> Shows(1, 17, At(p.imm18, 18)),
   jump |-> Shows(4, 17, At(p.imm18, 18)), u4 |-> ReadsField(p.at, 4),
   from7 |-> Less(7, ReadsField(p.at, 4)), u1020 |-> Reads(Unsigned, {<<2, 8, p.imm8>>}),
   u32760 |-> Reads(Unsigned, {<<3, 12, p.imm12>>}),
   shift |-> Reads(Unsigned, {<<0, 4, p.as>>, <<4, 1, p.fifth>>}),
   mask |-> Less(1, ReadsField(p.top, 4)), u255 |-> ReadsField(p.imm8, 8),
   u510 |-> Reads(Unsigned, {<<1, 8, p.imm8>>}),
   n64 |-> Less(-64, Reads(Unsigned, {<<2, 4, p.ar>>})),
   l32r |-> Loose(Shows(3 - 2^18, Unsigned, {<<2, 16, p.imm16>>}))]
XtensaLastDisasm(p) ==
  [mw |-> ReadsField(p.ar, 2), loop |-> Shows(4, Unsigned, At(p.imm8, 8)),
   twice |-> ReadsField(p.as, 4),
   simm12 |-> Reads(11, {<<0, 8, p.imm8>>, <<8, 4, p.as>>}),
   mx |-> ReadsField(p.ar + 2, 1), my |-> Less(2, ReadsField(p.at + 2, 1)),
   level |-> ReadsField(p.as, 4), window |-> Reads(3, At(p.at, 4)),
   spr |-> ReadsField(8, 8), ur |-> ReadsField(p.ur, 8)]
XtensaShiftDisasm(p) ==
  [slli |-> Loose(Back(Less(-32, Reads(Unsigned, {<<0, 4, p.at>>, <<4, 1, p.top>>})))),
   srai |-> Loose(Reads(Unsigned, {<<0, 4, p.as>>, <<4, 1, p.top>>})),
   ssai |-> Reads(Unsigned, {<<0, 4, p.as>>, <<4, 1, p.at>>}),
   i6 |-> Shows(4, Unsigned, {<<0, 4, 12>>, <<4, 2, 4>>}), n |-> ReadsField(8, 4),
   u60 |-> Reads(Unsigned, {<<2, 4, 12>>})]
XtensaDisasm(p) == XtensaFirstDisasm(p) @@ XtensaLastDisasm(p) @@ XtensaShiftDisasm(p)
XtensaBigDisasm == XtensaDisasm(XtensaBig)

XtensaFirst == <<
  << <<"ar", "at">>, Mask(\h00ff, \h0f0f) >>,
  << <<"at", "as">>, Mask(\h00ff, \hf00f) >>,
  << <<"ar", "as">>, Mask(\h00ff, \h00ff) >>,
  << <<"ar", "as", "at">>, Mask(\h00ff, \h000f) >>,
  << <<"at", "as", "simm8">>, Mask(\h0000, \hf00f) >>,
  << <<"at", "as", "simm16">>, Mask(\h0000, \hf00f) >>,
  << <<"at", "bs4">>, Mask(\h00ff, \hf00f) >>,
  << <<"at", "bs8">>, Mask(\h00ff, \hf00f) >>,
  << <<"as", "b5", "i8">>, Mask(\h0000, \he00f) >>,
  << <<"as", "i12">>, Mask(\h0000, \h00ff) >>,
  << <<"as", "i8">>, Mask(\h0000, \hf0ff) >>,
  << <<"as">>, Mask(\h00ff, \hf0ff) >>,
  << <<"ar", "as", "u4">>, Mask(\h00ff, \h000f) >>,
  << <<"ar", "as", "from7">>, Mask(\h00ff, \h000f) >>,
  << <<"as", "u1020">>, Mask(\h0000, \hf0ff) >>,
  << <<"as", "u32760">>, Mask(\h0000, \h00ff) >>,
  << <<"ar", "at", "shift", "mask">>, Mask(\h000e, \h000f) >>,
  << <<"at", "as", "u255">>, Mask(\h0000, \hf00f) >>,
  << <<"at", "as", "u510">>, Mask(\h0000, \hf00f) >>,
  << <<"at", "as", "u1020">>, Mask(\h0000, \hf00f) >>,
  << <<"at", "as", "n64">>, Mask(\h00ff, \h000f) >>,
  << <<"at", "l32r">>, Mask(\h0000, \h000f) >>,
  << <<"mw", "as">>, Mask(\h00ff, \hc0ff) >>,
  << <<"as", "loop">>, Mask(\h0000, \hf0ff) >>
>>
XtensaLast == <<
  << <<"ar", "twice">>, Mask(\h00ff, \h000f) >>,
  << <<"as", "at">>, Mask(\h00ff, \hf00f) >>,
  << <<"mx", "at">>, Mask(\h00ff, \hbf0f) >>,
  << <<"mw", "as", "mx", "at">>, Mask(\h00fc, \h800f) >>,
  << <<"mw", "as", "mx", "my">>, Mask(\h00fc, \h80bf) >>,
  << <<"level">>, Mask(\h00ff, \hf0ff) >>,
  << <<"window">>, Mask(\h00ff, \hff0f) >>,
  << <<"at", "level">>, Mask(\h00ff, \hf00f) >>,
  << <<"at", "spr">>, Mask(\h00ff, \h000f) >>,
  << <<"ar", "ur">>, Mask(\h00ff, \h000f) >>,
  << <<"ar", "as", "slli">>, Mask(\h00ef, \h000f) >>,
  << <<"ar", "at", "srai">>, Mask(\h00ef, \h000f) >>,
  << <<"ar", "at", "level">>, Mask(\h00ff, \h000f) >>,
  << <<"ssai">>, Mask(\h00ff, \hf0ef) >>
>>
XtensaLittleRows == XtensaFirst \o XtensaLast \o <<
  << <<"at", "simm12">>, Mask(\h0000, \hf00f) >>,
  << <<"call">>, Mask(\h0000, \h003f) >>,
  << <<"jump">>, Mask(\h0000, \h003f) >>,
  << <<"ar", "as", "at">>, Mask(\h0000, \h000f) >>,
  << <<"as", "i6">>, Mask(\h0000, \h00cf) >>,
  << <<"n">>, Mask(\h0000, \hf0ff) >>,
  << <<"at", "as", "u60">>, Mask(\h0000, \h000f) >>,
  << <<"at", "as">>, Mask(\h0000, \hf00f) >>
>>

(* The masks of the other order have the same digits from the other end.    *)
XtensaBigRows ==
  LET rows == XtensaFirst \o XtensaLast
      Mirrored(mask) == {(4 * (5 - b \div 4)) + (b % 4) : b \in mask}
  IN [i \in DOMAIN rows |-> <<rows[i][1], Mirrored(rows[i][2])>>] \o <<
  << <<"call">>, Mask(\h00fc, \h0000) >>,
  << <<"jump">>, Mask(\h00fc, \h0000) >>
>>
XtensaForms ==
  FormsOf(XtensaAsm(XtensaLittle), XtensaDisasm(XtensaLittle), XtensaLittleRows)
    \o FormsOf(XtensaAsm(XtensaBig), XtensaBigDisasm, XtensaBigRows)

(* SH4.  Registers that go in pairs or fours are numbers that are multiples *)
(* of 2 or 4, the displacement of @(n,rm) is a multiple of what it moves.   *)
Sh4RegisterAsm ==
  [rm |-> Register(4, 4), rn |-> Register(8, 4),
   dm |-> Even(Number(0, 14, {<<1, 3, 5>>})), dn |-> Even(Number(0, 14, {<<1, 3, 9>>})),
   fvm |-> Aligned(4, Number(0, 12, {<<2, 2, 8>>})), fvn |-> Aligned(4, Number(0, 12, {<<2, 2, 10>>}))]
Sh4ImmediateAsm == [s8 |-> Number(-128, 255, At(0, 8)), u8 |-> Number(0, 255, At(0, 8))]
Sh4SpecialAsm ==
  [fpul_f |-> Register(8, 4), fpul_d |-> Even(Number(0, 14, {<<1, 3, 9>>})),
   fr_m |-> Register(4, 4), fr_n |-> Register(8, 4), xmtrx |-> Aligned(4, Number(0, 12, {<<2, 2, 10>>})),
   special |-> Register(8, 4), bank |-> Register(4, 3)]

\* What get_displacement and its callers make of a displacement.
Sh4Displaced(size, mask, groups) == Aligned(size, Number(0, mask * size, groups))
Sh4DisplacementAsm ==
  [byte |-> Sh4Displaced(1, 15, At(0, 4)), word |-> Sh4Displaced(2, 15, {<<1, 4, 0>>}),
   long |-> Sh4Displaced(4, 15, {<<2, 4, 0>>}), gbr_byte |-> Sh4Displaced(1, 255, At(0, 8)),
   gbr_word |-> Sh4Displaced(2, 255, {<<1, 8, 0>>}),
   gbr_long |-> Sh4Displaced(4, 255, {<<2, 8, 0>>})]

\* A place that is named instead, which counts from behind the next instruction.
Sh4NamedAsm == [pc_word |-> Even(Offset(4, 0, 510, {<<1, 8, 0>>}))]
Sh4LastAsm == [at_rn |-> Register(8, 4), trap |-> Number(0, 255, At(0, 8))]
Sh4Asm ==
  Sh4RegisterAsm @@ Sh4ImmediateAsm @@ Sh4SpecialAsm @@ Sh4DisplacementAsm @@ Sh4NamedAsm
    @@ Sh4LastAsm

Sh4FirstDisasm ==
  [rm |-> ReadsField(4, 4), rn |-> ReadsField(8, 4), dm |-> Reads(Unsigned, {<<1, 3, 5>>}),
   dn |-> Reads(Unsigned, {<<1, 3, 9>>}), fvm |-> Reads(Unsigned, {<<2, 2, 8>>}),
   fvn |-> Reads(Unsigned, {<<2, 2, 10>>}), s8 |-> Reads(7, At(0, 8)), u8 |-> ReadsField(0, 8)]
Sh4FloatDisasm ==
  [fpul_f |-> ReadsField(8, 4), fpul_d |-> Reads(Unsigned, {<<1, 3, 9>>}),
   fr_m |-> ReadsField(4, 4), fr_n |-> ReadsField(8, 4)]
Sh4BankDisasm ==
  [xmtrx |-> Reads(Unsigned, {<<2, 2, 10>>}), special |-> ReadsField(8, 4),
   bank |-> ReadsField(4, 3)]
Sh4DisplacementDisasm ==
  [byte |-> ReadsField(0, 4), word |-> Reads(Unsigned, {<<1, 4, 0>>}),
   long |-> Reads(Unsigned, {<<2, 4, 0>>}), gbr_byte |-> ReadsField(0, 8),
   gbr_word |-> Reads(Unsigned, {<<1, 8, 0>>}), gbr_long |-> Reads(Unsigned, {<<2, 8, 0>>}),
   pc_word |-> Shows(4, Unsigned, {<<1, 8, 0>>})]
Sh4LastDisasm == [at_rn |-> ReadsField(8, 4), trap |-> ReadsField(0, 8)]
Sh4Disasm ==
  Sh4FirstDisasm @@ Sh4FloatDisasm @@ Sh4BankDisasm @@ Sh4DisplacementDisasm @@ Sh4LastDisasm

Sh4First == <<
  << <<"rm", "rn">>, Mask(\h0000, \hf00f) >>,
  << <<"s8", "rn">>, Mask(\h0000, \hf000) >>,
  << <<"u8">>, Mask(\h0000, \hff00) >>,
  << <<"rn">>, Mask(\h0000, \hf0ff) >>,
  << <<"dn">>, Mask(\h0000, \hf1ff) >>,
  << <<"dm", "dn">>, Mask(\h0000, \hf11f) >>,
  << <<"dm", "dn">>, Mask(\h0000, \hf00f) >>,
  << <<"fvm", "fvn">>, Mask(\h0000, \hf0ff) >>,
  << <<"xmtrx">>, Mask(\h0000, \hf3ff) >>,
  << <<"fpul_f">>, Mask(\h0000, \hf0ff) >>,
  << <<"fpul_d">>, Mask(\h0000, \hf1ff) >>,
  << <<"fr_m", "fr_n">>, Mask(\h0000, \hf00f) >>,
  << <<"dm", "fr_n">>, Mask(\h0000, \hf01f) >>,
  << <<"fr_m", "dn">>, Mask(\h0000, \hf10f) >>,
  << <<"special">>, Mask(\h0000, \hf0ff) >>,
  << <<"special", "bank">>, Mask(\h0000, \hf08f) >>
>>
Sh4Last == <<
  << <<"gbr_byte">>, Mask(\h0000, \hff00) >>,
  << <<"gbr_word">>, Mask(\h0000, \hff00) >>,
  << <<"gbr_long">>, Mask(\h0000, \hff00) >>,
  << <<"byte", "rm">>, Mask(\h0000, \hff00) >>,
  << <<"word", "rm">>, Mask(\h0000, \hff00) >>,
  << <<"rm", "long", "rn">>, Mask(\h0000, \hf000) >>,
  << <<"gbr_long", "rn">>, Mask(\h0000, \hf000) >>,
  << <<"gbr_word", "rn">>, Mask(\h0000, \hf000) >>,
  << <<"pc_word", "rn">>, Mask(\h0000, \hf000) >>,
  << <<"at_rn">>, Mask(\h0000, \hf0ff) >>,
  << <<"bank", "at_rn">>, Mask(\h0000, \hf08f) >>,
  << <<"trap">>, Mask(\h0000, \hff00) >>
>>
Sh4Forms == FormsOf(Sh4Asm, Sh4Disasm, Sh4First) \o FormsOf(Sh4Asm, Sh4Disasm, Sh4Last)

(* Cell, the synergistic processors.                                        *)
CellOffsetAsm == [s10_16 |-> Aligned(16, Number(-8192, 8191, {<<4, 10, 14>>}))]
CellNumberAsm ==
  [s10 |-> Number(-512, 511, At(14, 10)), u10 |-> Number(0, 1023, At(14, 10)),
   u7 |-> Number(0, 127, At(14, 7)), s6 |-> Number(-64, 63, At(14, 7))]
CellRegisterAsm ==
  [rt |-> Register(0, 7), ra |-> Register(7, 7), rb |-> Register(14, 7), rt4 |-> Register(21, 7)]
CellAddressAsm ==
  [address |-> Aligned(4, Number(0, 262143, {<<2, 16, 7>>})),
   relative |-> Aligned(4, Number(-131072, 131071, {<<2, 16, 7>>})),
   s16 |-> Number(-32768, 32767, At(7, 16)), u16 |-> Number(-32768, 65535, At(7, 16)),
   u18 |-> Number(0, 262143, At(7, 18))]
CellSmallAsm == [s7 |-> Number(-64, 63, At(14, 7))]
CellScaleAsm ==
  [scale155 |-> Back(Less(-155, Number(-155, 100, At(14, 8)))),
   scale173 |-> Back(Less(-173, Number(-173, 82, At(14, 8)))),
   u14 |-> Number(0, 16383, At(0, 14)), channel |-> Number(0, 127, At(7, 7))]
CellsAsm ==
  CellOffsetAsm @@ CellNumberAsm @@ CellRegisterAsm @@ CellAddressAsm @@ CellSmallAsm
    @@ CellScaleAsm

CellFirstDisasm ==
  [rt |-> ReadsField(0, 7), ra |-> ReadsField(7, 7), rb |-> ReadsField(14, 7),
   s10_16 |-> Reads(13, {<<4, 10, 14>>}), s10 |-> Loose(ReadsField(14, 10)),
   u10 |-> ReadsField(14, 10), u7 |-> ReadsField(14, 7), s6 |-> Reads(6, At(14, 7)),
   rt4 |-> ReadsField(21, 7), address |-> Reads(Unsigned, {<<2, 16, 7>>}),
   relative |-> Reads(17, {<<2, 16, 7>>})]
CellLastDisasm ==
  [s16 |-> Reads(15, At(7, 16)), u16 |-> ReadsField(7, 16), u18 |-> ReadsField(7, 18),
   s7 |-> Reads(6, At(14, 7)), scale155 |-> Back(Less(-155, ReadsField(14, 8))),
   scale173 |-> Back(Less(-173, ReadsField(14, 8))), u14 |-> ReadsField(0, 14),
   channel |-> ReadsField(7, 7)]
CellsDisasm == CellFirstDisasm @@ CellLastDisasm

CellFirst == <<
  << <<"rt", "s10_16", "ra">>, Mask(\hff00, \h0000) >>,
  << <<"rt", "ra", "rb">>, Mask(\hffe0, \h0000) >>,
  << <<"rt", "s7", "ra">>, Mask(\hffe0, \h0000) >>,
  << <<"rt", "address">>, Mask(\hff80, \h0000) >>,
  << <<"rt", "relative">>, Mask(\hff80, \h0000) >>,
  << <<"rt", "s16">>, Mask(\hff80, \h0000) >>,
  << <<"rt", "u16">>, Mask(\hff80, \h0000) >>,
  << <<"rt", "u18">>, Mask(\hfe00, \h0000) >>,
  << <<"rt", "ra", "s10">>, Mask(\hff00, \h0000) >>,
  << <<"rt", "ra">>, Mask(\hffe0, \h0000) >>,
  << <<"rt4", "ra", "rb", "rt">>, Mask(\hf000, \h0000) >>
>>
CellLast == <<
  << <<"rt", "ra", "u7">>, Mask(\hffe0, \h0000) >>,
  << <<"rt", "ra", "s6">>, Mask(\hffe0, \h0000) >>,
  << <<"ra", "rb">>, Mask(\hffe0, \h0000) >>,
  << <<"ra">>, Mask(\hffe0, \h0000) >>,
  << <<"rt">>, Mask(\hffe0, \h0000) >>,
  << <<"address">>, Mask(\hff80, \h0000) >>,
  << <<"rt", "ra", "scale155">>, Mask(\hffc0, \h0000) >>,
  << <<"rt", "ra", "scale173">>, Mask(\hffc0, \h0000) >>,
  << <<"u14">>, Mask(\hffe0, \h0000) >>,
  << <<"rt", "channel">>, Mask(\hffe0, \h0000) >>,
  << <<"channel", "rt">>, Mask(\hffe0, \h0000) >>
>>
CellForms == FormsOf(CellsAsm, CellsDisasm, CellFirst) \o FormsOf(CellsAsm, CellsDisasm, CellLast)

(* Epiphany.  Of the registers rd, rn and rm of an instruction of 32 bits    *)
(* the upper three bits lie 16 bits above the lower ones.                   *)
EpiphanyBranchAsm ==
  [branch |-> Even(Offset(0, -256, 255, {<<1, 8, 8>>})),
   far |-> Even(Offset(0, -16777216, 16777215, {<<1, 24, 8>>}))]
EpiphanyCombo ==
  [d |-> Register(13, 3), n |-> Register(10, 3), m |-> Register(7, 3),
   rd |-> Number(0, 63, {<<0, 3, 13>>, <<3, 3, 29>>}),
   rn |-> Number(0, 63, {<<0, 3, 10>>, <<3, 3, 26>>}),
   rm |-> Number(0, 63, {<<0, 3, 7>>, <<3, 3, 23>>})]
EpiphanyMemoryAsm == [disp3 |-> Number(0, 7, At(7, 3)), minus |-> Number(0, 1, At(20, 1))]
EpiphanyImmediateAsm ==
  [imm8 |-> Number(0, 255, At(5, 8)), imm16 |-> Number(-32768, 65535, {<<0, 8, 5>>, <<8, 8, 20>>}),
   imm3 |-> Number(-4, 3, At(7, 3)), imm11 |-> Number(-1024, 1023, {<<0, 3, 7>>, <<3, 8, 16>>}),
   imm5 |-> Number(0, 31, At(5, 5))]
EpiphanySpecialAsm ==
  [special |-> Aligned(4, Less(984064, Number(984064, 984095, {<<2, 3, 10>>})))]
EpiphanyAsm ==
  EpiphanyBranchAsm @@ EpiphanyCombo @@ EpiphanyMemoryAsm @@ EpiphanyImmediateAsm
    @@ EpiphanySpecialAsm

EpiphanyFirstDisasm ==
  [d |-> ReadsField(13, 3), n |-> ReadsField(10, 3), m |-> ReadsField(7, 3),
   rd |-> Reads(Unsigned, {<<0, 3, 13>>, <<3, 3, 29>>}),
   rn |-> Reads(Unsigned, {<<0, 3, 10>>, <<3, 3, 26>>}),
   rm |-> Reads(Unsigned, {<<0, 3, 7>>, <<3, 3, 23>>}),
   branch |-> Shows(0, 8, {<<1, 8, 8>>}), far |-> Shows(0, 24, {<<1, 24, 8>>}),
   disp3 |-> ReadsField(7, 3), minus |-> ReadsField(20, 1)]
EpiphanyLastDisasm ==
  [imm8 |-> ReadsField(5, 8), imm16 |-> Reads(Unsigned, {<<0, 8, 5>>, <<8, 8, 20>>}),
   imm3 |-> Reads(2, At(7, 3)), imm11 |-> Reads(10, {<<0, 3, 7>>, <<3, 8, 16>>}),
   imm5 |-> ReadsField(5, 5), special |-> Less(984064, Reads(Unsigned, {<<2, 3, 10>>}))]
EpiphanyDisasm == EpiphanyFirstDisasm @@ EpiphanyLastDisasm

EpiphanyFirst == <<
  << <<"branch">>, Mask(\h0000, \h00ff) >>,
  << <<"far">>, Mask(\h0000, \h00ff) >>,
  << <<"d", "n", "disp3">>, Mask(\h0000, \h007f) >>,
  << <<"d", "n", "m">>, Mask(\h0000, \h007f) >>,
  << <<"rd", "rn", "rm", "minus">>, Mask(\h006f, \h007f) >>,
  << <<"rd", "imm16">>, Mask(\h100f, \h001f) >>,
  << <<"d", "imm8">>, Mask(\h0000, \h001f) >>
>>
EpiphanyLast == <<
  << <<"d", "n", "imm3">>, Mask(\h0000, \h007f) >>,
  << <<"rd", "rn", "imm11">>, Mask(\h0300, \h001f) >>,
  << <<"d", "n", "imm5">>, Mask(\h0000, \h001f) >>,
  << <<"rd", "rn", "imm5">>, Mask(\h03ff, \h001f) >>,
  << <<"d", "n">>, Mask(\h0000, \h03ff) >>,
  << <<"rd", "rn">>, Mask(\h03ff, \h03ff) >>,
  << <<"rd", "rn", "rm">>, Mask(\h007f, \h007f) >>,
  << <<"n">>, Mask(\h0000, \he3ff) >>,
  << <<"rn">>, Mask(\he3ff, \he3ff) >>,
  << <<"special", "d">>, Mask(\h0000, \h03ff) >>,
  << <<"d", "special">>, Mask(\h0000, \h03ff) >>
>>
EpiphanyForms ==
  FormsOf(EpiphanyAsm, EpiphanyDisasm, EpiphanyFirst)
    \o FormsOf(EpiphanyAsm, EpiphanyDisasm, EpiphanyLast)

(* Thumb.  Of a register r8 to r15 the number's upper bit lies by itself.    *)
ThumbHigh(to, upper) == Number(8, 15, {<<0, 3, to>>, <<3, 1, upper>>})
ThumbShiftAsm ==
  [rd |-> Register(0, 3), rs |-> Register(3, 3), rn |-> Register(6, 3),
   shift |-> Number(0, 31, At(6, 5))]
ThumbRegisterAsm ==
  [rd8 |-> Register(8, 3), imm8 |-> Number(-128, 255, At(0, 8)), rd4 |-> Register(0, 3),
   rs4 |-> Register(3, 3), hd |-> ThumbHigh(0, 7), hs |-> ThumbHigh(3, 6), bx |-> Register(3, 4)]
ThumbLoadAsm ==
  [word8 |-> Aligned(4, Number(0, 1020, {<<2, 8, 0>>})),
   word5 |-> Aligned(4, Number(0, 124, {<<2, 5, 6>>})), byte5 |-> Number(0, 31, At(6, 5)),
   half5 |-> Even(Number(0, 60, {<<1, 5, 6>>}))]
ThumbListAsm == [list |-> Number(0, 255, At(0, 8))]
ThumbAddressAsm == [last |-> Number(0, 1, At(8, 1))]
ThumbNumberAsm == [swi |-> Number(0, 255, At(0, 8))]
ThumbSystemAsm ==
  [imm |-> Number(0, 255, At(0, 8)), mrs_rd |-> Register(24, 3)]
ThumbSpecialAsm == [special |-> Number(0, 20, At(16, 8))]
ThumbCpsAsm == [flags |-> Number(0, 3, At(0, 2))]
ThumbAsm ==
  ThumbShiftAsm @@ ThumbRegisterAsm @@ ThumbLoadAsm @@ ThumbListAsm @@ ThumbAddressAsm
    @@ ThumbNumberAsm @@ ThumbSystemAsm @@ ThumbSpecialAsm @@ ThumbCpsAsm

ThumbFirstDisasm ==
  LET high(to, upper) == Loose(Reads(Unsigned, {<<0, 3, to>>, <<3, 1, upper>>}))
  IN [rd |-> ReadsField(0, 3), rs |-> ReadsField(3, 3), rn |-> ReadsField(6, 3),
      shift |-> ReadsField(6, 5), rd8 |-> ReadsField(8, 3), imm8 |-> ReadsField(0, 8),
      rd4 |-> high(0, 7), rs4 |-> high(3, 6), hd |-> high(0, 7), hs |-> high(3, 6),
      bx |-> ReadsField(3, 4), word8 |-> Reads(Unsigned, {<<2, 8, 0>>}),
      word5 |-> Reads(Unsigned, {<<2, 5, 6>>}), byte5 |-> ReadsField(6, 5),
      half5 |-> Loose(Reads(Unsigned, {<<1, 5, 6>>})), list |-> ReadsField(0, 8),
      last |-> ReadsField(8, 1)]
ThumbLastDisasm ==
  [swi |-> ReadsField(0, 8), imm |-> ReadsField(0, 8), mrs_rd |-> Loose(ReadsField(24, 4)),
   special |-> Loose(ReadsField(16, 8)), flags |-> ReadsField(0, 2)]
ThumbDisasm == ThumbFirstDisasm @@ ThumbLastDisasm

ThumbRows == <<
  << <<"rd", "rs", "shift">>, Mask16(\hf800) >>,
  << <<"rd", "rs", "rn">>, Mask16(\hfe00) >>,
  << <<"rd8", "imm8">>, Mask16(\hf800) >>,
  << <<"rd", "rs">>, Mask16(\hffc0) >>,
  << <<"hd", "rs4">>, Mask16(\hff00) >>,
  << <<"rd4", "hs">>, Mask16(\hff00) >>,
  << <<"hd", "hs">>, Mask16(\hff00) >>,
  << <<"bx">>, Mask16(\hff80) >>,
  << <<"rd8", "word8">>, Mask16(\hf800) >>,
  << <<"rd", "rs", "word5">>, Mask16(\hf800) >>,
  << <<"rd", "rs", "byte5">>, Mask16(\hf800) >>,
  << <<"rd", "rs", "half5">>, Mask16(\hf800) >>,
  << <<"list", "last">>, Mask16(\hfe00) >>,
  << <<"rd8", "list">>, Mask16(\hf800) >>,
  << <<"swi">>, Mask16(\hff00) >>,
  << <<"imm">>, Mask16(\hff00) >>,
  << <<"flags">>, Mask16(\hffe0) >>,
  << <<"mrs_rd", "special">>, Mask(\hf000, \hffff) >>
>>
ThumbForms == FormsOf(ThumbAsm, ThumbDisasm, ThumbRows)

(* ARM.  The kind of a shift, the instruction's modes and the sign of an     *)
(* offset lie in bits of their own.                                         *)
ArmRegister(to) == Register(to, 4)
ArmConditionAsm == [cond |-> Register(28, 4)]
ArmImmediateAsm == [imm8 |-> Number(0, 255, At(0, 8)), rotate |-> Even(Number(0, 30, {<<1, 4, 8>>}))]
ArmThreeAsm ==
  [s |-> Register(20, 1), rd |-> ArmRegister(12), rn |-> ArmRegister(16), rm |-> ArmRegister(0),
   by_register |-> ArmRegister(8)]
ArmShiftAsm == [by |-> Number(0, 31, At(7, 5))]
ArmTwoAsm == [rd_or_rn |-> ArmRegister(12)]
ArmBranchAsm == [branch |-> Aligned(4, Offset(8, -16777216, 16777215, {<<2, 24, 0>>}))]
ArmExchangeAsm == [bx |-> ArmRegister(0)]
ArmTransferAsm ==
  [byte |-> Register(22, 1), up |-> Register(23, 1), offset |-> Number(0, 4095, At(0, 12))]
ArmIndexedAsm ==
  [back |-> Register(21, 1), base |-> ArmRegister(16), data |-> ArmRegister(12),
   index |-> ArmRegister(0)]
ArmMultipleAsm == [user |-> Register(22, 1)]
ArmListAsm == [list |-> Number(0, 65535, At(0, 16))]
ArmAsm ==
  ArmConditionAsm @@ ArmImmediateAsm @@ ArmThreeAsm @@ ArmShiftAsm @@ ArmTwoAsm @@ ArmBranchAsm
    @@ ArmExchangeAsm @@ ArmTransferAsm @@ ArmIndexedAsm @@ ArmMultipleAsm @@ ArmListAsm

ArmShiftDisasm ==
  [rm |-> ReadsField(0, 4), by |-> ReadsField(7, 5), by_register |-> ReadsField(8, 4)]
ArmListDisasm == [list |-> ReadsField(0, 16)]
ArmThreeDisasm ==
  [cond |-> ReadsField(28, 4), s |-> ReadsField(20, 1), rd |-> ReadsField(12, 4),
   rn |-> ReadsField(16, 4), imm8 |-> ReadsField(0, 8), rotate |-> Reads(Unsigned, {<<1, 4, 8>>})]
ArmTwoDisasm == [rd_or_rn |-> ReadsField(12, 4)]
ArmTransferDisasm ==
  [byte |-> ReadsField(22, 1), up |-> ReadsField(23, 1), offset |-> ReadsField(0, 12),
   back |-> ReadsField(21, 1), base |-> ReadsField(16, 4), data |-> ReadsField(12, 4),
   index |-> ReadsField(0, 4)]
ArmMultipleDisasm == [user |-> ReadsField(22, 1)]
ArmBranchDisasm == [branch |-> Loose(Shows(8, 25, {<<2, 24, 0>>})), bx |-> ReadsField(0, 4)]
ArmDisasm ==
  ArmShiftDisasm @@ ArmListDisasm @@ ArmThreeDisasm @@ ArmTwoDisasm @@ ArmTransferDisasm
    @@ ArmMultipleDisasm @@ ArmBranchDisasm

ArmRows == <<
  << <<"cond", "bx">>, Mask(\h0fff, \hfff0) >>,
  << <<"cond", "s", "rd", "rn", "rm">>, Mask(\h0fe0, \h0ff0) >>,
  << <<"cond", "s", "rd", "rn", "rm", "by">>, Mask(\h0fe0, \h0070) >>,
  << <<"cond", "s", "rd", "rn", "rm", "by_register">>, Mask(\h0fe0, \h00f0) >>,
  << <<"cond", "s", "rd", "rn", "imm8", "rotate">>, Mask(\h0fe0, \h0000) >>,
  << <<"cond", "rn", "rm">>, Mask(\h0ff0, \h0000) >>,
  << <<"cond", "rn", "imm8", "rotate">>, Mask(\h0ff0, \h0000) >>,
  << <<"cond", "s", "rd_or_rn", "rm">>, Mask(\h0fe0, \h0000) >>,
  << <<"cond", "s", "rd_or_rn", "imm8", "rotate">>, Mask(\h0fe0, \h0000) >>,
  << <<"cond", "byte", "data", "base", "up", "offset">>, Mask(\h0f30, \h0000) >>,
  << <<"cond", "byte", "data", "base", "index">>, Mask(\h0f30, \h0ff0) >>,
  << <<"cond", "byte", "back", "data", "base", "index", "by">>, Mask(\h0f10, \h0070) >>,
  << <<"cond", "byte", "back", "data", "base", "index", "by_register">>, Mask(\h0f10, \h00f0) >>,
  << <<"cond", "byte", "back", "data", "base", "up", "offset">>, Mask(\h0f10, \h0000) >>,
  << <<"cond", "base", "list", "user">>, Mask(\h0fb0, \h0000) >>,
  << <<"cond", "branch">>, Mask(\h0f00, \h0000) >>
>>
ArmForms == FormsOf(ArmAsm, ArmDisasm, ArmRows)

(* SPARC. *)
SparcAsm ==
  [rd |-> Register(25, 5), rs_1 |-> Register(14, 5), rs_2 |-> Register(0, 5),
   simm13 |-> Number(-4096, 4095, At(0, 13))]
SparcDisasm ==
  [rd |-> ReadsField(25, 5), rs_1 |-> ReadsField(14, 5), rs_2 |-> ReadsField(0, 5),
   simm13 |-> Reads(12, At(0, 13))]
SparcRows == <<
  << <<"rd", "rs_2", "rs_1">>, Mask(\hc1f8, \h3fe0) >>,
  << <<"rd", "simm13", "rs_1">>, Mask(\hc1f8, \h2000) >>
>>
SparcForms == FormsOf(SparcAsm, SparcDisasm, SparcRows)

RiscOperandsForms == PpcForms \o Arm64Forms \o XtensaForms \o Sh4Forms \o CellForms
    \o EpiphanyForms \o ThumbForms \o ArmForms \o SparcForms
=============================================================================
