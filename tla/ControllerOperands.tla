------------------------- MODULE ControllerOperands -------------------------
(***************************************************************************)
(* The operands of microcontrollers and signal processors, by the kinds    *)
(* that the rows of table/*.cpp and both switches, the assembler's and the *)
(* disassembler's, name.                                                   *)
(***************************************************************************)
EXTENDS Codes, Sequences, TLC

(* dsPIC.  A register that is used to address memory has its mode as one   *)
(* more operand, [w1+w2] is left out; byte is the suffix .b.               *)
DspicFileAsm ==
  [f |-> Even(Number(0, 65535, At(0, 16))), near |-> Even(Number(0, 8191, At(0, 13))),
   wreg |-> Number(0, 1, At(13, 1)), byte |-> Number(0, 1, At(14, 1))]
DspicAccumulatorAsm ==
  [acc |-> Number(0, 1, At(15, 1)), round |-> Number(0, 1, At(16, 1)),
   lit4 |-> Number(-8, 7, At(7, 4)), lit6 |-> Number(-16, 16, At(0, 6))]
DspicDoubleAsm ==
  [wnsd |-> Even(Number(0, 14, {<<1, 3, 1>>})), wndd |-> Even(Number(0, 14, {<<1, 3, 8>>})),
   wdd |-> Even(Register(7, 4)), near_byte |-> Number(0, 8191, At(0, 13)),
   bit3 |-> Number(0, 7, At(13, 3))]
DspicBitAsm ==
  [bit4 |-> Number(0, 15, At(12, 4)), z |-> Number(0, 1, At(11, 1)),
   far |-> Even(Number(0, 65534, {<<1, 15, 4>>})),
   lit1 |-> Number(0, 1, At(0, 1)), lit10 |-> Number(0, 1023, At(4, 10)),
   lit14 |-> Number(0, 16383, At(0, 14))]
DspicLiteralAsm ==
  [lit16 |-> Number(-32768, 65535, At(4, 16)), lit8 |-> Number(-128, 255, At(4, 8)),
   lnk |-> Even(Number(0, 16382, At(0, 14)))]
DspicThreeAsm ==
  [wb |-> Register(11, 4), wb15 |-> Register(15, 4), wm |-> Register(7, 4),
   lit5 |-> Number(0, 31, At(0, 5)), ulit4 |-> Number(0, 15, At(0, 4)),
   byte10 |-> Number(0, 1, At(10, 1))]
DspicModeAsm ==
  [ws |-> Register(0, 4), pp |-> Number(0, 5, At(4, 3)), wd |-> Register(7, 4),
   qq |-> Number(0, 5, At(11, 3))]
DspicOffsetAsm ==
  [slit10 |-> Number(-512, 511, {<<0, 3, 4>>, <<3, 3, 11>>, <<6, 4, 15>>}),
   slit11 |-> Even(Number(-1024, 1022, {<<1, 3, 4>>, <<4, 3, 11>>, <<7, 4, 15>>}))]
DspicAsm ==
  DspicFileAsm @@ DspicAccumulatorAsm @@ DspicDoubleAsm @@ DspicBitAsm @@ DspicLiteralAsm
    @@ DspicThreeAsm @@ DspicModeAsm @@ DspicOffsetAsm

DspicFirstDisasm ==
  [f |-> Loose(ReadsField(0, 16)), near |-> Loose(ReadsField(0, 13)), wreg |-> ReadsField(13, 1),
   byte |-> ReadsField(14, 1), acc |-> ReadsField(15, 1), round |-> ReadsField(16, 1),
   lit4 |-> Reads(3, At(7, 4)), lit6 |-> Loose(Reads(5, At(0, 6))),
   wnsd |-> Reads(Unsigned, {<<1, 3, 1>>}), wndd |-> Reads(Unsigned, {<<1, 3, 8>>}),
   wdd |-> Loose(ReadsField(7, 4)), near_byte |-> ReadsField(0, 13),
   bit3 |-> ReadsField(13, 3), bit4 |-> ReadsField(12, 4), z |-> ReadsField(11, 1),
   far |-> Loose(Reads(Unsigned, {<<1, 19, 4>>}))]
DspicMiddleDisasm ==
  [lit1 |-> ReadsField(0, 1), lit10 |-> ReadsField(4, 10), lit14 |-> ReadsField(0, 14),
   lit16 |-> ReadsField(4, 16), lit8 |-> ReadsField(4, 8), lnk |-> Loose(ReadsField(0, 14)),
   wb |-> ReadsField(11, 4), wm |-> ReadsField(7, 4), lit5 |-> ReadsField(0, 5)]
DspicLastDisasm ==
  [ulit4 |-> ReadsField(0, 4), byte10 |-> ReadsField(10, 1), wb15 |-> ReadsField(15, 4),
   ws |-> ReadsField(0, 4), pp |-> Loose(ReadsField(4, 3)), wd |-> ReadsField(7, 4),
   qq |-> Loose(ReadsField(11, 3)),
   slit10 |-> Reads(9, {<<0, 3, 4>>, <<3, 3, 11>>, <<6, 4, 15>>}),
   slit11 |-> Reads(10, {<<1, 3, 4>>, <<4, 3, 11>>, <<7, 4, 15>>})]
DspicDisasm == DspicFirstDisasm @@ DspicMiddleDisasm @@ DspicLastDisasm

DspicFirst == <<
  << <<"near", "wreg", "byte">>, Mask(\h00ff, \h8000) >>,
  << <<"lit10", "ws", "byte">>, Mask(\h00ff, \h8000) >>,
  << <<"wb15", "lit5", "wd", "qq", "byte">>, Mask(\h00f8, \h0060) >>,
  << <<"wb15", "ws", "pp", "wd", "qq", "byte">>, Mask(\h00f8, \h0000) >>,
  << <<"acc">>, Mask(\h00ff, \h7fff) >>,
  << <<"ws", "pp", "lit4", "acc">>, Mask(\h00ff, \h0000) >>,
  << <<"ws", "pp", "wd", "qq", "byte">>, Mask(\h00ff, \h8000) >>,
  << <<"wb", "ulit4", "wd">>, Mask(\h00ff, \h8070) >>,
  << <<"wb", "ws", "wd">>, Mask(\h00ff, \h8070) >>,
  << <<"near_byte", "bit3">>, Mask(\h00ff, \h0000) >>,
  << <<"ws", "pp", "bit4">>, Mask(\h00ff, \h0b80) >>,
  << <<"ws">>, Mask(\h00ff, \hfff0) >>,
  << <<"ws", "pp", "bit4", "z">>, Mask(\h00ff, \h0780) >>,
  << <<"ws", "pp", "wb">>, Mask(\h00ff, \h0780) >>,
  << <<"wd", "qq", "byte">>, Mask(\h00ff, \h807f) >>,
  << <<"near", "byte">>, Mask(\h00ff, \ha000) >>,
  << <<"wb", "lit5", "byte10">>, Mask(\h00ff, \h83e0) >>,
  << <<"wb", "ws", "pp", "byte10">>, Mask(\h00ff, \h8380) >>,
  << <<"wb", "ws", "byte10">>, Mask(\h00ff, \h83f0) >>,
  << <<"lit14">>, Mask(\h00ff, \hc000) >>,
  << <<"wm", "ws">>, Mask(\h00ff, \h8030) >>,
  << <<"ws", "wd">>, Mask(\h00ff, \hf870) >>,
  << <<"ws", "pp", "wd">>, Mask(\h00ff, \hf800) >>
>>
DspicLast == <<
  << <<"lnk">>, Mask(\h00ff, \hc001) >>,
  << <<"far", "ws">>, Mask(\h00f8, \h0000) >>,
  << <<"ws", "far">>, Mask(\h00f8, \h0000) >>,
  << <<"lit8", "ws">>, Mask(\h00ff, \hf000) >>,
  << <<"lit16", "ws">>, Mask(\h00f0, \h0000) >>,
  << <<"ws", "wd", "slit10">>, Mask(\h00f8, \h4000) >>,
  << <<"ws", "wd", "slit11">>, Mask(\h00f8, \h4000) >>,
  << <<"ws", "pp", "wndd">>, Mask(\h00ff, \hf880) >>,
  << <<"wnsd", "wd", "qq">>, Mask(\h00ff, \hc071) >>,
  << <<"wb", "ws", "pp", "wdd">>, Mask(\h00ff, \h8000) >>,
  << <<"wb", "lit5", "wdd">>, Mask(\h00ff, \h8060) >>,
  << <<"f">>, Mask(\h00ff, \h0001) >>,
  << <<"wndd">>, Mask(\h00ff, \hf8ff) >>,
  << <<"wnsd">>, Mask(\h00ff, \hfff1) >>,
  << <<"lit1">>, Mask(\h00ff, \hfffe) >>,
  << <<"acc", "lit4", "ws", "pp", "round">>, Mask(\h00fe, \h0000) >>,
  << <<"acc", "lit6">>, Mask(\h00ff, \h7fc0) >>,
  << <<"acc", "ws">>, Mask(\h00ff, \h7ff0) >>,
  << <<"ws", "byte">>, Mask(\h00ff, \hbff0) >>
>>
DspicForms == FormsOf(DspicAsm, DspicDisasm, DspicFirst) \o FormsOf(DspicAsm, DspicDisasm, DspicLast)

(* Propeller 2.  i and l are the bits that tell # from a register, cond    *)
(* the condition before the name, wz and wc the flags behind the operands.  *)
Propeller2Numbers ==
  [d |-> Number(0, 511, At(9, 9)), d_d |-> Number(0, 511, {<<0, 9, 9>>, <<0, 9, 0>>}),
   num_d |-> Number(-256, 511, At(9, 9)), s |-> Number(0, 511, At(0, 9)),
   num_s |-> Number(-256, 511, At(0, 9)), i |-> Number(0, 1, At(18, 1)),
   l |-> Number(0, 1, At(19, 1))]
Propeller2Pointed ==
  [sp |-> Number(0, 255, At(0, 8)), p_sp |-> Number(0, 1, At(7, 1))]
Propeller2Small ==
  [n_1 |-> Number(0, 1, At(19, 1)), n_2 |-> Number(0, 3, At(19, 2)), n_3 |-> Number(0, 7, At(19, 3))]
Propeller2Rest ==
  [branch |-> [Offset(1, -256, 255, At(0, 9)) EXCEPT !.unit = 4],
   p |-> Register(21, 2), c |-> Number(0, 15, At(13, 4)), z |-> Number(0, 15, At(9, 4))]
Propeller2Effects ==
  [wz |-> Number(0, 1, At(19, 1)), wc |-> Number(0, 1, At(20, 1)), cond |-> Number(0, 15, At(28, 4))]
Propeller2Steps ==
  [index |-> Number(-32, 31, At(0, 6)), down |-> Back(Less(-16, Number(-16, -1, At(0, 4))))]
Propeller2Asm ==
  Propeller2Numbers @@ Propeller2Pointed @@ Propeller2Small @@ Propeller2Rest
    @@ Propeller2Effects @@ Propeller2Steps

Propeller2FirstDisasm ==
  [cond |-> ReadsField(28, 4), wz |-> ReadsField(19, 1), wc |-> ReadsField(20, 1),
   i |-> ReadsField(18, 1), l |-> ReadsField(19, 1), d |-> ReadsField(9, 9),
   d_d |-> ReadsField(9, 9), num_d |-> ReadsField(9, 9), s |-> ReadsField(0, 9),
   num_s |-> ReadsField(0, 9)]
Propeller2PointedDisasm ==
  [sp |-> ReadsField(0, 8), p_sp |-> ReadsField(7, 1), index |-> Loose(ReadsField(0, 6)),
   down |-> Back(Less(-16, ReadsField(0, 4)))]
Propeller2LastDisasm ==
  [n_1 |-> ReadsField(19, 1), n_2 |-> ReadsField(19, 2), n_3 |-> ReadsField(19, 3),
   branch |-> [Shows(1, 8, At(0, 9)) EXCEPT !.unit = 4], p |-> ReadsField(21, 2),
   c |-> ReadsField(13, 4), z |-> ReadsField(9, 4)]
Propeller2Disasm ==
  Propeller2FirstDisasm @@ Propeller2PointedDisasm @@ Propeller2LastDisasm

Propeller2First == <<
  << <<"cond", "d", "s", "i", "wz", "wc">>, Mask(\h0fe0, \h0000) >>,
  << <<"cond", "d", "num_s", "i", "wz", "wc">>, Mask(\h0fe0, \h0000) >>,
  << <<"cond", "d", "num_s", "i", "wc">>, Mask(\h0fe8, \h0000) >>,
  << <<"cond", "d", "num_s", "i", "wz">>, Mask(\h0ff0, \h0000) >>,
  << <<"cond", "d", "num_s", "i">>, Mask(\h0ff8, \h0000) >>,
  << <<"cond", "d", "num_s", "i", "n_1">>, Mask(\h0ff0, \h0000) >>,
  << <<"cond", "d", "num_s", "i", "n_2">>, Mask(\h0fe0, \h0000) >>,
  << <<"cond", "d", "num_s", "i", "n_3">>, Mask(\h0fc0, \h0000) >>,
  << <<"cond", "num_s">>, Mask(\h0ffb, \hfe00) >>,
  << <<"cond", "d_d", "wz", "wc">>, Mask(\h0fe4, \h0000) >>,
  << <<"cond", "d_d">>, Mask(\h0ffc, \h0000) >>,
  << <<"cond", "d", "branch">>, Mask(\h0ff8, \h0000) >>,
  << <<"cond", "num_d", "l", "branch">>, Mask(\h0ff0, \h0000) >>
>>
Propeller2Middle == <<
  << <<"cond", "num_d", "l", "num_s", "i">>, Mask(\h0ff0, \h0000) >>,
  << <<"cond", "num_d", "l", "num_s", "i", "wc">>, Mask(\h0fe0, \h0000) >>,
  << <<"cond", "num_d", "l", "sp", "i">>, Mask(\h0ff0, \h0000) >>,
  << <<"cond", "d", "p_sp", "i", "wz", "wc">>, Mask(\h0fe0, \h0000) >>,
  << <<"cond", "d", "p_sp", "index", "i", "wz", "wc">>, Mask(\h0fe0, \h0100) >>,
  << <<"cond", "d", "p_sp", "down", "i", "wz", "wc">>, Mask(\h0fe0, \h0170) >>,
  << <<"cond", "d", "sp", "i">>, Mask(\h0ff8, \h0000) >>,
  << <<"cond", "num_d">>, Mask(\h0ff4, \h01ff) >>,
  << <<"cond", "num_d", "i">>, Mask(\h0ff8, \h01ff) >>,
  << <<"cond", "num_d", "i", "wc">>, Mask(\h0fe8, \h01ff) >>,
  << <<"cond", "d">>, Mask(\h0ffc, \h01ff) >>
>>
Propeller2Last == <<
  << <<"cond", "num_d", "i", "wz", "wc">>, Mask(\h0fe0, \h01ff) >>,
  << <<"cond", "branch">>, Mask(\h0ffb, \hfe00) >>,
  << <<"cond", "d", "wc">>, Mask(\h0fec, \h01ff) >>,
  << <<"cond", "d", "wz", "wc">>, Mask(\h0fe4, \h01ff) >>,
  << <<"cond", "c", "z", "wz", "wc">>, Mask(\h0fe6, \h01ff) >>,
  << <<"cond", "c", "wc">>, Mask(\h0fee, \h1fff) >>,
  << <<"cond", "z", "wz">>, Mask(\h0ff7, \he1ff) >>,
  << <<"cond", "p">>, Mask(\h0f80, \h0000) >>
>>
Propeller2Forms ==
  FormsOf(Propeller2Asm, Propeller2Disasm, Propeller2First)
    \o FormsOf(Propeller2Asm, Propeller2Disasm, Propeller2Middle)
    \o FormsOf(Propeller2Asm, Propeller2Disasm, Propeller2Last)

(* AVR8.  ld and st name a pointer, which has no bits of its own; ldd and   *)
(* std add q to it.                                                         *)
Avr8NumbersAsm ==
  [rd |-> Register(4, 5), rr |-> [Register(0, 5) EXCEPT !.groups = {<<0, 4, 0>>, <<4, 1, 9>>}],
   upper |-> [Less(16, Number(16, 31, At(4, 4))) EXCEPT !.kind = "register"],
   byte |-> Number(-128, 255, {<<0, 4, 0>>, <<4, 4, 8>>}), bit |-> Number(0, 7, At(0, 3)),
   pair |-> [Aligned(2, Less(24, Number(24, 30, {<<1, 2, 4>>}))) EXCEPT !.kind = "register"],
   word |-> Number(0, 63, {<<0, 4, 0>>, <<4, 2, 6>>}), port |-> Number(0, 31, At(3, 5))]
Avr8InOutAsm == [io |-> Number(0, 63, {<<0, 4, 0>>, <<4, 2, 9>>})]
Avr8LoadAsm == [ld |-> Register(4, 5)]
Avr8StoreAsm == [st |-> Register(4, 5)]
Avr8RestAsm ==
  [f_d |-> Less(16, Number(16, 23, At(4, 3))), f_r |-> Less(16, Number(16, 23, At(0, 3))),
   m_d |-> Less(16, Number(16, 31, At(4, 4))), m_r |-> Less(16, Number(16, 31, At(0, 4))),
   des |-> Number(0, 15, At(4, 4)), sram |-> Number(0, 65535, At(16, 16)),
   q |-> Number(0, 63, {<<0, 3, 0>>, <<3, 2, 10>>, <<5, 1, 13>>})]
Avr8Asm == Avr8NumbersAsm @@ Avr8InOutAsm @@ Avr8LoadAsm @@ Avr8StoreAsm @@ Avr8RestAsm

Avr8NumbersDisasm ==
  [rd |-> ReadsField(4, 5), rr |-> Reads(Unsigned, {<<0, 4, 0>>, <<4, 1, 9>>}),
   upper |-> Less(16, ReadsField(4, 4)), byte |-> Reads(Unsigned, {<<0, 4, 0>>, <<4, 4, 8>>}),
   bit |-> ReadsField(0, 3), pair |-> Less(24, Reads(Unsigned, {<<1, 2, 4>>})),
   word |-> Reads(Unsigned, {<<0, 4, 0>>, <<4, 2, 6>>}), port |-> ReadsField(3, 5),
   io |-> Reads(Unsigned, {<<0, 4, 0>>, <<4, 2, 9>>})]
Avr8PointedDisasm == [ld |-> ReadsField(4, 5), st |-> ReadsField(4, 5)]
Avr8RestDisasm ==
  [f_d |-> Less(16, ReadsField(4, 3)), f_r |-> Less(16, ReadsField(0, 3)),
   m_d |-> Less(16, ReadsField(4, 4)), m_r |-> Less(16, ReadsField(0, 4)),
   des |-> ReadsField(4, 4), sram |-> ReadsField(16, 16),
   q |-> Reads(Unsigned, {<<0, 3, 0>>, <<3, 2, 10>>, <<5, 1, 13>>})]
Avr8Disasm == Avr8NumbersDisasm @@ Avr8PointedDisasm @@ Avr8RestDisasm

Avr8Rows == <<
  << <<"rd", "rr">>, Mask16(\hfc00) >>,
  << <<"upper", "byte">>, Mask16(\hf000) >>,
  << <<"rd">>, Mask16(\hfe0f) >>,
  << <<"rd", "bit">>, Mask16(\hfe08) >>,
  << <<"pair", "word">>, Mask16(\hff00) >>,
  << <<"port", "bit">>, Mask16(\hff00) >>,
  << <<"upper">>, Mask16(\hff0f) >>,
  << <<"rd", "io">>, Mask16(\hf800) >>,
  << <<"ld">>, Mask16(\hfe0f) >>,
  << <<"st">>, Mask16(\hfe0f) >>,
  << <<"f_d", "f_r">>, Mask16(\hff88) >>,
  << <<"m_d", "m_r">>, Mask16(\hff00) >>,
  << <<"des">>, Mask16(\hff0f) >>,
  << <<"rd", "sram">>, Mask16(\hfe0f) >>,
  << <<"ld", "q">>, Mask16(\hd208) >>,
  << <<"st", "q">>, Mask16(\hd208) >>
>>
Avr8Forms == FormsOf(Avr8Asm, Avr8Disasm, Avr8Rows)

(* LC-3.  nzp is in the name of a branch, which is none without it.         *)
Lc3WordsAsm ==
  [r_0 |-> Register(9, 3), r_1 |-> Register(6, 3), r_2 |-> Register(0, 3),
   imm5 |-> Number(-16, 15, At(0, 5))]
Lc3BranchAsm ==
  [nzp |-> [Number(1, 7, At(9, 3)) EXCEPT !.kind = "register"],
   label |-> Words(Offset(1, -256, 255, At(0, 9)))]
Lc3RestAsm == [offset6 |-> Number(-32, 31, At(0, 6)), vector |-> Number(0, 255, At(0, 8))]
Lc3WordsDisasm ==
  [r_0 |-> ReadsField(9, 3), r_1 |-> ReadsField(6, 3), r_2 |-> ReadsField(0, 3),
   imm5 |-> Reads(4, At(0, 5)), nzp |-> ReadsField(9, 3),
   label |-> Words(Shows(1, 8, At(0, 9)))]
Lc3RestDisasm == [offset6 |-> Reads(5, At(0, 6)), vector |-> ReadsField(0, 8)]
Lc3Rows == <<
  << <<"r_0", "r_1", "r_2">>, Mask16(\hf038) >>,
  << <<"r_0", "r_1", "imm5">>, Mask16(\hf020) >>,
  << <<"nzp", "label">>, Mask16(\hf000) >>,
  << <<"r_1">>, Mask16(\hfe3f) >>,
  << <<"r_0", "r_1", "offset6">>, Mask16(\hf000) >>,
  << <<"r_0", "r_1">>, Mask16(\hf03f) >>,
  << <<"vector">>, Mask16(\hff00) >>
>>
Lc3Forms ==
  FormsOf(Lc3WordsAsm @@ Lc3BranchAsm @@ Lc3RestAsm, Lc3WordsDisasm @@ Lc3RestDisasm, Lc3Rows)

(* PADAUK.  The sizes of the addresses of a port, a cell and an even cell.  *)
PdkAsm(port, cell, even) ==
  [io |-> Number(0, 2^port - 1, At(0, port)), m |-> Number(0, 2^cell - 1, At(0, cell)),
   even |-> Aligned(2, Number(0, 2^even - 1, At(0, even))), k |-> Number(-128, 255, At(0, 8))]
PdkDisasm(port, cell, even) ==
  [io |-> ReadsField(0, port), m |-> ReadsField(0, cell),
   even |-> Reads(Unsigned, {<<1, even - 1, 1>>}), k |-> ReadsField(0, 8)]
Pdk13Asm == PdkAsm(5, 6, 5)
Pdk13Disasm == PdkDisasm(5, 6, 5)
Pdk14Asm == PdkAsm(6, 7, 7)
Pdk14JumpAsm == [jump |-> Number(-1024, 2047, At(0, 11))]
Pdk14Disasm == PdkDisasm(6, 7, 7)
Pdk14JumpDisasm == [jump |-> ReadsField(0, 11)]
Pdk15Asm == PdkAsm(7, 8, 8)
Pdk15Disasm == PdkDisasm(7, 8, 8)
Pdk16Asm == PdkAsm(6, 9, 9)
Pdk16SmallAsm == [k_5 |-> Number(0, 31, At(0, 5)), k_4 |-> Number(0, 15, At(0, 4))]
Pdk16Disasm == PdkDisasm(6, 9, 9)
Pdk16SmallDisasm == [k_5 |-> ReadsField(0, 5), k_4 |-> ReadsField(0, 4)]
Pdk13Rows == <<
  << <<"io">>, Mask16(\hffe0) >>,
  << <<"m">>, Mask16(\hffc0) >>,
  << <<"even">>, Mask16(\hff81) >>,
  << <<"k">>, Mask16(\hff00) >>
>>
Pdk14Rows == <<
  << <<"io">>, Mask16(\hffc0) >>,
  << <<"m">>, Mask16(\hff80) >>,
  << <<"even">>, Mask16(\hff81) >>,
  << <<"k">>, Mask16(\hff00) >>,
  << <<"jump">>, Mask16(\hf800) >>
>>
Pdk15Rows == <<
  << <<"m">>, Mask16(\hff00) >>,
  << <<"even">>, Mask16(\hff01) >>,
  << <<"k">>, Mask16(\hff00) >>
>>
Pdk16Rows == <<
  << <<"io">>, Mask16(\hffc0) >>,
  << <<"m">>, Mask16(\hfe00) >>,
  << <<"even">>, Mask16(\hfe01) >>,
  << <<"k">>, Mask16(\hff00) >>,
  << <<"k_5">>, Mask16(\hffe0) >>,
  << <<"k_4">>, Mask16(\hfff0) >>
>>
PdkForms ==
  FormsOf(Pdk13Asm, Pdk13Disasm, Pdk13Rows)
    \o FormsOf(Pdk14Asm @@ Pdk14JumpAsm, Pdk14Disasm @@ Pdk14JumpDisasm, Pdk14Rows)
    \o FormsOf(Pdk15Asm, Pdk15Disasm, Pdk15Rows)
    \o FormsOf(Pdk16Asm @@ Pdk16SmallAsm, Pdk16Disasm @@ Pdk16SmallDisasm, Pdk16Rows)

(* STM8.  A number, known in pass 1, has the size that it needs.  It lies   *)
(* behind the opcode, and that behind the prefix if there is one, p.        *)
Stm8ShortAsm(n) == Number(-128, 255, Operand(n))
Stm8WordAsm(n) == Number(-32768, 65535, HighThenLow(n))
Stm8ExtendedAsm(n) ==
  Number(-8388608, 16777215, {<<16, 8, 8 * n>>, <<8, 8, 8 * n + 8>>, <<0, 8, 8 * n + 16>>})
Stm8AddressAsm(p) ==
  [address8 |-> <<Stm8ShortAsm(1 + p)>>, address16 |-> <<Stm8WordAsm(1 + p)>>,
   address24 |-> <<Stm8ExtendedAsm(1 + p)>>]
Stm8OffsetAsm(p) ==
  [offset8 |-> <<Stm8ShortAsm(1 + p)>>, offset16 |-> <<Stm8WordAsm(1 + p)>>]
Stm8IndexedAsm(p) == Stm8OffsetAsm(p) @@ [offset24 |-> <<Stm8ExtendedAsm(1 + p)>>]
Stm8IndirectAsm(p) == [indirect16_e |-> <<Number(0, 65535, HighThenLow(1 + p))>>]
Stm8BitAsm(p) == [bit |-> <<Stm8WordAsm(1 + p), Number(0, 7, At(8 * p + 1, 3))>>]
Stm8BytesAsm(p) == [bytes |-> <<Stm8ShortAsm(2 + p), Stm8ShortAsm(1 + p)>>]
Stm8WordsAsm(p) == [words |-> <<Stm8WordAsm(3 + p), Stm8WordAsm(1 + p)>>]
Stm8NumberAsm(p) ==
  Stm8AddressAsm(p) @@ Stm8IndexedAsm(p) @@ Stm8IndirectAsm(p) @@ Stm8BitAsm(p)
    @@ Stm8BytesAsm(p) @@ Stm8WordsAsm(p)

Stm8FirstDisasm(p) ==
  LET byte == <<Reads(Unsigned, Operand(1 + p))>>
      word == <<Reads(Unsigned, HighThenLow(1 + p))>>
      long == <<Reads(Unsigned, HighThenLow(2 + p) \union {<<16, 8, 8 * (1 + p)>>})>>
  IN [address8 |-> byte, address16 |-> word, address24 |-> long, offset8 |-> byte,
      offset16 |-> word, offset24 |-> long]
Stm8LastDisasm(p) ==
  LET byte(n) == Reads(Unsigned, Operand(n))
      word(n) == Reads(Unsigned, HighThenLow(n))
  IN [indirect16_e |-> <<word(1 + p)>>, bit |-> <<word(1 + p), ReadsField(8 * p + 1, 3)>>,
      bytes |-> <<byte(2 + p), byte(1 + p)>>, words |-> <<word(3 + p), word(1 + p)>>]
Stm8NumberDisasm(p) == Stm8FirstDisasm(p) @@ Stm8LastDisasm(p)
\* The row is found by the prefix and the opcode, but for the number of a bit.
Stm8OpcodeDisasm(p, kind) ==
  (0..(8 * (1 + p) - 1)) \ (IF kind = "bit" THEN {8 * p + i : i \in 1..3} ELSE {})

\* The kinds of operands of the rows without and with a prefix.
Stm8FirstRows ==
  << <<"address8", "address16", "address24", "offset8", "offset16">>,
     <<"address16", "bit", "offset8", "offset16", "indirect16_e">> >>
Stm8SecondRows ==
  << <<"address8", "address16", "address24", "offset8", "offset16">>,
     <<"address8", "address16", "offset8", "offset16">> >>
Stm8ThirdRows ==
  << <<"address8", "address16", "address24", "offset8", "offset16", "offset24", "bytes", "words">>,
     <<"address8", "address16", "offset8", "offset16", "offset24", "indirect16_e">> >>
Stm8FourthRows ==
  << <<"address8", "address16", "offset8", "offset16">>, <<"address16", "offset8", "offset16">> >>
Stm8FifthRows ==
  << <<"address8", "address16", "offset8", "offset16">>, <<"address16", "offset8", "offset16">> >>
Stm8FormsOf(p, kinds) ==
  [i \in DOMAIN kinds |->
    Form(Stm8NumberAsm(p)[kinds[i]], Stm8NumberDisasm(p)[kinds[i]], Stm8OpcodeDisasm(p, kinds[i]))]
Stm8PartForms(rows) == Stm8FormsOf(0, rows[1]) \o Stm8FormsOf(1, rows[2])
Stm8Forms ==
  Stm8PartForms(Stm8FirstRows) \o Stm8PartForms(Stm8SecondRows) \o Stm8PartForms(Stm8ThirdRows)
    \o Stm8PartForms(Stm8FourthRows) \o Stm8PartForms(Stm8FifthRows)

ControllerOperandsForms ==
  DspicForms \o Propeller2Forms \o Avr8Forms \o Lc3Forms
    \o PdkForms \o Stm8Forms
=============================================================================
