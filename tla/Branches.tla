------------------------------ MODULE Branches ------------------------------
(***************************************************************************)
(* How the address of a label becomes the operand of a branch.  The        *)
(* assembler of each CPU, its disassembler and its simulator count the     *)
(* offset from a place of their own behind the instruction, in bytes or    *)
(* words, limit it, drop its low bits and spread the others over the code. *)
(* Asm, Disasm and Sim name the three parts.  The forms whose parts do not *)
(* agree are listed in the README.                                         *)
(***************************************************************************)
EXTENDS Codes

Msp430Asm == Even(Offset(2, -1024, 1023, {<<1, 10, 0>>}))
Msp430Disasm == Space(65536, Shows(2, 10, {<<1, 10, 0>>}))
Msp430Sim == Shows(2, 10, {<<1, 10, 0>>})
M6502Asm == Offset(2, -128, 127, Operand(1))
M6502Disasm == Shows(2, 7, Operand(1))
M6502Sim == Space(65536, Shows(2, 7, Operand(1)))
M65816Asm == Offset(2, -128, 127, Operand(1))
M65816Disasm == Shows(2, 7, Operand(1))
M65816Sim == Space(65536, Shows(2, 7, Operand(1)))
M65816LongAsm == Offset(3, -32768, 32767, LowThenHigh(1))
M65816LongDisasm == Shows(3, 15, LowThenHigh(1))
Avr8BranchKAsm == Words(Offset(1, -64, 63, {<<0, 7, 3>>}))
Avr8BranchKDisasm == Words(Shows(1, 6, {<<0, 7, 3>>}))
Avr8BranchKSim == Words(Shows(1, 6, {<<0, 7, 3>>}))
Avr8RelativeAsm == Words(Offset(1, -2048, 2047, {<<0, 12, 0>>}))
Avr8RelativeDisasm == Words(Shows(1, 11, {<<0, 12, 0>>}))
Avr8RelativeSim == Words(Shows(1, 11, {<<0, 12, 0>>}))
Avr8JumpAsm == Number(0, 2^22 - 1, {<<0, 16, 16>>, <<16, 1, 0>>, <<17, 5, 4>>})
Avr8JumpDisasm == Reads(Unsigned, {<<0, 16, 16>>, <<16, 1, 0>>, <<17, 5, 4>>})
Avr8JumpSim == Reads(Unsigned, {<<0, 16, 16>>, <<16, 1, 0>>, <<17, 5, 4>>})
Z80Asm == Offset(2, -128, 127, Operand(1))
Z80Disasm == Shows(2, 7, Operand(1))
Z80Sim == Shows(2, 7, Operand(1))
Stm8RelativeAsm_NoPrefix(prefix) == Offset(2, -128, 127, Operand(1 + prefix))  \* fault
Stm8RelativeAsm(prefix) == Offset(2 + prefix, -128, 127, Operand(1 + prefix))
Stm8RelativeDisasm(prefix) == Shows(2 + prefix, 7, Operand(1 + prefix))
Stm8RelativeSim(prefix) == Shows(2 + prefix, 7, Operand(1 + prefix))
Stm8BitLoopAsm == Offset(5, -128, 127, Operand(4))
Stm8BitLoopDisasm == Shows(5, 7, Operand(4))
Stm8BitLoopSim == Shows(5, 7, Operand(4))
MipsLabelAsm == Aligned(4, Offset(4, -131072, 131071, {<<2, 16, 0>>}))
MipsLabelDisasm == Shows(4, 17, {<<2, 16, 0>>})
MipsSim == Shows(4, 17, {<<2, 16, 0>>})
MipsTargetAsm == Aligned(4, Offset(4, -131072, 131071, {<<2, 16, 0>>}))
MipsTargetDisasm == Shows(4, 17, {<<2, 16, 0>>})
RiscvBranchAsm == Even(Offset(0, -4096, 4094,
  {<<12, 1, 31>>, <<11, 1, 7>>, <<5, 6, 25>>, <<1, 4, 8>>}))
RiscvBranchDisasm == Shows(0, 12,
  {<<12, 1, 31>>, <<1, 4, 8>>, <<11, 1, 7>>, <<5, 6, 25>>})
RiscvJalAsm == Even(Offset(0, -1048576, 1048575,
  {<<20, 1, 31>>, <<12, 8, 12>>, <<11, 1, 20>>, <<1, 10, 21>>}))
RiscvJalDisasm == Shows(0, 20,
  {<<20, 1, 31>>, <<12, 8, 12>>, <<11, 1, 20>>, <<1, 10, 21>>})
Lc3Asm == Words(Offset(1, -256, 255, {<<0, 9, 0>>}))
Lc3Disasm == Words(Shows(1, 8, {<<0, 9, 0>>}))
Lc3Sim == Words(Shows(1, 8, {<<0, 9, 0>>}))
Hc08BitAsm == Offset(3, -128, 127, Operand(2))
Hc08BitDisasm == Shows(3, 7, Operand(2))
Hc08Num8Asm == Offset(3, -128, 127, Operand(2))
Hc08Num8Disasm == Shows(3, 7, Operand(2))
Hc08Opr8Asm == Offset(3, -128, 127, Operand(2))
Hc08Opr8Disasm == Shows(3, 7, Operand(2))
Hc08Opr8XPlusAsm == Offset(3, -128, 127, Operand(2))
Hc08Opr8XPlusDisasm == Shows(3, 7, Operand(2))
Hc08Opr8XAsm == Offset(3, -128, 127, Operand(2))
Hc08Opr8XDisasm == Shows(3, 7, Operand(2))
Hc08RelAsm == Offset(2, -128, 127, Operand(1))
Hc08RelDisasm == Shows(2, 7, Operand(1))
Hc08XPlusAsm == Offset(2, -128, 127, Operand(1))
Hc08XPlusDisasm == Shows(2, 7, Operand(1))
M6809Asm == Offset(2, -128, 127, Operand(1))
M6809Disasm == Space(65536, Shows(2, 7, Operand(1)))
M6809LongAsm == Offset(3, -32768, 32767, HighThenLow(1))
M6809LongDisasm == Space(65536, Shows(3, 15, HighThenLow(1)))
I8051Asm(count) == Offset(count, -128, 127, Operand(count - 1))
I8051Disasm(count) == Shows(count, 7, Operand(count - 1))
Lc86AddressRelAsm == Offset(3, -128, 127, Operand(2))
Lc86AddressRelDisasm == Shows(3, 7, Operand(2))
Lc86ImmediateRelAsm == Offset(3, -128, 127, Operand(2))
Lc86ImmediateRelDisasm == Shows(3, 7, Operand(2))
Lc86AtRegImmediateRelAsm == Offset(3, -128, 127, Operand(2))
Lc86AtRegImmediateRelDisasm == Shows(3, 7, Operand(2))
Lc86BitRelAsm == Offset(3, -128, 127, Operand(2))
Lc86BitRelDisasm == Shows(3, 7, Operand(2))
Lc86Rel8Asm == Offset(2, -128, 127, Operand(1))
Lc86Rel8Disasm == Shows(2, 7, Operand(1))
Lc86Rel16Asm == Offset(2, -32768, 32767, LowThenHigh(1))
Lc86Rel16Disasm == Shows(2, 15, LowThenHigh(1))
Lc86AtRegRelAsm == Offset(2, -128, 127, Operand(1))
Lc86AtRegRelDisasm == Shows(2, 7, Operand(1))
F8Asm == Offset(1, -128, 127, Operand(1))
F8Disasm == Shows(1, 7, Operand(1))
F8Data3Asm == Offset(1, -128, 127, Operand(1))
F8Data3Disasm == Shows(1, 7, Operand(1))
M8cAsm(length) == Offset(length, -2048, 2047, {<<8, 4, 0>>, <<0, 8, 8>>})
M8cCallDisasm == Shows(2, 11, {<<0, 8, 8>>, <<8, 4, 0>>})
M8cJumpDisasm == Shows(1, 11, {<<0, 8, 8>>, <<8, 4, 0>>})
Pdp11Asm == Even(Offset(2, -256, 254, {<<1, 8, 0>>}))
Pdp11Disasm == Shows(2, 8, {<<1, 8, 0>>})
Pdp11SobAsm_Bytes == Back(Even(Offset(2, 0, 63, {<<1, 6, 0>>})))  \* fault
Pdp11SobAsm == Back(Even(Offset(2, 0, 126, {<<1, 6, 0>>})))
Pdp11SobDisasm == Back(Shows(2, Unsigned, {<<1, 6, 0>>}))
Sh4S9Asm == Even(Offset(4, -256, 255, {<<1, 8, 0>>}))
Sh4S9Disasm == Shows(4, 8, {<<1, 8, 0>>})
Sh4S13Asm == Even(Offset(4, -4096, 4095, {<<1, 12, 0>>}))
Sh4S13Disasm == Shows(4, 12, {<<1, 12, 0>>})
ThumbConditionalAsm == Even(Offset(4, -256, 255, {<<1, 8, 0>>}))
ThumbConditionalDisasm == Shows(4, 8, {<<1, 8, 0>>})
ThumbBlAsm == Even(Offset(4, -4194304, 4194303, {<<12, 11, 0>>, <<1, 11, 16>>}))
ThumbBlDisasm == Shows(4, 22, {<<12, 11, 0>>, <<1, 11, 16>>})
UnspAsm == Words(Magnitude(1, 63, {<<0, 6, 0>>}, 6))
UnspDisasm == Words(ShowsMagnitude(1, {<<0, 6, 0>>}, 6))
XtensaAsAtAsm == Offset(4, -128, 127, {<<0, 8, 16>>})
XtensaAsAtDisasm == Shows(4, 7, {<<0, 8, 16>>})
XtensaAsB5Asm == Offset(4, -128, 127, {<<0, 8, 16>>})
XtensaAsB5Disasm == Shows(4, 7, {<<0, 8, 16>>})
XtensaAsC4Asm == Offset(4, -128, 127, {<<0, 8, 16>>})
XtensaAsC4Disasm == Shows(4, 7, {<<0, 8, 16>>})
XtensaBsAsm == Offset(4, -128, 127, {<<0, 8, 16>>})
XtensaBsDisasm == Shows(4, 7, {<<0, 8, 16>>})
XtensaAsI12Asm == Offset(4, -2048, 2047, {<<0, 12, 12>>})
XtensaAsI12Disasm == Shows(4, 11, {<<0, 12, 12>>})
XtensaNAsAsm == Offset(4, 0, 63, {<<0, 4, 12>>, <<4, 2, 4>>})
XtensaNAsDisasm == Shows(4, Unsigned, {<<4, 2, 4>>, <<0, 4, 12>>})
XtensaCallAsm == Offset(1, -131072, 131071, {<<0, 18, 6>>})
XtensaCallDisasm == Shows(1, 17, {<<0, 18, 6>>})
XtensaJumpAsm == Offset(4, -131072, 131071, {<<0, 18, 6>>})
XtensaJumpDisasm == Shows(4, 17, {<<0, 18, 6>>})
Rca1802Asm == SamePage(256, {<<0, 8, 8>>})
Rca1802Disasm == ShowsPage(256, {<<0, 8, 8>>})
Rca1802x16Asm == SamePage(256, {<<0, 8, 16>>})
Rca1802x16Disasm == ShowsPage(256, {<<0, 8, 16>>})
Rca1802RegAsm == SamePage(256, {<<0, 8, 16>>})
Rca1802RegDisasm == ShowsPage(256, {<<0, 8, 16>>})
I8048Asm == SamePage(256, {<<0, 8, 8>>})
I8048Disasm == ShowsPage(256, {<<0, 8, 8>>})
M68000DbccAsm == Offset(2, -32768, 32767, {<<0, 16, 16>>})
M68000DbccDisasm == Shows(2, 15, {<<0, 16, 16>>})
M68000BraAsm == Offset(2, -32768, 32767, {<<0, 16, 16>>})
M68000BraDisasm == Shows(2, 15, {<<0, 16, 16>>})
CellAsm == Aligned(4, Offset(0, -131072, 131071, {<<2, 16, 7>>}))
CellDisasm == Shows(0, 17, {<<2, 16, 7>>})
CellRtAsm == Aligned(4, Offset(0, -131072, 131071, {<<2, 16, 7>>}))
CellRtDisasm == Shows(0, 17, {<<2, 16, 7>>})
DspicBraAsm == Words(Even(Offset(2, -65536, 65534, {<<1, 16, 0>>})))
DspicBraDisasm == Words(Shows(2, 16, {<<1, 16, 0>>}))
DspicDoAsm == Words(Even(Offset(2, -65536, 65534, {<<1, 16, 32>>})))
DspicDoDisasm == Words(Shows(2, 16, {<<1, 16, 32>>}))
DspicDoWnAsm == Words(Even(Offset(2, -65536, 65534, {<<1, 16, 32>>})))
DspicDoWnDisasm == Words(Shows(2, 16, {<<1, 16, 32>>}))

BranchForms == <<
  Simulated(Form(<<Msp430Asm>>, <<Msp430Disasm>>, {}),
             <<Msp430Sim>>),  \* msp430_jump
  Simulated(Form(<<M6502Asm>>, <<M6502Disasm>>, {}),
             <<M6502Sim>>),  \* m6502_relative
  Simulated(Form(<<M65816Asm>>, <<M65816Disasm>>, {}),
             <<M65816Sim>>),  \* m65816_relative
  Form(<<M65816LongAsm>>, <<M65816LongDisasm>>, {}),  \* m65816_long
  Simulated(Form(<<Avr8BranchKAsm>>, <<Avr8BranchKDisasm>>, {}),
             <<Avr8BranchKSim>>),  \* avr8_branch_k
  Simulated(Form(<<Avr8RelativeAsm>>, <<Avr8RelativeDisasm>>, {}),
             <<Avr8RelativeSim>>),  \* avr8_relative
  Simulated(Form(<<Avr8JumpAsm>>, <<Avr8JumpDisasm>>, {}),
             <<Avr8JumpSim>>),  \* avr8_jump
  Simulated(Form(<<Z80Asm>>, <<Z80Disasm>>, {}),
             <<Z80Sim>>),  \* z80_offset8
  Simulated(Form(<<Stm8RelativeAsm(0)>>, <<Stm8RelativeDisasm(0)>>, {}),
             <<Stm8RelativeSim(0)>>),  \* stm8_relative
  Simulated(Form(<<Stm8RelativeAsm(1)>>, <<Stm8RelativeDisasm(1)>>, {}),
             <<Stm8RelativeSim(1)>>),  \* stm8_prefixed
  Simulated(Form(<<Stm8BitLoopAsm>>, <<Stm8BitLoopDisasm>>, {}),
             <<Stm8BitLoopSim>>),  \* stm8_bit_loop
  Simulated(Form(<<MipsLabelAsm>>, <<MipsLabelDisasm>>, {}),
             <<MipsSim>>),  \* mips_label
  Form(<<MipsTargetAsm>>, <<MipsTargetDisasm>>, {}),  \* mips_i_label
  Form(<<RiscvBranchAsm>>, <<RiscvBranchDisasm>>, {}),  \* riscv_sb
  Form(<<RiscvJalAsm>>, <<RiscvJalDisasm>>, {}),  \* riscv_uj
  Simulated(Form(<<Lc3Asm>>, <<Lc3Disasm>>, {}),
             <<Lc3Sim>>),  \* lc3_br
  Form(<<Hc08BitAsm>>, <<Hc08BitDisasm>>, {}),  \* hc08_bit_rel
  Form(<<Hc08Num8Asm>>, <<Hc08Num8Disasm>>, {}),  \* hc08_num8_rel
  Form(<<Hc08Opr8Asm>>, <<Hc08Opr8Disasm>>, {}),  \* hc08_opr8_rel
  Form(<<Hc08Opr8XPlusAsm>>, <<Hc08Opr8XPlusDisasm>>, {}),  \* hc08_opr8_x_plus_rel
  Form(<<Hc08Opr8XAsm>>, <<Hc08Opr8XDisasm>>, {}),  \* hc08_opr8_x_rel
  Form(<<Hc08RelAsm>>, <<Hc08RelDisasm>>, {}),  \* hc08_rel
  Form(<<Hc08XPlusAsm>>, <<Hc08XPlusDisasm>>, {}),  \* hc08_x_plus_rel
  Form(<<M6809Asm>>, <<M6809Disasm>>, {}),  \* m6809_relative
  Form(<<M6809LongAsm>>, <<M6809LongDisasm>>, {}),  \* m6809_long
  Form(<<I8051Asm(2)>>, <<I8051Disasm(2)>>, {}),  \* i8051_rel
  Form(<<I8051Asm(3)>>, <<I8051Disasm(3)>>, {}),  \* i8051_byte_rel
  Form(<<Lc86AddressRelAsm>>, <<Lc86AddressRelDisasm>>, {}),  \* lc86000_address_rel
  Form(<<Lc86ImmediateRelAsm>>, <<Lc86ImmediateRelDisasm>>, {}),  \* lc86000_immediate_rel
  Form(<<Lc86AtRegImmediateRelAsm>>, <<Lc86AtRegImmediateRelDisasm>>, {}),  \* lc86000_at_reg_immediate_rel
  Form(<<Lc86BitRelAsm>>, <<Lc86BitRelDisasm>>, {}),  \* lc86000_bit_rel
  Form(<<Lc86Rel8Asm>>, <<Lc86Rel8Disasm>>, {}),  \* lc86000_rel8
  Form(<<Lc86Rel16Asm>>, <<Lc86Rel16Disasm>>, {}),  \* lc86000_rel16
  Form(<<Lc86AtRegRelAsm>>, <<Lc86AtRegRelDisasm>>, {}),  \* lc86000_at_reg_rel
  Form(<<F8Asm>>, <<F8Disasm>>, {}),  \* f8_disp
  Form(<<F8Data3Asm>>, <<F8Data3Disasm>>, {}),  \* f8_data3_disp
  Form(<<M8cAsm(2)>>, <<M8cCallDisasm>>, {}),  \* m8c_call
  Form(<<M8cAsm(1)>>, <<M8cJumpDisasm>>, {}),  \* m8c_jump
  Form(<<Pdp11Asm>>, <<Pdp11Disasm>>, {}),  \* pdp11_branch
  Form(<<Pdp11SobAsm>>, <<Pdp11SobDisasm>>, {}),  \* pdp11_sob
  Form(<<Sh4S9Asm>>, <<Sh4S9Disasm>>, {}),  \* sh4_s9
  Form(<<Sh4S13Asm>>, <<Sh4S13Disasm>>, {}),  \* sh4_s13
  Form(<<ThumbConditionalAsm>>, <<ThumbConditionalDisasm>>, {}),  \* thumb_conditional
  Form(<<ThumbBlAsm>>, <<ThumbBlDisasm>>, {}),  \* thumb_bl
  Form(<<UnspAsm>>, <<UnspDisasm>>, {}),  \* unsp_jmp
  Form(<<XtensaAsAtAsm>>, <<XtensaAsAtDisasm>>, {}),  \* xtensa_as_at_i8
  Form(<<XtensaAsB5Asm>>, <<XtensaAsB5Disasm>>, {}),  \* xtensa_as_b5_i8
  Form(<<XtensaAsC4Asm>>, <<XtensaAsC4Disasm>>, {}),  \* xtensa_as_c4_i8
  Form(<<XtensaBsAsm>>, <<XtensaBsDisasm>>, {}),  \* xtensa_bs_i8
  Form(<<XtensaAsI12Asm>>, <<XtensaAsI12Disasm>>, {}),  \* xtensa_as_i12
  Form(<<XtensaNAsAsm>>, <<XtensaNAsDisasm>>, {}),  \* xtensa_n_as_i6
  Form(<<XtensaCallAsm>>, <<XtensaCallDisasm>>, {}),  \* xtensa_call_i18
  Form(<<XtensaJumpAsm>>, <<XtensaJumpDisasm>>, {}),  \* xtensa_jump_i18
  Form(<<Rca1802Asm>>, <<Rca1802Disasm>>, {}),  \* rca1802_branch
  Form(<<Rca1802x16Asm>>, <<Rca1802x16Disasm>>, {}),  \* rca1802_16_branch
  Form(<<Rca1802RegAsm>>, <<Rca1802RegDisasm>>, {}),  \* rca1802_reg_branch
  Form(<<I8048Asm>>, <<I8048Disasm>>, {}),  \* i8048_paddr
  Form(<<M68000DbccAsm>>, <<M68000DbccDisasm>>, {}),  \* m68000_dbcc
  Form(<<M68000BraAsm>>, <<M68000BraDisasm>>, {}),  \* m68000_bra_w
  Form(<<CellAsm>>, <<CellDisasm>>, {}),  \* cell_branch
  Form(<<CellRtAsm>>, <<CellRtDisasm>>, {}),  \* cell_branch_rt
  Form(<<DspicBraAsm>>, <<DspicBraDisasm>>, {}),  \* dspic_bra
  Form(<<DspicDoAsm>>, <<DspicDoDisasm>>, {}),  \* dspic_do_lit14
  Form(<<DspicDoWnAsm>>, <<DspicDoWnDisasm>>, {})   \* dspic_do_wn
>>
=============================================================================
