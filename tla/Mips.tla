------------------------------- MODULE Mips --------------------------------
(***************************************************************************)
(* The operands of the MIPS instructions: asm/mips.cpp, disasm/mips.cpp    *)
(* and table/mips.cpp, with the extensions of the Emotion Engine and of    *)
(* the N64.  Each kind of operand of the tables has a case in a switch of  *)
(* the assembler and one of the disassembler.                              *)
(***************************************************************************)
EXTENDS Codes, Sequences

\* The distance of a branch, counted in instructions from the next one.
AddOffset == Aligned(4, Offset(4, -131072, 131071, {<<2, 16, 0>>}))

MipsAsm ==
  [rs |-> Register(21, 5), rt |-> Register(16, 5), rd |-> Register(11, 5),
   ft |-> Register(16, 5), fs |-> Register(11, 5), fd |-> Register(6, 5),
   sa |-> Number(0, 31, At(6, 5)), signed |-> Number(-32768, 32767, At(0, 16)),
   label |-> AddOffset, optional |-> Number(0, 2^20 - 1, At(6, 20))]
MipsDisasm ==
  [rs |-> ReadsField(21, 5), rt |-> ReadsField(16, 5), rd |-> ReadsField(11, 5),
   ft |-> ReadsField(16, 5), fs |-> ReadsField(11, 5), fd |-> ReadsField(6, 5),
   sa |-> ReadsField(6, 5), signed |-> Reads(15, At(0, 16)),
   label |-> Shows(4, 17, {<<2, 16, 0>>}), optional |-> ReadsField(6, 20)]

MipsEeAsm ==
  [rs |-> Register(21, 5), rt |-> Register(16, 5), rd |-> Register(11, 5),
   ft |-> Register(16, 5), fs |-> Register(11, 5), vft |-> Register(16, 5),
   vfs |-> Register(11, 5), sa |-> Number(0, 31, At(6, 5)),
   offset |-> Number(-32768, 32767, At(0, 16)), id_reg |-> Number(0, 31, At(11, 5))]
MipsEeDisasm ==
  [rs |-> ReadsField(21, 5), rt |-> ReadsField(16, 5), rd |-> ReadsField(11, 5),
   ft |-> ReadsField(16, 5), fs |-> ReadsField(11, 5), vft |-> ReadsField(16, 5),
   vfs |-> ReadsField(11, 5), sa |-> ReadsField(6, 5),
   offset |-> Reads(15, At(0, 16)), id_reg |-> ReadsField(11, 5)]

MipsRAsm == [rd |-> Register(11, 5), rs |-> Register(21, 5), rt |-> Register(16, 5),
             sa |-> Number(0, 31, At(6, 5))]
MipsRDisasm == [rd |-> ReadsField(11, 5), rs |-> ReadsField(21, 5),
                rt |-> ReadsField(16, 5), sa |-> ReadsField(6, 5)]

\* The listing shows the offset of a load without its sign.
MipsIAsm ==
  [rt |-> Register(16, 5), rs |-> Register(21, 5), ft |-> Register(16, 5),
   hint |-> Number(0, 31, At(16, 5)), immediate |-> Number(0, 65535, At(0, 16)),
   signed |-> Number(-32768, 32767, At(0, 16)),
   offset |-> Number(-32768, 32767, At(0, 16))]
MipsIDisasm ==
  [rt |-> ReadsField(16, 5), rs |-> ReadsField(21, 5), ft |-> ReadsField(16, 5),
   hint |-> ReadsField(16, 5), immediate |-> ReadsField(0, 16),
   signed |-> Reads(15, At(0, 16)), offset |-> Loose(ReadsField(0, 16))]

MipsBranchAsm == [rs |-> Register(21, 5), rt |-> Register(16, 5), label |-> AddOffset]
MipsBranchDisasm == [rs |-> ReadsField(21, 5), rt |-> ReadsField(16, 5),
                     label |-> Shows(4, 17, {<<2, 16, 0>>})]

MipsFourAsm == [fd |-> Register(6, 5), fr |-> Register(21, 5), fs |-> Register(11, 5),
                ft |-> Register(16, 5)]
MipsFourDisasm == [fd |-> ReadsField(6, 5), fr |-> ReadsField(21, 5),
                   fs |-> ReadsField(11, 5), ft |-> ReadsField(16, 5)]

\* The vector unit: dest is the mask of the components behind the name of the
\* instruction, te and se the component of a single register; base is the
\* register of an address, in the place of vft when the value is in vfs.
MipsVectorAsm ==
  [vft |-> Register(16, 5), vfs |-> Register(11, 5), vfd |-> Register(6, 5),
   vit |-> Register(16, 5), vis |-> Register(11, 5), vid |-> Register(6, 5),
   te |-> Number(0, 3, At(23, 2)), se |-> Number(0, 3, At(21, 2)),
   dest |-> Number(0, 15, At(21, 4)), vbase |-> Register(11, 5),
   store_base |-> Register(16, 5), immediate5 |-> Number(-16, 15, At(6, 5))]
MipsVectorDisasm ==
  [vft |-> ReadsField(16, 5), vfs |-> ReadsField(11, 5), vfd |-> ReadsField(6, 5),
   vit |-> ReadsField(16, 5), vis |-> ReadsField(11, 5), vid |-> ReadsField(6, 5),
   te |-> ReadsField(23, 2), se |-> ReadsField(21, 2),
   dest |-> ReadsField(21, 4), vbase |-> ReadsField(11, 5),
   store_base |-> ReadsField(16, 5), immediate5 |-> Reads(4, At(6, 5))]

\* The vector unit of the N64: an offset is counted in items of 2^shift bytes.
MipsRspAsm(shift) ==
  [base |-> Register(21, 5), vt |-> Register(16, 5), vd |-> Register(11, 5),
   vs |-> Register(11, 5), to |-> Register(6, 5), element |-> Number(0, 15, At(7, 4)),
   to_element |-> Number(0, 15, At(11, 5)), from_element |-> Number(0, 15, At(21, 4)),
   offset |-> Aligned(2^shift,
                Number(-(64 * 2^shift), 64 * 2^shift - 1, {<<shift, 7, 0>>}))]
MipsRspDisasm(shift) ==
  [base |-> ReadsField(21, 5), vt |-> ReadsField(16, 5), vd |-> ReadsField(11, 5),
   vs |-> ReadsField(11, 5), to |-> ReadsField(6, 5), element |-> ReadsField(7, 4),
   to_element |-> Loose(ReadsField(11, 5)), from_element |-> ReadsField(21, 4),
   offset |-> Reads(6 + shift, {<<shift, 7, 0>>})]

-----------------------------------------------------------------------------
(* The tables: the kinds of operands of the instructions and their masks. *)

MipsOther == <<
  << <<"fd", "fs">>, Mask(\hffe0, \h003f) >>,
  << <<"fd", "fs">>, Mask(\hffff, \h003f) >>,
  << <<"fd", "fs", "ft">>, Mask(\hffe0, \h003f) >>,
  << <<"fd", "ft">>, Mask(\hffe0, \hf83f) >>,
  << <<"fs", "ft">>, Mask(\hffe0, \h07ff) >>,
  << <<"label">>, Mask(\hffff, \h0000) >>,
  << <<"optional">>, Mask(\hfc00, \h003f) >>,
  << <<"rd">>, Mask(\hffff, \h07ff) >>,
  << <<"rd", "rs", "rt">>, Mask(\hfc00, \h07ff) >>,
  << <<"rd", "rt">>, Mask(\hfc00, \h07ff) >>,
  << <<"rd", "rt">>, Mask(\hffe0, \h07ff) >>,
  << <<"rs">>, Mask(\hfc1f, \hffff) >>,
  << <<"rs", "signed">>, Mask(\hfc1f, \h0000) >>,
  << <<"rs", "rt">>, Mask(\hfc00, \h003f) >>,
  << <<"rs", "rt">>, Mask(\hfc00, \hffff) >>,
  << <<"rt">>, Mask(\hffe0, \hffff) >>,
  << <<"rt", "fs">>, Mask(\hffe0, \h07ff) >>,
  << <<"rt", "rd">>, Mask(\hffe0, \h07ff) >>
>>

MipsEe == <<
  << <<"fs", "ft">>, Mask(\hffe0, \h07ff) >>,
  << <<"rd">>, Mask(\hffff, \h07ff) >>,
  << <<"rd", "rs">>, Mask(\hfc1f, \h07ff) >>,
  << <<"rd", "rs", "rt">>, Mask(\hfc00, \h07ff) >>,
  << <<"rd", "rt">>, Mask(\hffe0, \h07ff) >>,
  << <<"rd", "rt", "sa">>, Mask(\hffe0, \h003f) >>,
  << <<"rs">>, Mask(\hfc1f, \hffff) >>,
  << <<"rs", "rt">>, Mask(\hfc00, \hffff) >>,
  << <<"rt", "id_reg">>, Mask(\hffe0, \h07ff) >>,
  << <<"rt", "vfs">>, Mask(\hffe0, \h07ff) >>,
  << <<"vft", "offset", "rs">>, Mask(\hfc00, \h0000) >>
>>

\* All of r_table have the operation in bits 0..5 and 26..31; i_table, and the
\* branches that compare two registers, in 26..31; the others have it in rt too.
MipsR == <<
  << <<"rd">>, Mask(\hfc00, \h003f) >>,
  << <<"rd", "rs">>, Mask(\hfc00, \h003f) >>,
  << <<"rd", "rs", "rt">>, Mask(\hfc00, \h003f) >>,
  << <<"rd", "rt", "rs">>, Mask(\hfc00, \h003f) >>,
  << <<"rd", "rt", "sa">>, Mask(\hfc00, \h003f) >>,
  << <<"rs">>, Mask(\hfc00, \h003f) >>,
  << <<"rs", "rt">>, Mask(\hfc00, \h003f) >>
>>
MipsI == <<
  << <<"rt", "rs", "signed">>, Mask(\hfc00, \h0000) >>,
  << <<"rt", "rs", "immediate">>, Mask(\hfc00, \h0000) >>,
  << <<"rt", "immediate">>, Mask(\hfc00, \h0000) >>,
  << <<"rt", "offset", "rs">>, Mask(\hfc00, \h0000) >>,
  << <<"ft", "offset", "rs">>, Mask(\hfc00, \h0000) >>,
  << <<"hint", "offset", "rs">>, Mask(\hfc00, \h0000) >>
>>
MipsBranch == <<
  << <<"rs", "rt", "label">>, Mask(\hfc00, \h0000) >>,
  << <<"rs", "label">>, Mask(\hfc1f, \h0000) >>
>>
MipsFour == <<
  << <<"fd", "fr", "fs", "ft">>, Mask(\hfc00, \h003f) >>
>>

MipsVector == <<
  << <<"vfs", "dest">>, Mask(\hfe1f, \h07ff) >>,
  << <<"vfs", "vft", "dest">>, Mask(\hfe00, \h07ff) >>,
  << <<"vfs", "vft">>, Mask(\hffe0, \h07ff) >>,
  << <<"vfs", "vft", "te", "se">>, Mask(\hfe00, \h07ff) >>,
  << <<"vfs", "se">>, Mask(\hff9f, \h07ff) >>,
  << <<"vfd", "vfs", "dest">>, Mask(\hfe1f, \h003f) >>,
  << <<"vfd", "vfs", "vft", "dest">>, Mask(\hfe00, \h003f) >>,
  << <<"vfd", "vfs", "vft">>, Mask(\hffe0, \h003f) >>,
  << <<"vfs", "store_base", "dest">>, Mask(\hfe00, \h07ff) >>,
  << <<"vfs", "vft">>, Mask(\hfe00, \h03ff) >>,
  << <<"vft", "dest">>, Mask(\hfe00, \hffff) >>,
  << <<"vft", "vfs", "dest">>, Mask(\hfe00, \h03ff) >>,
  << <<"vft", "vis", "dest">>, Mask(\hfe00, \h07ff) >>,
  << <<"vid", "vis", "vit">>, Mask(\hffe0, \h003f) >>,
  << <<"vit", "vbase", "dest">>, Mask(\hfe00, \h07ff) >>,
  << <<"vit", "vfs", "se">>, Mask(\hfe00, \h07ff) >>,
  << <<"vit", "vis", "immediate5">>, Mask(\hffe0, \h003f) >>
>>

MipsRsp == <<
  << <<"vt", "element", "offset", "base">>, Mask(\hfc00, \hf800) >>,
  << <<"vt", "vd", "element">>, Mask(\hffe0, \h0000) >>,
  << <<"to", "to_element", "vt", "from_element">>, Mask(\hfe00, \h003f) >>,
  << <<"to", "vs", "vt", "from_element">>, Mask(\hfe00, \h003f) >>
>>

MipsForms ==
  FormsOf(MipsAsm, MipsDisasm, MipsOther) \o FormsOf(MipsEeAsm, MipsEeDisasm, MipsEe)
    \o FormsOf(MipsRAsm, MipsRDisasm, MipsR) \o FormsOf(MipsIAsm, MipsIDisasm, MipsI)
    \o FormsOf(MipsBranchAsm, MipsBranchDisasm, MipsBranch)
    \o FormsOf(MipsFourAsm, MipsFourDisasm, MipsFour)
    \o FormsOf(MipsVectorAsm, MipsVectorDisasm, MipsVector)
    \o FormsOf(MipsRspAsm(0), MipsRspDisasm(0), MipsRsp)
    \o FormsOf(MipsRspAsm(4), MipsRspDisasm(4), MipsRsp)
=============================================================================
