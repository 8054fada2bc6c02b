------------------------------- MODULE Riscv -------------------------------
(***************************************************************************)
(* The operands of the RISC-V instructions: asm/riscv.cpp,                 *)
(* disasm/riscv.cpp, simulate/riscv.cpp and table/riscv.cpp.  The type of  *)
(* a row of the tables says in both switches what the operands are.        *)
(***************************************************************************)
EXTENDS Codes, Sequences

\* The bits of branches and of jal are not in their order.
BranchBits == {<<12, 1, 31>>, <<11, 1, 7>>, <<5, 6, 25>>, <<1, 4, 8>>}
BranchBitsShown == {<<12, 1, 31>>, <<1, 4, 8>>, <<11, 1, 7>>, <<5, 6, 25>>}
JalBits == {<<20, 1, 31>>, <<12, 8, 12>>, <<11, 1, 20>>, <<1, 10, 21>>}
JalBitsShown == {<<20, 1, 31>>, <<12, 8, 12>>, <<11, 1, 20>>, <<1, 10, 21>>}
\* The operands of integer instructions, branches, loads and stores.
RiscvAsm ==
  [rd |-> Register(7, 5), rs1 |-> Register(15, 5), rs2 |-> Register(20, 5),
   immediate |-> Number(-2048, 4095, At(20, 12))]
BranchTarget == Even(Offset(0, -4096, 4094, BranchBits))
Upper == Number(-524288, 1048575, At(12, 20))
JumpTarget == Even(Offset(0, -1048576, 1048575, JalBits))
ShiftCount == Number(0, 31, At(20, 5))
FenceSet == Number(0, 255, At(20, 8))
LoadOffset == Number(-2048, 2047, At(20, 12))
StoreOffset_Low == Number(-2048, 2047, {<<5, 7, 25>>, <<0, 5, 8>>})  \* fault
StoreOffset == Number(-2048, 2047, {<<5, 7, 25>>, <<0, 5, 7>>})
RiscvIntegerAsm ==
  [rd |-> RiscvAsm.rd, rs1 |-> RiscvAsm.rs1, rs2 |-> RiscvAsm.rs2,
   immediate |-> RiscvAsm.immediate, branch |-> BranchTarget, upper |-> Upper,
   jump |-> JumpTarget, shift |-> ShiftCount, fence |-> FenceSet,
   offset |-> LoadOffset, store |-> StoreOffset]
RiscvDisasm ==
  [rd |-> ReadsField(7, 5), rs1 |-> ReadsField(15, 5), rs2 |-> ReadsField(20, 5),
   immediate |-> Reads(11, At(20, 12)), branch |-> Shows(0, 12, BranchBitsShown),
   upper |-> ReadsField(12, 20), jump |-> Shows(0, 20, JalBitsShown),
   shift |-> ReadsField(20, 5), fence |-> ReadsField(20, 8),
   offset |-> Reads(11, At(20, 12)), store |-> Reads(11, {<<5, 7, 25>>, <<0, 5, 7>>})]

\* Atomic and floating point instructions: rm is the rounding mode, aq and rl
\* are written behind the name.
Acquire == Number(0, 1, At(26, 1))
Release == Number(0, 1, At(25, 1))
Rounding == Number(0, 7, At(12, 3))
RiscvFloatAsm ==
  [rd |-> Register(7, 5), rs1 |-> Register(15, 5), rs2 |-> Register(20, 5),
   rs3 |-> Register(27, 5), rm |-> Rounding, aq |-> Acquire, rl |-> Release]
RiscvFloatDisasm ==
  [rd |-> ReadsField(7, 5), rs1 |-> ReadsField(15, 5), rs2 |-> ReadsField(20, 5),
   rs3 |-> ReadsField(27, 5), rm |-> ReadsField(12, 3), aq |-> ReadsField(26, 1),
   rl |-> ReadsField(25, 1)]

\* Names that stand for another instruction with fewer operands; fmv writes
\* one register into two fields.
Twice == [Register(15, 5) EXCEPT !.groups = At(20, 5) \union At(15, 5)]
AliasTarget == Even(Offset(0, -4096, 4094, BranchBits))
RiscvAliasAsm ==
  [rd |-> Register(7, 5), rs1 |-> Register(15, 5), rs2 |-> Register(20, 5),
   branch |-> AliasTarget, twice |-> Twice,
   jump |-> Even(Offset(0, -1048576, 1048575, JalBits))]
RiscvAliasDisasm ==
  [rd |-> ReadsField(7, 5), rs1 |-> ReadsField(15, 5), rs2 |-> ReadsField(20, 5),
   branch |-> Shows(0, 12, BranchBitsShown), twice |-> ReadsField(15, 5),
   jump |-> Shows(0, 20, JalBitsShown)]

\* Control registers, and the configuration of the vector unit.
Csr == Number(0, 4095, At(20, 12))
CsrImmediate == Number(0, 31, At(15, 5))
RiscvControlAsm ==
  [rd |-> Register(7, 5), rs1 |-> Register(15, 5), csr |-> Csr, uimm |-> CsrImmediate,
   sew |-> Number(0, 7, At(23, 3)), lmul |-> Number(0, 7, At(20, 3)),
   tail |-> Number(0, 1, At(26, 1)), mask |-> Number(0, 1, At(27, 1))]
RiscvControlDisasm ==
  [rd |-> ReadsField(7, 5), rs1 |-> ReadsField(15, 5), csr |-> ReadsField(20, 12),
   uimm |-> ReadsField(15, 5), sew |-> ReadsField(23, 3), lmul |-> ReadsField(20, 3),
   tail |-> ReadsField(26, 1), mask |-> ReadsField(27, 1)]

RiscvInteger == <<
  << <<"rd", "jump">>, Mask(\h0000, \h007f) >>,
  << <<"rd", "upper">>, Mask(\h0000, \h007f) >>,
  << <<"rs1", "rs2", "branch">>, Mask(\h0000, \h707f) >>,
  << <<"rd", "rs1", "immediate">>, Mask(\h0000, \h707f) >>,
  << <<"rd", "offset", "rs1">>, Mask(\h0000, \h707f) >>,
  << <<"rs2", "store", "rs1">>, Mask(\h0000, \h707f) >>,
  << <<"fence">>, Mask(\hf00f, \hffff) >>,
  << <<"rd", "rs1", "rs2">>, Mask(\hfe00, \h707f) >>,
  << <<"rd", "rs1", "shift">>, Mask(\hfe00, \h707f) >>
>>
RiscvAlias == <<
  << <<"jump">>, Mask(\h0000, \h0fff) >>,
  << <<"rs2", "rs1", "branch">>, Mask(\h0000, \h707f) >>,
  << <<"rd", "rs1">>, Mask(\h0000, \h707f) >>,
  << <<"rs1", "branch">>, Mask(\h01f0, \h707f) >>,
  << <<"rd", "twice">>, Mask(\hfe00, \h707f) >>,
  << <<"rd", "rs2">>, Mask(\hfe0f, \hf07f) >>,
  << <<"rd", "rs1">>, Mask(\hfff0, \h707f) >>,
  << <<"rs1">>, Mask(\hfff0, \h7fff) >>
>>
RiscvFloat == <<
  << <<"rd", "rs1", "rs2", "rs3", "rm">>, Mask(\h0600, \h007f) >>,
  << <<"rd", "rs1", "aq", "rl">>, Mask(\hf800, \h707f) >>,
  << <<"rd", "rs2", "rs1", "aq", "rl">>, Mask(\hf800, \h707f) >>,
  << <<"rd", "rs1", "rs2", "rm">>, Mask(\hfe00, \h007f) >>,
  << <<"rd", "rs1", "rs2">>, Mask(\hfe00, \h707f) >>,
  << <<"rd", "rs1">>, Mask(\hfff0, \h007f) >>,
  << <<"rd", "rs1", "rm">>, Mask(\hfff0, \h007f) >>,
  << <<"rd", "rs1">>, Mask(\hfff0, \h707f) >>
>>
RiscvControl == <<
  << <<"rd", "csr", "rs1">>, Mask(\h0000, \h707f) >>,
  << <<"rd", "csr", "uimm">>, Mask(\h0000, \h707f) >>,
  << <<"csr", "rs1">>, Mask(\h0000, \h7fff) >>,
  << <<"csr", "uimm">>, Mask(\h0000, \h7fff) >>,
  << <<"rd", "csr">>, Mask(\h000f, \hf07f) >>,
  << <<"rd", "rs1", "sew", "lmul", "tail", "mask">>, Mask(\h8000, \h707f) >>,
  << <<"rd", "uimm", "sew", "lmul", "tail", "mask">>, Mask(\hc000, \h707f) >>,
  << <<"rd", "rs1">>, Mask(\hfff0, \h707f) >>,
  << <<"rd", "uimm">>, Mask(\hfff0, \h707f) >>,
  << <<"rs1">>, Mask(\hfff0, \h7fff) >>,
  << <<"uimm">>, Mask(\hfff0, \h7fff) >>,
  << <<"rd">>, Mask(\hffff, \hf07f) >>
>>

-----------------------------------------------------------------------------
(* Compressed instructions: entry n of a table is the bit of the offset    *)
(* that comes to bit 12 - n of the code, counted from 0.  The offset must  *)
(* not have others.                                                        *)

Places16(table) == {n \in DOMAIN table : table[n] # -1}
Permuted(table) ==
  LET bits == {table[n] : n \in Places16(table)}
  IN Aligned(2^Min(bits), Number(0, 2^(Max(bits) + 1) - 1,
       {<<table[n], 1, 13 - n>> : n \in Places16(table)}))
PermutedBack(table) == Reads(Unsigned, {<<table[n], 1, 13 - n>> : n \in Places16(table)})

Imm5       == << 5, -1, -1, -1, -1, -1,  4,  3,  2,  1,  0>>
Uimm5_4386 == << 5, -1, -1, -1, -1, -1,  4,  3,  8,  7,  6>>
Uimm5_4276 == << 5, -1, -1, -1, -1, -1,  4,  3,  2,  7,  6>>
Uimm5386   == << 5,  4,  3,  8,  7,  6, -1, -1, -1, -1, -1>>
Uimm5496   == << 5,  4,  9,  8,  7,  6, -1, -1, -1, -1, -1>>
Uimm5276   == << 5,  4,  3,  2,  7,  6, -1, -1, -1, -1, -1>>

SmallRd == Less(8, Number(8, 15, At(7, 3)))
SmallRs2 == Less(8, Number(8, 15, At(2, 3)))
RiscvCompAsm ==
  [shift |-> Permuted(Imm5), load8 |-> Permuted(Uimm5_4386),
   load4 |-> Permuted(Uimm5_4276), store8 |-> Permuted(Uimm5386),
   store16 |-> Permuted(Uimm5496), store4 |-> Permuted(Uimm5276),
   rd |-> Register(7, 5), rs2 |-> Register(2, 5),
   small |-> SmallRd, small_rs2 |-> SmallRs2]
RiscvCompDisasm ==
  [shift |-> PermutedBack(Imm5), load8 |-> PermutedBack(Uimm5_4386),
   load4 |-> PermutedBack(Uimm5_4276), store8 |-> PermutedBack(Uimm5386),
   store16 |-> PermutedBack(Uimm5496), store4 |-> PermutedBack(Uimm5276),
   rd |-> ReadsField(7, 5), rs2 |-> ReadsField(2, 5),
   small |-> Less(8, ReadsField(7, 3)), small_rs2 |-> Less(8, ReadsField(2, 3))]

RiscvComp == <<
  << <<"small", "shift">>, Mask16(\hec03) >>,
  << <<"small", "small_rs2">>, Mask16(\hfc63) >>,
  << <<"rd", "load8">>, Mask16(\he003) >>,
  << <<"rd", "load4">>, Mask16(\he003) >>,
  << <<"rd">>, Mask16(\hf07f) >>,
  << <<"rd", "rs2">>, Mask16(\hf003) >>,
  << <<"rs2", "store8">>, Mask16(\he003) >>,
  << <<"rs2", "store16">>, Mask16(\he003) >>,
  << <<"rs2", "store4">>, Mask16(\he003) >>
>>

-----------------------------------------------------------------------------
(* The simulator. *)

RiscvSim ==
  [rd |-> ReadsField(7, 5), rs1 |-> ReadsField(15, 5), rs2 |-> ReadsField(20, 5),
   upper |-> ReadsField(12, 20), immediate |-> Reads(11, At(20, 12)),
   shift |-> ReadsField(20, 5)]
RiscvRuns == <<
  << <<"rd", "upper">>, Mask(\h0000, \h007f) >>,
  << <<"rd", "rs1", "immediate">>, Mask(\h0000, \h707f) >>,
  << <<"rd", "rs1", "rs2">>, Mask(\hfe00, \h707f) >>,
  << <<"rd", "rs1", "shift">>, Mask(\hfe00, \h707f) >>
>>

RiscvForms ==
  FormsOf(RiscvIntegerAsm, RiscvDisasm, RiscvInteger)
    \o FormsOf(RiscvAliasAsm, RiscvAliasDisasm, RiscvAlias)
    \o FormsOf(RiscvFloatAsm, RiscvFloatDisasm, RiscvFloat)
    \o FormsOf(RiscvControlAsm, RiscvControlDisasm, RiscvControl)
    \o FormsOf(RiscvCompAsm, RiscvCompDisasm, RiscvComp)
    \o FormsOf(RiscvIntegerAsm, RiscvSim, RiscvRuns)
=============================================================================
