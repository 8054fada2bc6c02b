# A TLA+ development for naken_asm

naken_asm is a two-pass assembler for some sixty CPUs, with a disassembler and
simulators (`naken_util`).  This directory holds TLA+ models of what all CPUs
share (`common/`, `fileio/`, the loops of `simulate/`), of how the CPUs'
assemblers, disassemblers and simulators agree about the codes of instructions,
of what eight simulators do with registers, flags and memory, the configurations
TLC checks them with, and proofs for TLAPS.  Paths below are
relative to the repository's `src/`.

To check a run: `tlc -config <cfg> <module>`, with `-workers 2` or more; the
table of section 3 names both.  To check proofs: `tlapm <module>` on the modules
whose name ends in `Proofs`.

## 1. The system

The program is sequential: one process, one thread, nothing that survives the
process but the output file; the one thing that comes from outside at any moment
is Ctrl-C.  What makes it hard is *order* and *agreement*: the same source is
read twice and every decision of the second reading has to agree with the first;
the calls of `assemble()` nest in a way the text does not always show; characters
reach the parser through three stacks; several structures are scanned in the
order they were filled; and what an instruction's code means is written down
three times, by authors who had to agree bit by bit.

| part | state | operations | used by |
|---|---|---|---|
| Symbol table (`Symbols`, `MemoryPool`) | list of pools of byte records; `locked`, `in_scope`, `current_scope`, `debug` | append, set, export_symbol, lookup, find, scope_start, scope_end, scope_reset, lock, iterate | `assemble()`, directives, `tokens_get()`, the writers |
| Two-pass driver (`naken_asm.cpp`, `assembler.cpp`) | `pass`, `address`, `segment`, `cpu_list_index`, counters | main's passes, `AsmContext::init`, `assemble`, `assembler_link` | calls everything |
| Directives (`directives*.cpp`) | fields of `AsmContext` | one function for each directive | `assemble()` |
| Conditional assembly, `.repeat` (`directives_if.cpp`, `directives.cpp`) | the C stack of nested `assemble()` and `ifdef_ignore()`, `ifdef_count`, `in_repeat` | .if .ifdef .ifndef .else .endif .repeat .endr | `assemble()` |
| Conditional expressions (`ifdef_expression.cpp`) | recursion over one line, one pushed-back token | eval_ifdef_expression | .if |
| Constant expressions (`EvalExpression`, `Operator`, `Var`) | value and operator stacks of each call of `run()` | run, execute_stack, parse_unary_new | directives, encoders |
| Macros and characters (`Macros`, `tokens`) | stack of expansions, array of expanded parameters, levels of pushed-back characters, open files | macros_expand_params, macros_get_char, tokens_get_char, tokens_unget_char, include_parse | everything that reads |
| Memory image (`Memory`, `MemoryPage`) | list of pages with data, debug lines and extent; `low_address`, `high_address` | read/write 8/16/32, write, write_debug, clear | encoders, readers, writers, simulators |
| Linker and imports (`Linker`, `imports_*`) | imported files, list of functions | search, get_code, link in `assembler_link` | end of each pass |
| Image formats (`fileio/`) | none but locals | one reader and one writer a format | main, naken_util |
| CPU encoders, disassemblers (`asm/`, `disasm/`, `table/`) | none, or marks in the image | parse_instruction, disasm | `assemble()`, naken_util |
| Simulators, naken_util (`simulate/`, `naken_util.cpp`) | registers, break point, `stop_running`, count of calls | run, step, call, push, break, speed | the user |

Interactions that matter:

* **Pass 1 to pass 2.**  What crosses is the symbol table (locked), the image,
  the output range, the list of functions, and by omission `in_scope`, the segment
  and the byte order.  The size pass 1 chose for an instruction with an unknown
  operand crosses *as a byte in the image*, at the address of the instruction.
* **Expansion before parsing.**  `tokens_get()` replaces the name of a symbol by
  its value, and of a macro by its text, so a statement cannot tell a known name
  from a number.
* **Nesting.**  A taken arm of a conditional is a nested call of `assemble()`;
  the callers drop its result.  A skipped arm is a loop that counts.
* **Through the file.**  The writer of a format meets its reader in naken_util
  only through the records on the disk.
* **Assembler, disassembler, simulator.**  They share nothing but, in part, a table
  of opcodes and masks.  Which bit of an operand goes where, what an offset is
  counted from, and what is out of range is written in each of them.

What each part has to get right: the table never holds a name twice in a scope
and never moves a label; the passes put each statement at the same address; the
lines of live arms, and no others, are assembled; a byte that was written is
read back, through pages and through files; an expression has the value its
operators' precedences say; text reaches the parser as if macros had been
replaced in it; every function is linked once and whole; a break point stops a
run; what is assembled is listed and simulated with the same operands; and the
flags one simulated instruction leaves are those the next one asks for.
`PROJECT.json` lists the hazards at their lines.

## 2. Modules

```
SymbolTable  <--refines--  Symbols         <-- SymbolsProofs
     ^ INSTANCE
  TwoPass                                  <-- TwoPassProofs
SourceStream <--refines--  CharStack       <-- CharStackProofs
FlatMemory   <--refines--  Memory          <-- MachineProofs
Expressions  <-- ExpressionMeaning             ExpressionImageProofs
ImageFormats                               <-- ExpressionImageProofs
IfExpression <-- ConditionMeaning
Conditionals <-- IfStatements (both)           ConditionalsProofs (both)
Simulator                                  <-- MachineProofs
Linker, OperandSizing                          ...Proofs
Codes <-- Instructions
      <-- Branches, Mips, Riscv, RiscOperands, ControllerOperands   (forms)
      <-- Alu <-- Z80, Stm8, Processors <-- Programs
MCInstructions = Instructions with all forms, or Programs
MCMachine = Memory, or Simulator;  MCExpressionImage = Expressions, or ImageFormats
```

The `MC...` modules hold the sets and functions that configurations substitute
for constants.

**SymbolTable** is what class `Symbols` promises: a map from (scope, name) to an
address and two flags, one action for each method.  It states which calls fail
(`Failed`), what they leave alone then, and the one call that follows a null
pointer (`fault`).  **Symbols** is the class as written: `pools` is the list of
`MemoryPool`s, each a sequence of entries and a fill count `ptr`; `find()` scans the
pools from the front, twice inside a scope; `append()` puts an entry into the first
pool with room.  `MAX_NAME`, the size of a pool and the width of `Entry::scope`
are constants.  `Table == INSTANCE SymbolTable` maps each key to the entry
`find()` would meet first.

**TwoPass** is `main()` with `assemble()` and the handlers of the statements that
move the address, write bytes, or bind names.  Pass 1 chooses a program
statement by statement, pass 2 reads the same program again (`prog`), so TLC
explores *all* programs up to the bound.  The table is `SymbolTable`, which
`Symbols` implements.  `mem` keeps of each byte whether it is 1, the value
`get_address()` uses as a flag, and which pass wrote it.  The instructions are
those of the 6502 with an address operand.  `.db`, `.dc16` and the encoder refuse
an operand beyond 0xff or 0xffff (`TooLarge`); one that pass 1 does not know counts
as 0 and is refused in pass 2 only, which is one of the reasons LateErrors lists.
Numbers are 0 or more, so the lower ends of the ranges (−128, −32768) are out of the
model.  Nested calls are counted only
(`ifdef_count`), since `.else` and `.repeat` are left to Conditionals.

**Conditionals** is the stack of nested calls: `calls` holds one record for each
`assemble()` of an arm or a block and for a running `ifdef_ignore()`; the actions
are the statements these loops look at.  `Meaning` is the reference: it reads the
same text with an ordinary stack of blocks.  **IfExpression** is the reading of one
condition, token by token: `frames` is the stack of the calls of
`parse_ifdef_expression()` with their locals.  **ConditionMeaning** is what the text
means, by the grammar and the levels of C, which `docs/examples.md:4` names as the
model, for the operators `get_operator()` has a case for.  **IfStatements** composes them: `parse_if()` turns the answer into the
statement that Conditionals goes on with.

**Expressions** is `EvalExpression`: `frames` is the C stack of calls of `run()`,
each with its values (at most three), operators (at most two), `count`, and the
unary operators read so far.  Values are kept as postfix terms whose symbols
carry the place of their token, so that two values are equal just when the same
operations were applied to the same operands.  **ExpressionMeaning** holds the grammar
with the precedences of `Operator.cpp` and the properties that compare the two.

**SourceStream** promises a stream of characters with every call of a macro
replaced by its text.  **CharStack** is how the code gets there: `files`, the stack
of macros (`stack`), the buffer of characters given back (`unget`) cut into levels
(`unget_stack`), and the array the expansions of macros with parameters share
(`def_param_stack_data`, `def_param_stack_ptr`).  The tokenizer is left open: it may
read, give back what it read last, and look names up at any point where the code
does.

**FlatMemory** promises one byte and one debug line for each address, and the
output range.  **Memory** is the list of pages, with the three separate scans of
`write8()` (64 bit ends) and `write()` and `write_debug()` (32 bit ends).

**ImageFormats** runs the writer of a format over an image, byte by byte of its
loop, and then its reader over the records.  Addresses have four digits to a small
base in place of 256, so that the corners at 2^16, 2^24 and 2^32 are near.  A block
that goes on past the last address continues at address 0, as `Memory::write8()` has
it: the blocks of uf2 are padded, and one of them may.

**OperandSizing** is the choice of an instruction's size for 18 kinds of operands
of 17 CPUs, one operator for each encoder, over both passes: the values of operands
follow from the layout and the layout from the values.

**Linker** is the list of functions, the search of `.a` and `.o` files, and
`assembler_link()` with `link_function_mips()` at the end of both passes.  Addresses
count words; the program is one block behind its `.org`.  Pass 1 writes nothing, as
`pass_1_write_disable` is set for every CPU that links (`cpu_list.cpp:955-1063`).  A
call has an opcode and a field: the encoder cuts the address to the field
(`CallWord`), the linker does not, so that the rest changes the opcode (`LinkedCall`).

**Simulator** is the command loop of naken_util and the loops of `run()` of 14
simulators, with the handler of Ctrl-C as an action that may come at any moment.
What an instruction does is abstracted to the pc, the return addresses and the
count of calls.

**Codes** is the vocabulary of the modules about instructions: encoders and
decoders as records (`Number`, `Register`, `Offset`, `Reads`, `Shows`, ...), and what
they do with a value.  **Instructions** takes one instruction through the program:
it is written with some operands, assembled in pass 2 or refused, listed, and
simulated.  **Branches** has the branches of most CPUs.  The other modules have the operands
of whole CPUs:

* **Mips**: MIPS I to IV with the coprocessors, MSA, the vector units of the
  PlayStations and the RSP; the simulator of the integer instructions.
* **Riscv**: RV32/64 with atomics, floating point, control registers and the
  compressed instructions; the simulator.
* **RiscOperands**: PowerPC with AltiVec, ARM64, Xtensa in both byte orders, SH4, the
  Cell SPU, Epiphany, Thumb, ARM and SPARC.
* **ControllerOperands**: dsPIC, Propeller 2, AVR8, LC-3, the four PADAUK cores (pdk13 to
  pdk16) and STM8.

In these a record named `...Asm` gives the encoder of each kind of operand, as the
`switch` of `parse_instruction_*()` has it, `...Disasm` the decoder in the
disassembler, `...Sim` that in the simulator, and a sequence of rows stands for the
table of opcodes: the operands of each kind of row and its mask.

**Alu** is the vocabulary of the simulators: bits, carries and borrows as the code
computes them from the top bits, cells of the memory, and the claims about
programs.  **Z80** and **Stm8** are `simulate/z80.cpp` and `simulate/stm8.cpp`, one
disjunct for each kind of row of the tables; **Processors** has the 6502, the 65816,
the AVR8, the msp430, the 8008 and the 1802.  A machine is a record of registers, flags and memory, an instruction
a record of its row and its operands.  What the code writes out once for each mode
of addressing is one operator here, as long as the copies agree; where a copy
differs, so does the model.  **Programs** runs programs of one to a few of these
instructions, `Execute` for each of them.  Of a program it is claimed that it decides
a comparison (`decide`), computes an exact sum or product (`sum`), or leaves the
same as another one that `StartAgain` runs from the same state (`agree`).

**MCInstructions** composes Instructions and Programs: a behaviour of `SpecEither`
either follows one instruction through assembler, disassembler and simulator, or
runs a short program on a simulator.  In the same way **MCMachine** has the behaviours
of Memory and those of Simulator, and **MCExpressionImage** those of Expressions and
of ImageFormats: two questions each, side by side in one run (`half` says which),
without a step in common.

Definitions marked as a fault (`Find_GlobalFirst`, `MipsLi_NoMark`, ...) are
variants of the definition that follows them, with a plausible mistake.  No
specification uses them.  They document what the properties notice: with the
variant in place of the definition, the property `PROJECT.json` pairs it with is
violated.

## 3. Runs

| run | module, cfg | properties | shows |
|---|---|---|---|
| symbols | MCSymbols, symbols.cfg | UniqueKeys, SharedIsGlobal, LabelsStay, ImplementsTable | any sequence of calls keeps the table consistent over all pools, labels never move, and the pools implement the scoped map, replies and the null pointer included |
| twopass | MCTwoPass, twopass.cfg | PhaseAgreement, NoStaleBytes, ScopesReplayed, LateErrors | the passes agree on all regular programs of four statements of every kind, and of five core ones |
| conditionals | MCConditionals, conditionals.cfg | ConditionalsRight, RepeatClosed, ConditionRight | well-nested sources clear of the known quirks are assembled as written, and conditions have the value they should |
| conditions_accepted | MCConditionals, conditions_accepted.cfg | OperatorsAccepted (violated) | `<=` and `>=` are refused in a condition |
| conditions_equal | MCConditionals, conditions_equal.cfg | LessBeforeEqual (violated) | `==` and `<` are one level: `0 == 0 < 0` is false, unlike in C |
| machine | MCMachine, machine.cfg | PagesDisjoint, ImplementsFlat; BreakStops, StepIsOne, UnmatchedReturnEnds, CallKeepsStack, RunEnds | the pages implement a flat memory below the last page; the 14 loops under all sessions of three commands and Ctrl-C at any moment |
| charstack | MCCharStack, charstack.cfg | LevelsInStep, RegionsLive, ImplementsStream | three stacks and an array read like one text with every macro replaced |
| expression_image | MCExpressionImage, expression_image.cfg | AssertionsHold, AcceptsExpressions, WindowIsEnough; BytesComeBack, RangeComesBack, FilesAccepted, EveryImageEnds | the evaluator accepts and computes what the grammar says, as long as two held operators are enough; an image comes back through every format, byte for byte, with its range |
| sizing | MCOperandSizing, sizing.cfg | PassesAgree, HoldsOperand | operands with a mark have the same size in both passes and are never cut |
| sizing_unmarked | MCOperandSizing, sizing_unmarked.cfg | PassesAgree (violated) | five kinds of operands leave no mark, or one that is lost |
| linker | MCLinker, linker.cfg | LinksWhatIsNeeded, PlacedAtLabel, FunctionsWhole, LinkEnds | every function is linked once, whole, at one place in both passes |
| instructions | MCInstructions, instructions.cfg | OperandsComeBack, OperandsApart, RefusedIsOutOfReach, ComparisonsDecide, SumsExact, WaysAgree | what is assembled is listed and simulated with the same operands, and what is refused no code could express; on eight simulators comparisons branch as the operands compare, sums over several bytes are exact, and programs that mean the same leave the same |

### What is left out of a property, and why

The passes of naken_asm do not agree on every program, so the properties of
TwoPass are about *regular* ones (`Regular`): no name denotes another symbol than
at the same place in pass 1, pass 1 gave no address twice, and no error was
dropped.  The three conditions are history of the model and each is necessary:
without the first a local label that shadows a global one after its use changes a
size in pass 2; without the second a flag byte is overwritten before pass 2 reads
it; without the third a rejected line is followed by others.  The name that the
first `.set` of a variable binds in pass 1 is bound in pass 2, and that is regular.
An operand that was
unknown in pass 1 and is known in pass 2 is regular: that is the forward
reference the flags are for.

In the same way ConditionalsRight leaves out the sources in which an arm ends in
a way the text does not say (`quirk`), AcceptsExpressions and WindowIsEnough leave
out malformed parts the code is known to accept (`sloppy`), WindowIsEnough
leaves out chains of three operators that get tighter (`ThreeDeep`), ConditionRight
leaves out a refused `<=` or `>=`, the conditions in which a call ended where its
caller does not expect it (`strayed`), and those with a `<` behind an `==`
(`EqualThenLess`).  Without one of the three it is violated: the runs
*conditions_accepted* and *conditions_equal* show the first and the last, and
`0 < 1 || 0`, which is false, is what TLC finds without `strayed`.
ImplementsStream speaks until text is displaced by an `.include` in a macro.
FunctionsWhole speaks of archives, and of calls that stay in their region and below
region 4, byte address 0x40000000; without either of these two it is violated.
Instructions leaves out the forms whose parts disagree, and Programs the
instructions whose flags the simulators compute in another way than the
processor.  Each exclusion stands for a behaviour of the built program that section 6
lists.

### Bounds and why they are enough

* *symbols*: two names, one of them too long for the table; a pool of nine bytes
  holds two entries, three entries need two pools.  Two scopes with local and
  global symbols of one name give all orders in which `find()` can meet them.
  `Entry::scope` wraps at `ScopeSize` (2^16 in the code, 4 here), which the bound on
  scopes does not reach (section 6); what does hold of scopes beyond it,
  SharedIsGlobal and LabelsStay, is proved for any number of them.
* *twopass*: a disagreement needs a definition, a use, and something after it
  whose address is wrong; with a scope around it that is five statements.  The
  zero page ends at 2 and the largest 16-bit number is 8, so that addresses of both
  sizes and beyond them occur: a label behind three long instructions is at 9.
* *conditionals*: six statements hold two nested conditionals with an `.else`, or a
  conditional within a block and the other way around; six tokens of a condition
  hold two operators and a parenthesis, in one `.if`.
* *machine*: memory has four pages of two bytes, the last of which cannot be written; three
  addresses, two of them in one page, give the orders in which pages appear.  The
  simulators have programs of four instructions and three commands; of calls and
  returns that do not match three are counted; a page of the TMS1000 has two words.
* *expression_image*: of expressions, eight tokens hold four operands and three operators, or two
  parentheses around two operators.  One operator of each of the levels `*`, `+`,
  `|` stands for all: the code compares precedences only.  Images have a few bytes
  around each corner, with gaps, at both ends of the address space, one of them with
  a padded block that goes beyond the last address; base 4 with lines of three bytes
  gives every coincidence of a full line, a gap and a corner.
* *charstack*: macros that call each other, themselves, and with calls in their
  arguments; three nested macros and eight characters of the array, both of which
  the sources exhaust; two files.
* *sizing*: three instructions whose operands refer forwards, backwards, to
  themselves, or are numbers around the limits of each form.
* *linker*: programs of four calls and labels, five libraries chosen for calls in
  a ring, a function in two files, calls of nothing, an object file, none.  A call
  reaches eight words; of the three origins one is in region 0, one so close to the
  border that functions lie across it, and one in region 4.
* *instructions*: every form with the operands around the limits of its encoder and
  decoder, one at a time while the others are all small or all large, at five
  places around an address that is large enough for its offsets.  Programs get all
  pairs of six bytes or seven words, both carries: the samples lie around 0, around
  the change of the sign and around the carry, with one value without a pattern.
  They lie where the low byte of pc runs over, so that calls push two bytes that
  differ.

### Deadlock and fairness

All programs end: with an exit status, or at a bound of the model.  Therefore
deadlock is not checked.
Three specifications state fairness, `WF_vars` of the program's own steps
(ImageFormats, Linker) or of the running simulator (Simulator): one thread that
waits for nothing goes on as long as it can.  The user is not assumed to do
anything: no fairness on commands or on Ctrl-C.  EveryImageEnds says that writing
and reading ends for each image that does not reach the last address, LinkEnds
that the list is worked off although linking appends to it, and RunEnds that a
run ends once Ctrl-C has come or its program ends.

## 4. Proofs

All theorems hold for every value of the constants that satisfies the module's
assumptions, and for behaviours of any length.

**SymbolsProofs**, from `SymbolsAssumption` (names have a length, and the longest
one with its header fits an empty pool): `TypeCorrect`; `KeysUnique` (`UniqueKeys`,
under `ScopesFit`: the program opens fewer scopes than `Entry::scope` can number;
without it the theorem is false, section 6); `SharedAreGlobal`; `LabelsFixed`, the
action property `LabelsStay`.  `StepEffect` shows that a step changes nothing,
replaces one entry by one with the same key, or adds one entry whose key no entry
has.  It rests on `FindResult` and `FindNothing` (what a scan returns, and what it
means that it returns nothing) and on `ChangeKeeps` and `WithEntryKeeps`.  Each
property is inductive together with TypeOK, and its proof looks at the effects
only.  `TableImplemented` (`ImplementsTable`, under `ScopesFit`) is the refinement: as
keys are unique, the first entry of a key is its only one, so the map that the pools
stand for changes by one binding when one entry is replaced or added
(`BindingReplaced`, `BindingAdded`), a scan finds what the map denotes
(`FindDenotes`, `FindUnbound`), and every call is a step of SymbolTable with the
same reply.

**ExpressionImageProofs** is about Expressions and ImageFormats.  Of Expressions, from
`ExpressionsAssumption`: `TypeCorrect`, and `AssertionsNeverFail`: no assertion of the
two stacks fails, for every token stream and every depth.  `IInv` says of each call of `run()` that its values are as many as
its operators or one more, at most two each, that `count` is their sum, and that
the calls below the last one, and any that has read a unary operator, wait for a
value.  The value a call returns therefore meets either room, or two values and
two operators, one of which `execute_stack()` removes.

Of ImageFormats, from `ImageFormatsAssumption` (addresses lie in the address space,
the base and a line are at least 2): `ImageTypesCorrect`, `ImageBytesComeBack`
(`BytesComeBack`), `ImageRangeComesBack` (`RangeComesBack`) and `ImageFilesAccepted`
(`FilesAccepted`), for every image, base and length of a line, so for 256 and 16 too.
Between the two memories a byte of the program is in a record, or in the record
that is open.  `ImageInv` says for each format where:

* hex, S-records and wdc (`GapsLeftOut`).  The address of a hex record means nothing
  without the segment of the records before it.  `Chain` is a sequence of
  segments, one for each place in the file: what the writer had written there and
  what the reader will have read there.  With such a sequence every record has
  bytes of the program at their addresses (`Intact`), and every byte of the program
  below the loop is in a record or the open one (`Kept`), later in a record still to
  be read or in the memory of naken_util (`Held`).  A record is written with the
  segment the chain ends with, and read with the one it begins with, so a byte
  that moves from the file to the memory keeps its address.
* uf2 (`Uf2Blocks`).  Every block has the bytes of the program at their addresses and
  zeros between and behind them.  The last one is padded beyond the range and, past
  the last address, from address 0 on; since the blocks follow each other evenly
  (`n` is a multiple of Base and what is open behind the first address), its zeros
  end before the first block begins.  The block of the Pico is read before the
  others, which write over it.
* bin (`BinBytes`).  The file is the range, byte by byte.
* The range (`Blocks`, `Ranges`).  What is kept while the file is read is the lowest
  and the highest address in memory; hex and S-records keep both as signed numbers.
  Where `CrossesSign` does not hold these have one sign, so the comparisons order them
  as addresses, and no sum of an address and a length passes 2^31.
* The sums.  Each record of hex and each S3 line carries the sum its reader computes
  (`RecordsRight`); what a sum is of does not matter, only that both sides count the
  same digits of the address (`LowerDigits`, since the line of hex has only half of
  it) and the same bytes.

What is stored and what is left of a range is said by lemmas about the operators
(`RecordAppended`, `RecordTaken`, `SrecRecord`, `WdcRecord`), and division by `Remainder`,
`DividedOnce` and `Around`.  The theorems keep the conditions of the properties
(`TooFar`, `TooLong`, `CrossesSign`) and add none.

**MachineProofs** is about Memory and Simulator, the machine that a program fills
and runs on.  Of Memory, from `MemoryAssumption` (the page size divides the address
space): `TypeCorrect`, `NoPageTwice` (`PagesDisjoint`), `ExtentsCover`,
`NeverHangs` (below the last page every write ends) and `FlatImplemented`
(`Spec => ImplementsFlat`, under `BelowLastPage`).  `IInv` adds that each page
starts at a multiple of the page size and its extent covers its bytes: then a page
holds an address just when it starts at the address's `PageBase` (`HeldByBase`), and
the scans with 64 and with 32 bit ends find the same page unless it is the last.

Of Simulator, from `SimulatorConstants` and `SimulatorLoads` (a program goes and
calls only to its own instructions): `SimulatorTypeCorrect`, `Steps` (`StepIsOne`),
`Breaks` (`BreakStops`), `UnmatchedReturns` (`UnmatchedReturnEnds`) and
`CallsKeepStack` (the action property `CallKeepsStack`).  `SimInv` adds to the types
`BreakIsAsked` (what is stored is the address asked for, in the unit the loop
compares with) and `RunsOn` (a run that goes on has met no reason to stop so far).
`CallInv` adds what the last two need on the MSP430: a `-run` counts exactly the
addresses on its stack as long as it is on (`CountsReturns`), and while a called
function runs the stack is what `call` found, then 0xffff, then addresses of
instructions only (`CallFrames`).  Without the last part a return could reach 0xffff
with something left of the function on the stack.  `FirstReasonEarliest` (the reason
that is found is the first one in the order of the loop) decides that the end of
the function, and not the top of memory, is reported.

**CharStackProofs**, from `CharStackAssumption` (macros and their parameters fit
together): `TypeCorrect`, `LevelsKept` (`LevelsInStep`: one level of given back
characters for each macro being read, in order) and `RegionsKept` (`RegionsLive`: no
expansion overwrites text that is still read).  `IInv` says of each frame of the
stack that its pointer lies in a region of the array below the one above it, and
during the evaluation of arguments that the free region lies above all of them.

**TwoPassProofs**, from `TwoPassAssumption` (names are not addresses): `TypeCorrect`,
`PassesInPhase` (`PhaseAgreement`), `NothingStale` (`NoStaleBytes`), `ScopesAgree`
(`ScopesReplayed`) and `OnlyLateErrors` (the action property `LateErrors`), for programs
of any length.  The theorems keep the condition `Regular` of the properties and add
none.  `LateRange`: a value that was in range in pass 1 is in range in pass 2, so only
the range of a forward reference is a late error.  A statement acts on a context; `NextAddress`, `NextScope`, `NextSkip`,
`NextCount` and `NextVariables` say what an accepted statement makes of one.  The
invariant (`Inductive`) says

* that the contexts noted in pass 1 are a chain of such steps (`Chain`), and the
  bytes of its statements lie apart (`Apart`, under `~overlap`);
* that the table only grows and a label never changes from its place in the chain
  on (`Kept`);
* that the flag at each instruction that pass 2 has not reached says whether pass 1
  knew its operand (`Marked`): nothing else writes there, because of `Apart`;
* that pass 2 stands where the chain stood, variables included (`Replayed`); and
* that a byte of pass 1 lies in the extent of a statement still to come (`Owned`).

No part is inductive without the others: pass 2 keeps in step because the flags are
right, the flags are not overwritten because pass 2 is in step, and a name has
the value it had because the scopes are in step and `~switched`.  A name that pass 1
did not know, and that pass 2 does, is where they differ; there the flag decides.

**OperandSizingProofs**: `TypeCorrect`, `LabelsAgree` (`PassesAgree`) and
`OperandsHeld` (`HoldsOperand`), each for `Ways \subseteq MarkedWays`.  `IInv` says for each
pass what holds of the part it has read: in pass 1 that addresses increase and a
mark lies at every unknown operand, in pass 2 that the addresses so far are those
of pass 1 and the marks ahead are untouched.

**ConditionalsProofs**: `TypeCorrect`, `OpenRepeatReported` (`RepeatClosed`) and
`ConditionTypeCorrect` of IfExpression.  `IInv` says that `ifdef_count` is at least the
number of open arms, and that a `.repeat` that is open has a call that will notice
the end of the file, unless the assembly has failed already.

**LinkerProofs**, from `LinkerConstants` and `LinkerFiles`, for every library and
program: `TypeCorrect`, `LinkedOnce` (`LinksWhatIsNeeded`), `PlacedAgain`
(`PlacedAtLabel`) and `CopiedWhole` (`FunctionsWhole`).  `IInv` says that the list holds
what the program and the functions placed so far call and nothing else, each
once; that the address counts the words since the origin, and the labels of pass 1
are where the functions were placed; and that what pass 2 has copied is right up to
the function it is at.  `CallReaches` is the arithmetic of opcode and field.  That everything on the
list is *needed* is shown by the least place on the list that is not
(`WFMin`, `NatLessThanWellFounded`).

Only model-checked:

* liveness (EveryImageEnds, RunEnds, LinkEnds), which the prover cannot express;
* what recursive definitions mean: ConditionalsRight, ConditionRight,
  AcceptsExpressions and WindowIsEnough compare the code with a grammar or a reading
  of the text that is defined by recursion over its length, and ImplementsStream
  flattens three stacks into one text; this needs induction over data, which the
  installed provers cannot instantiate;
* the forms of instructions and the programs of the simulators, which need Bitwise.

## 5. Not modelled

* The lexical layer: characters to tokens, escapes, numbers and their bases, the
  text of messages, `.list` output other than the operands of an instruction.
* The command line, the choice of the CPU (`set_cpu()`), and the directives that
  only copy text or data (`.binfile`, `.ascii`, `.resb` of constant size, ...).
* The arithmetic of `Var` and `Operator`: Expressions keeps terms, not numbers.
* How an encoder recognises the words of a line, the names of registers and of
  addressing modes, and which row of a table it takes.  The modules of CPUs begin
  where the row is known; immediates of 32 bits are left out as well, since TLC
  computes in 32 bits.
* ELF, Mach-O and Amiga objects, and the reader of TI text.
* What an instruction does to the registers on the simulators of mips, riscv,
  rv32em, tms1000, lc3 and f100_l, other than pc, the stack of return addresses and
  the operands it takes.  On the modelled ones the count of cycles and the display
  are left out, and so are the symbolic mode of the msp430 (Processors counts
  instructions in its pc), and `scal` and `sret` of the 1802.
* `macros_parse()` (how the body of a macro is stored), `iterate()`, `count()` and
  `export_count()` of the symbol table.
* The commands of naken_util that ask for text: `asm`, `print`, `write`, `set`, `disasm`
  and `util_disasm_range()`.
* Simulators with a loop of their own kind: tms9900 and ebpf.  WebAssembly, .NET and
  Java but for its branches: their operands have a variable length.

## 6. Where the code does not do what it says

Three are runs, with the quotations in `PROJECT.json`.  *sizing_unmarked*: pass 1 of
several encoders chooses a size for an operand it cannot evaluate yet, and leaves no
mark for pass 2 or one that is overwritten; labels behind it then move
(6809 indexed, 65816 indirect, tms340, arc with a long immediate, f100_l).
*conditions_accepted* and *conditions_equal*: the conditions of `.if` differ from
those of C in two of the three ways listed below (conditional assembly).

The others were met while modelling.  They are in the models (as an exclusion of
a property, or as a form that is left out because its parts disagree) without a
run of their own.

**Symbols and passes.**
* `Symbols.cpp:161`: the scope number is stored in 16 bits.  Scope 65536 is the
  global one, and the theorem `KeysUnique` needs its hypothesis.  In scope 65537
  `set()` does not find the entry it has just added and follows a null pointer.
* `Symbols.cpp:181`: a `.set` that only pass 2 reaches follows a null pointer (`fault`
  in SymbolTable and Symbols).
* `Symbols.cpp:241`: `iterate()` keeps its offset when it goes on to the next pool.
* `asm/6502.cpp:107`: a local label defined after its use shadows a global one in
  pass 2 only; all labels after it are off by one.
* `directives_if.cpp:106`: `.ifdef` of a label defined later is taken in pass 2 only,
  which moves what follows (excluded by `Regular`).
* `assembler.cpp:85`: `init()` resets neither the segment nor the byte order between
  the passes.

**Conditional assembly.**
* `directives_if.cpp:74`, `directives.cpp:313`: errors in a taken arm, after it, or in
  the condition itself are printed and dropped; the exit status is 0.
* `directives.cpp:328`: `.endif` of an inner conditional in a taken arm does not end
  the nested call; both arms of the outer one are assembled, or none.
* `directives_if.cpp:58`: `.ifndef` in a skipped arm is not counted; a conditional
  inside `.repeat` swallows the `.endr`; a source that ends in a skipped arm is
  accepted after "Missing endif".
* `ifdef_expression.cpp:391-396`: an operator followed by a looser one ends the call
  without evaluating it or setting the result: `0 == 0 && 1` is false, `1 == 2 && 1`
  is true.  A closing parenthesis may be read by a call that did not open it:
  `!(1 == 1) || 1` is false.  Unbalanced parentheses and operators in the place of
  operands are accepted.  `==` and `<` have one level, unlike in C, whose rules
  `docs/examples.md:4` promises; `<=`, `>=` and `!=` are never read as such
  (`tokens.cpp:586-590`), though `ifdef_expression.cpp:67-77` has a case for two; a condition of value −1 counts as an error.

**Expressions.**
* `eval_expression.cpp:199`: three operators that get tighter are applied in the
  wrong order.
* `eval_expression.cpp:36-75,146`: a missing closing parenthesis, an operand missing
  at the end, and an error behind a unary operator are accepted.

**Macros and characters.**
* `Macros.cpp:692`: a malformed call of a macro is reported, but `tokens.cpp:689` takes
  it for the end of the file and no error is counted: the program is cut there.
* An `.include` in a macro's body: the rest of the body is assembled before the file.
* `Macros.cpp:313`: the last byte of the array of parameters may be exceeded by one.

**Memory and files.**
* `Memory.cpp:276`: the end of the last page is 0 in 32 bits; a write there hangs.
* `Memory.cpp:289`: a write below `.low_address` undoes it.
* `file.cpp:264`: binary and WDC files that start at 2^31 or above are rejected, and so
  is a WDC file without a block;
  `read_hex.cpp:106-107`: ranges across 2^31 come back reversed.
* `write_srec.cpp:64`: the checksum of S2 records omits the middle byte of the address.
* `write_wdc.cpp:40-51`: the byte at which the buffer is full is dropped.
* `write_bin.cpp:24` and the other loops never end for a last address of 0xffffffff.

**Linker.**
* `asm/mips.cpp:2817`: the address of a linked call is shifted but not cut to 26 bits
  (the encoder cuts it, line 1763).  Bits 28 and 29 of it fall on the two bits that
  are set in the opcode of jal, so nothing changes below 0x40000000; from there on the
  call becomes another instruction, as with the origin 0x9d000000.  That a call leaves
  its region of 256 MB is not noticed: the test of `asm/mips.cpp:1766` compares a
  value with itself, and the linker has none.
* `Linker.cpp:210`: offset and size are swapped for object files; the result of
  `append()` is ignored (`assembler.cpp:242`); functions can call only what is in a
  library, not the program (`asm/mips.cpp:2800`).  Only mips links.

**Simulators.**
* `Simulate.cpp:40`: `stop_running` is never cleared, so after one Ctrl-C every later
  run is a single step (`docs/simulating.md:14`: "To pause it just press Ctrl-C.").
* `is_break_point_set()` and `in_auto_run()` say the opposite of their names; a run
  after a program has returned is a single step; `call` disarms Ctrl-C and keeps a
  return address on msp430 only; avr8 counts only RET and z80 only CALL; a break
  point given as a number is met at twice its value on avr8, lc3 and f100_l; 6502,
  65816, avr8 and stm8 push one byte only.

**Sizes.**
* 6800 and stm8 cut a forward label above 0xffff without an error; `lda (forward),y` is
  refused on the 65816.

**Forms whose assembler, disassembler or simulator disagree.**  They are left out of
the modules about instructions:
* **Branches.**  avr8 brbs/brbc take the bit for the target (`asm/avr8.cpp:320-347`);
  68hc08 branches on X and on SP use an operand that is not there (`asm/68hc08.cpp:625`,
  `705`); lc3 jsr is listed 0x10000 too far backwards, its simulator adds pc twice, and
  br swaps n and p; powerpc accepts branches of twice the field's range and uses a
  third operand; super_fx tests the target in place of the offset (`asm/super_fx.cpp:265`);
  pic18 and tms9900 accept odd targets; 6809 and sweet16 long branches are unchecked;
  6502 bbr/bbs count from 2 where the CPU counts from 3; thumb `b` has eleven bits of which ten are
  listed; cp1610 counts from 2 and lists from 3; ps2_ee_vu lists no negative offset;
  68000 long branches count from 2 and are listed from 4 and 6; sparc and tms340
  print the range error but go on; 8051 ajmp takes the block of the next instruction
  and lists that of its own; mips j compares the address with itself, so that
  "wrong page" is never reported; arm `b` refuses half of its range; java short
  branches are limited to a byte; arm64 conditional branches are listed 4 too far.
  arm64, epiphany and powerpc refuse a forward branch in pass 1 when the program
  lies farther from 0 than its range.
* **Mips.**  The masks of mtsa and vsqrt (`table/mips.cpp:192`) hold bits of an operand;
  MSA wt is shifted by 26 (`asm/mips.cpp:2160`); vcallms drops bit 14 of its immediate;
  constants of special instructions are looked up at the wrong index.
* **RISC-V.**  The mask of bgez and bltz (`table/riscv.cpp:58`) covers rs1 in place of
  rs2; fmv.x.s and fclass are not listed; c.addi16sp writes its immediate in pass 1
  only; c.addi4spn ORs an error value; the registers and the signed immediates of
  compressed instructions are unchecked; two tables of compressed offsets have a bit
  twice and another not at all; the simulator never takes a branch, shifts jal by 12,
  and stores from the wrong register.
* **PowerPC.**  `fcmpu`, `mcrfs` and `mtfsfi` accept a field number up to 15 for three
  bits; `mtspr` and the stream number of `dst` are unchecked, since another operand is
  tested; `ba` and `bla` use an operand that is not there; two AltiVec layouts list a
  register from another field (`va` for `vb`, one bit for `frc`).
* **ARM64.**  Immediates of `add` and `sub` from 0x1000 on lose their low 12 bits; the
  second limit of `addg` tests the first operand; bit 3 of the operand of `at` is never
  encoded; unsigned offsets of loads and stores are listed in halfwords only, and the
  mask of their rows holds the top bit of the offset; pre- and post-indexed offsets
  are listed unsigned; vector shifts list the size by the wrong marker bit; scalar
  shifts ask for `s` registers and list `d`; `mul` accepts registers of two widths.
* **Xtensa.**  In big-endian order the narrow instructions are listed from a word of 24
  bits, `bbci.l` has the little-endian code, and `beqz.n` puts its register into the
  opcode; `ball`, `bany` and `break` are listed with their operands exchanged; the
  immediates of `dhu` and its kin may be multiples of 4 where only multiples of 16 fit;
  `movi.n` 64 to 95 is listed negative; a second MAC register is always that of `m3`.
* **dsPIC.**  `goto` and `call` accept an odd address, which sets a bit of the mask; `sftac`
  accepts −16 to 16 for six bits; `cp0.b`, `bsw`, `btst` and `push [w+w]` put a bit or a
  register where the disassembler does not look for it; bit instructions on words are
  listed as those on bytes.
* **SH4.**  `@(r0,rm),frn` lists three of the four bits of frn; `xdr` is shown for every xd.
* **Propeller 2.**  20-bit addresses and branch registers are unchecked, addresses
  from 0x400 to 0xfff are listed as a quarter; an operand that is not `ptra` puts 0 to 3
  in place of the number of its register; `ptr[-n]` is listed unsigned.
* **Cell.**  Hints accept 2^17 for a field of 11 bits, `heqi` 2^13 for ten; negative
  immediates of ten bits are listed unsigned.
* **Epiphany.**  The displacement of long loads loses a bit in the listing; the limit of a
  post-modified displacement tests another operand; `trap` lists bits of the next
  instruction; special registers from group 0xf0500 on set bits of the mask.
* **Thumb.**  The immediate of `add rd, rs, #n`, the offset of `ldr rd, [sp, #n]` and the
  numbers of special registers are unchecked; `add sp, sp, #n` loses bit 6, and `add sp, #n`
  above 508 sets the sign; a halfword offset of 62 is refused; `adr` is listed unscaled;
  `cpsid` is listed as `cpsie`.
* **ARM.**  An immediate no rotation can express gives the code 0xffffffff without an
  error (`asm/arm.cpp:196`); rotated immediates are listed shifted the wrong way; `mul`, `mla`,
  `swp`, `mrs` and `msr` are listed as `and`, `eor` and so on, whose rows come first; the
  modes of `ldm` and `stm` are listed exchanged; branches refuse half of their range.
* **STM8.**  `(n,SP)` with n above 0xff becomes `[n]`; `#n`, `[n]` and addresses above 16 bits are
  cut without an error.
* **AVR8.**  Register numbers above 31 and the bits of `bset` and `bclr` (`asm/avr8.cpp:470-476`)
  are unchecked; `movw` refuses only two odd registers and rounds one down; an offset
  of 256 in `ldd` is taken for 0; `sbr` is listed as `ori`.
* **LC-3.**  Negative offsets of `ld` and its kin are listed 0x10000 too far; the simulator
  takes the offset of `ldr` and `str` from ten bits in place of six.
* **PADAUK.**  A bit number of 8 is accepted and sets a bit of the opcode; pdk13 `goto`
  accepts 1024, pdk15 and pdk16 cut addresses to 11 bits; addresses of I/O from 0x40 on
  and of pdk16 memory touch the mask of their row.
* **SPARC.**  A branch out of range is reported but assembled (`asm/sparc.cpp:301`, `339`, `379`);
  rows of `array8` and `alignaddress` have bits of the opcode inside a register.
* **PIC18** (read, not modelled).  `goto` and `call` are listed as half the address, `lfsr` with
  its value put together in another order.

**What the simulators compute.**  These are in the modules as the code has them, and
the programs of Programs do not rely on them:
* Z80: `sbc hl` sets V by the rule of an addition; H of `neg` is wrong; `otir` with B = 0 outputs
  once more than `inir` reads.
* STM8: V compares terms that stand at different bits, so the signed branches go
  wrong.
* 6502 and 65816: `sbc` adds the borrow; `pla` sets no flags; `iny` sets those of X; N of `tax`,
  `tay` and `tsx` is that of the byte behind the instruction.  65816: shifts of A work on
  memory, and rotations add the carry as a number of bits.
* AVR8: `or` subtracts; `sbr` is an `and`; `brsh` and `brlo` ask for other flags; `cpi` leaves the
  carry of an addition, `cpc` a zero flag that forgets the lower bytes; `adiw` and `sbiw` write
  no register; `mul` squares Rd.
* msp430: a byte through `@Rn` is read where register number `Rn` points
  (`simulate/msp430.cpp:459`; the model has no value for it above r15); `cmp.b` and
  `sub.b` of 0 clear C, which the words set; V is wrong when the most negative number
  is subtracted, and `jge` and `jl` with it; `sxt` sets C for negative numbers only;
  `xor.b` looks at bit 15 for V; `reti` does nothing.
* 8008: parity is always 1, since the loop that counts bits asks for `n > 8`
  (`simulate/8008.cpp:427`); a conditional call keeps the address of its own operand
  (`:382`), and keeps it as well when it is not taken but its target follows; a
  return with an empty stack reads beyond the array; `inr`, `dcr`, rotations, `in` and
  `out` are unknown to the simulator.
* 1802: `shl` and `shlc` leave 0x80 in DF, which the operations with carry behind
  them shift or add; `bq` and `bnq` are exchanged, and `lbq` branches when Q is 0; the
  decimal operations add bytes, and `dadc` puts both digits in the upper half; `ret` and
  `dis` move the new X on, `sep` enters one byte behind the register; `bci` branches while
  no counter asks for an interrupt; reset leaves ETQ as it was; `dsmb` has the code of
  `dadd` (`table/1802.cpp:110`).

## 7. Plan

Written: the modules of section 2 and their proofs, in this order: SymbolTable and
Symbols, TwoPass, Conditionals, Memory, Expressions with their proofs; CharStack,
ImageFormats, Simulator, OperandSizing, Linker, IfExpression with theirs; Codes and
Instructions with the modules of CPUs; Alu, Z80, Stm8, Processors and Programs.

To come, by what it would add:

1. The semantics of the other simulators in the terms of Alu, lc3 and tms1000
   first; the operands of the CPUs that have only their branches so far.
2. How a table row is chosen: that no two rows of a table accept the same code
   with different operands.
3. TwoPass with `.binfile`, `.align` and `.repeat`, and composed with Conditionals in
   place of `ifdef_count`.
4. Proofs: the parts of ImplementsStream that need no induction.
