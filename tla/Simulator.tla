----------------------------- MODULE Simulator -----------------------------
(* naken_util's command loop, the state every simulator shares (class      *)
(* Simulate) and the loop of each CPU's run(): one instruction, then a     *)
(* list of reasons to stop, in an order of its own.  Ctrl-C may come at    *)
(* any moment.  What an instruction does to registers and memory is        *)
(* abstracted to what the loop looks at: the pc, the stack of return       *)
(* addresses and the count of calls.  An address counts instructions.      *)
EXTENDS Integers, Sequences

CONSTANTS
  Cpu,           \* the CPUs, names of fields of Simulators
  Programs,      \* instructions at the addresses before Top
  Top,           \* 0xffff
  PageWords,     \* words of a page of the TMS1000
  MaxCommands,   \* commands typed in a session
  MaxNested      \* bound: returns counted without a call, and calls where no return
                 \* is counted; past it only the sign is kept

ASSUME SimulatorConstants ==
  /\ Top \in Nat \ {0} /\ PageWords \in Nat \ {0} /\ Top % PageWords = 0
  /\ MaxCommands \in Nat /\ MaxNested \in Nat \ {0}

ASSUME SimulatorLoads ==
  /\ Programs \subseteq [0 .. Top - 1 -> [kind : {"op", "ret", "halt", "bad"}]
                                      \cup [kind : {"goto", "call"}, to : 0 .. Top - 1]]
  /\ Cpu \subseteq {"msp430", "i8008", "m6502", "m65816", "avr8", "z80", "stm8", "mips",
                   "riscv", "rv32em", "c1802", "tms1000", "lc3", "f100_l"}

VARIABLES
  cpu, program,        \* what was loaded
  mode,                \* "interactive", or "run" for naken_util -run
  where,               \* "prompt", "running", "exited" or "killed" by Ctrl-C
  pc, stack, nested_call_count,
  break_point,         \* as stored; None when there is none
  usec,                \* 0: single steps, 1: any delay
  auto_run, stop_running,
  handler,             \* Ctrl-C sets stop_running; else it ends the process
  step,                \* the argument of run()
  command, entry,      \* history: the command that runs, the stack it found
  asked, by_name,      \* history: where break was asked for, by a symbol or not
  executed,            \* history: instructions of this run, up to 2
  ended,               \* history: why the last run ended
  commands             \* history: commands typed

machine == <<pc, stack, nested_call_count>>
settings == <<break_point, usec, asked, by_name>>
session == <<cpu, program, mode>>
simvars == <<machine, settings, session, where, auto_run, stop_running, handler,
          step, command, entry, executed, ended, commands>>

None == -1
Last == Top - 1
Location == 0 .. Top
Instruction ==
  [kind : {"op", "ret", "halt", "bad"}] \cup [kind : {"goto", "call"}, to : 0 .. Last]
-----------------------------------------------------------------------------
(* The loops, one per CPU.  checks: the reasons to end a run in the order  *)
(* they are tried after an instruction (the 6502s end on a bad one before  *)
(* they look at it as illegal).  counts: the instructions that move        *)
(* nested_call_count.  stays: a bad instruction leaves the pc on itself.   *)
(* kinds: instructions with a stack of return addresses, or a halt.        *)
Plain == {"op", "goto", "bad"}
Stacked == Plain \cup {"call", "ret"}
Loop(checks, counts, stays, kinds) ==
  [checks |-> checks, counts |-> counts, stays |-> stays, kinds |-> kinds]

SimulateMsp430_Returns ==   \* fault: calls are not counted
  Loop(<<"returned", "illegal", "break", "step", "top">>, {"ret"}, FALSE, Stacked)
SimulateMsp430 ==
  Loop(<<"returned", "illegal", "break", "step", "top">>, {"call", "ret"}, FALSE, Stacked)
Simulate8008 ==
  Loop(<<"returned", "illegal", "break", "step", "top">>, {}, FALSE, Stacked \cup {"halt"})
Simulate6502 == Loop(<<"brk", "break", "step", "top">>, {}, TRUE, Stacked)
Simulate65816 == Loop(<<"brk", "break", "step", "top">>, {}, TRUE, Stacked)
SimulateAvr8 ==      \* only RET is counted
  Loop(<<"returned", "illegal", "break", "step">>, {"ret"}, FALSE, Stacked)
SimulateZ80 ==       \* only CALL is counted
  Loop(<<"returned", "illegal", "halt", "break", "step", "top">>, {"call"}, FALSE,
       Stacked \cup {"halt"})
SimulateStm8 ==
  Loop(<<"returned", "illegal", "break", "top", "step">>, {}, FALSE, Stacked)
SimulateMips == Loop(<<"illegal", "break", "step">>, {}, TRUE, Plain)
SimulateRiscv == Loop(<<"illegal", "break", "step">>, {}, TRUE, Plain)
SimulateRv32em == Loop(<<"illegal", "break", "step">>, {}, TRUE, Plain)
Simulate1802 == Loop(<<"illegal", "break", "step">>, {}, TRUE, Plain)
SimulateTms1000_NoStep ==    \* fault: no test of usec and step
  Loop(<<"returned", "illegal", "break">>, {}, FALSE, Plain)
SimulateTms1000 == Loop(<<"returned", "illegal", "break", "step">>, {}, FALSE, Plain)
SimulateLc3 ==       \* "top" is a 0xffff in R0
  Loop(<<"returned", "illegal", "break", "step", "top">>, {}, FALSE, Plain)
SimulateF100L ==
  Loop(<<"returned", "illegal", "break", "step">>, {}, FALSE, Plain \cup {"halt"})

Simulators ==
  [msp430 |-> SimulateMsp430, i8008 |-> Simulate8008, m6502 |-> Simulate6502,
   m65816 |-> Simulate65816, avr8 |-> SimulateAvr8, z80 |-> SimulateZ80,
   stm8 |-> SimulateStm8, mips |-> SimulateMips, riscv |-> SimulateRiscv,
   rv32em |-> SimulateRv32em, c1802 |-> Simulate1802, tms1000 |-> SimulateTms1000,
   lc3 |-> SimulateLc3, f100_l |-> SimulateF100L]
Simulator == Simulators[cpu]

BytesPerAddress == IF cpu \in {"avr8", "lc3", "f100_l"} THEN 2 ELSE 1

(* Where an instruction is followed by another: the pc of the TMS1000      *)
(* counts within its page.                                                 *)
NextPc(p) ==
  IF p = Top THEN Top
  ELSE IF cpu = "tms1000" /\ (p + 1) % PageWords = 0 THEN p + 1 - PageWords ELSE p + 1
At(p) == IF p = Top THEN [kind |-> "bad"] ELSE program[p]

(* Is the pc at the break point?  The TMS1000 compares its page with the   *)
(* bits above the low byte, four pages wide.                               *)
Hits(p) ==
  IF cpu = "tms1000"
  THEN /\ break_point # None
       /\ break_point \div (4 * PageWords) = p \div PageWords
       /\ break_point % PageWords = p % PageWords
  ELSE break_point = p
-----------------------------------------------------------------------------
SimInit ==
  /\ cpu \in Cpu
  /\ program \in {q \in Programs : \A p \in 0 .. Last : q[p].kind \in Simulator.kinds}
  /\ mode \in {"interactive", "run"} /\ where = "prompt"
  /\ pc = 0 /\ stack = << >> /\ nested_call_count = 0
  /\ break_point = None /\ usec = 1 /\ auto_run = TRUE
  /\ stop_running = FALSE /\ handler = TRUE
  /\ step = FALSE /\ command = "none" /\ entry = << >> /\ asked = None /\ by_name = FALSE
  /\ executed = 0 /\ ended = "none" /\ commands = 0

(* run(max_cycles, step) is entered; the TMS1000 arms Ctrl-C anew.         *)
EnterRun(name, single, armed) ==
  /\ where' = "running" /\ step' = single /\ command' = name
  /\ executed' = 0 /\ ended' = "none"
  /\ handler' = (cpu = "tms1000" \/ armed)
  /\ stop_running' = (stop_running /\ cpu # "tms1000")
  /\ UNCHANGED <<session, settings>>

Type == mode = "interactive" /\ where = "prompt" /\ commands < MaxCommands
          /\ commands' = commands + 1

(* run [address]; -run is this command once, without a prompt.             *)
Run(at) ==
  /\ where = "prompt"
  /\ IF mode = "run" THEN at = None /\ UNCHANGED commands ELSE Type
  /\ pc' = (IF at = None THEN pc ELSE at)
  /\ auto_run' = (auto_run /\ usec # 0)
  /\ EnterRun("run", FALSE, handler /\ usec # 0)
  /\ UNCHANGED <<stack, nested_call_count, entry>>

Step ==
  /\ Type
  /\ auto_run' = FALSE
  /\ EnterRun("step", TRUE, FALSE)
  /\ UNCHANGED <<machine, entry>>

(* An empty line runs one more instruction in single step mode.            *)
Again ==
  /\ Type /\ usec = 0
  /\ EnterRun("again", TRUE, handler)
  /\ UNCHANGED <<machine, auto_run, entry>>

PushesWholeAddress == cpu \in {"msp430", "i8008", "z80"}
Pushed_Twice(value) == IF PushesWholeAddress THEN stack \o <<value, value>> ELSE stack  \* fault
Pushed(value) == IF PushesWholeAddress THEN Append(stack, value) ELSE stack

(* call f: push 0xffff, put f into "r0" (the pc of the MSP430), run.       *)
CallCommand(f) ==
  /\ Type /\ (PushesWholeAddress \/ "call" \notin Simulator.kinds)
  /\ stack' = Pushed(Top)
  /\ pc' = (IF cpu = "msp430" THEN f ELSE pc)
  /\ entry' = stack
  /\ auto_run' = (auto_run /\ usec = 0)
  /\ EnterRun("call", FALSE, handler /\ usec = 0)
  /\ UNCHANGED nested_call_count

Idle == UNCHANGED <<session, where, auto_run, stop_running, handler, step, command,
                    entry, executed, ended>>

Push(value) ==
  /\ Type /\ PushesWholeAddress
  /\ stack' = Pushed(value)
  /\ Idle /\ UNCHANGED <<pc, nested_call_count, settings>>

BreakAddress_Bytes(t, named) == t * BytesPerAddress           \* fault
BreakAddress(t, named) == IF named THEN t ELSE t * BytesPerAddress

Break(t, named) ==
  /\ Type
  /\ break_point' = BreakAddress(t, named) /\ asked' = t /\ by_name' = named
  /\ Idle /\ UNCHANGED <<machine, usec>>

RemoveBreak ==
  /\ Type
  /\ break_point' = None /\ asked' = None /\ UNCHANGED by_name
  /\ Idle /\ UNCHANGED <<machine, usec>>

Speed(delay) ==
  /\ Type
  /\ usec' = delay
  /\ Idle /\ UNCHANGED <<machine, break_point, asked, by_name>>

(* Every reset empties the stack; not all forget the break point and the   *)
(* calls.                                                                  *)
ForgetsBreak == cpu \in {"msp430", "m6502", "m65816", "avr8", "stm8", "c1802"}
ForgetsCalls == ForgetsBreak \/ cpu = "z80"
Reset ==
  /\ Type
  /\ pc' = 0 /\ stack' = << >>
  /\ nested_call_count' = (IF ForgetsCalls THEN 0 ELSE nested_call_count)
  /\ break_point' = (IF ForgetsBreak THEN None ELSE break_point)
  /\ asked' = (IF ForgetsBreak THEN None ELSE asked)
  /\ Idle /\ UNCHANGED <<usec, by_name>>

Quit ==
  /\ Type
  /\ where' = "exited"
  /\ UNCHANGED <<machine, settings, session, auto_run, stop_running, handler, step,
                 command, entry, executed, ended>>
-----------------------------------------------------------------------------
Leave == where' = IF mode = "run" THEN "exited" ELSE "prompt"

FirstReason(checks, holds) ==
  IF \E i \in DOMAIN checks : checks[i] \in holds
  THEN checks[CHOOSE i \in DOMAIN checks :
                checks[i] \in holds /\ \A j \in 1 .. (i - 1) : checks[j] \notin holds]
  ELSE "none"

(* The ends that leave Ctrl-C armed.                                       *)
LeavesArmed == IF cpu = "stm8" THEN {"none"} ELSE {"none", "returned", "illegal"}

Within(n) ==
  IF n < -MaxNested THEN -MaxNested
  ELSE IF n > MaxNested /\ Simulator.counts = {"call"} THEN MaxNested ELSE n

(* What the loop does after an instruction that left the pc at p and the   *)
(* count at n, and was itself bad or a halt (seen).  The end of a          *)
(* function reads the reset vector.                                        *)
AfterInstruction(p, n, seen) ==
  \E holds \in {seen \cup (IF auto_run /\ n < 0 THEN {"returned"} ELSE {})
                     \cup (IF Hits(p) THEN {"break"} ELSE {})
                     \cup (IF usec = 0 \/ step THEN {"step"} ELSE {})
                     \cup top : top \in IF cpu = "lc3" THEN {{}, {"top"}}
                                        ELSE {IF p = Top THEN {"top"} ELSE {}}} :
    LET end == FirstReason(Simulator.checks, holds)
    IN  /\ ended' = end
        /\ IF end = "top" THEN pc' \in 0 .. Last ELSE pc' = p
        /\ nested_call_count' = Within(n)
        /\ handler' = (handler /\ end \in LeavesArmed)
        /\ IF end = "none" THEN UNCHANGED where ELSE Leave
        /\ executed' = (IF executed < 2 THEN executed + 1 ELSE 2)
        /\ UNCHANGED <<session, settings, auto_run, step, command, entry, commands>>

Executes_Deaf(kind) == where = "running" /\ At(pc).kind = kind   \* fault
Executes(kind) == where = "running" /\ ~stop_running /\ At(pc).kind = kind
Counted(kind, n) == IF kind \in Simulator.counts THEN n ELSE 0

Operate ==
  /\ Executes("op")
  /\ AfterInstruction(NextPc(pc), nested_call_count, {})
  /\ UNCHANGED <<stack, stop_running>>

Jump ==
  /\ Executes("goto")
  /\ AfterInstruction(At(pc).to, nested_call_count, {})
  /\ UNCHANGED <<stack, stop_running>>

Call ==
  /\ Executes("call")
  /\ stack' = Append(stack, NextPc(pc))
  /\ AfterInstruction(At(pc).to, nested_call_count + Counted("call", 1), {})
  /\ UNCHANGED stop_running

(* A return with an empty stack goes anywhere.                             *)
Return ==
  /\ Executes("ret")
  /\ \E p \in IF stack = << >> THEN Location ELSE {stack[Len(stack)]} :
       AfterInstruction(p, nested_call_count - Counted("ret", 1), {})
  /\ stack' = (IF stack = << >> THEN << >> ELSE SubSeq(stack, 1, Len(stack) - 1))
  /\ UNCHANGED stop_running

(* The 8008 and the F100-L stop at the head of the loop, for good.         *)
Halt ==
  /\ Executes("halt")
  /\ AfterInstruction(NextPc(pc), nested_call_count,
                      IF cpu = "z80" THEN {"halt"} ELSE {})
  /\ stop_running' = (cpu # "z80")
  /\ UNCHANGED stack

Bad ==
  /\ Executes("bad")
  /\ AfterInstruction(IF Simulator.stays THEN pc ELSE NextPc(pc), nested_call_count,
                      {"illegal", "brk"})
  /\ UNCHANGED <<stack, stop_running>>

(* while (stop_running == false) ends.                                     *)
Stopped ==
  /\ where = "running" /\ stop_running
  /\ Leave /\ handler' = FALSE /\ ended' = "stopped"
  /\ UNCHANGED <<machine, settings, session, auto_run, stop_running, step, command, entry,
                 executed, commands>>

Iterate == Operate \/ Jump \/ Call \/ Return \/ Halt \/ Bad \/ Stopped

(* SIGINT: handle_signal() disarms itself; unarmed, the process ends.      *)
CtrlC ==
  /\ where \in {"prompt", "running"}
  /\ IF handler THEN stop_running' = TRUE /\ handler' = FALSE /\ UNCHANGED where
     ELSE where' = "killed" /\ UNCHANGED <<stop_running, handler>>
  /\ UNCHANGED <<machine, settings, session, auto_run, step, command, entry, executed,
                 ended, commands>>

Commands ==
  \/ \E at \in {None} \cup 0 .. Last : Run(at)
  \/ Step \/ Again \/ RemoveBreak \/ Reset \/ Quit
  \/ \E f \in 0 .. Last : CallCommand(f) \/ Push(f)
  \/ \E t \in 0 .. Last, named \in BOOLEAN : Break(t, named)
  \/ \E delay \in {0, 1} : Speed(delay)

SimNext == Commands \/ Iterate \/ CtrlC
SimSpec == SimInit /\ [][SimNext]_simvars /\ WF_simvars(Iterate)
-----------------------------------------------------------------------------
SessionOK ==
  /\ cpu \in Cpu /\ mode \in {"interactive", "run"} /\ program \in [0 .. Last -> Instruction]
  /\ commands \in 0 .. MaxCommands
MachineOK ==
  /\ pc \in Location /\ stack \in Seq(Location)
  /\ nested_call_count \in Int /\ nested_call_count >= -MaxNested
SettingsOK ==
  /\ break_point \in Int /\ usec \in {0, 1}
  /\ asked \in {None} \cup 0 .. Last /\ by_name \in BOOLEAN
RunOK ==
  /\ where \in {"prompt", "running", "exited", "killed"}
  /\ auto_run \in BOOLEAN /\ stop_running \in BOOLEAN /\ handler \in BOOLEAN /\ step \in BOOLEAN
  /\ command \in {"none", "run", "step", "again", "call"} /\ entry \in Seq(Location)
  /\ executed \in 0 .. 2
  /\ ended \in {"none", "returned", "illegal", "halt", "brk", "break", "step", "top", "stopped"}
SimTypeOK == SessionOK /\ MachineOK /\ SettingsOK /\ RunOK

(* A run never goes on from the instruction break was asked for: whatever  *)
(* else the loop of the CPU looks at, and whatever stopped the runs before.*)
(* Only where break and the loop count addresses alike: the CPUs of 2      *)
(* bytes an address need the break point by name, the TMS1000 in page 0.   *)
UnitsAgree ==
  /\ BytesPerAddress = 1 \/ by_name
  /\ cpu = "tms1000" => pc \div PageWords = 0 /\ asked \div PageWords = 0
BreakStops ==
  where = "running" /\ executed > 0 /\ UnitsAgree => pc # asked

(* Single step mode, step and an empty line execute at most one            *)
(* instruction, on every CPU.                                              *)
StepIsOne == where = "running" /\ (usec = 0 \/ step) => executed = 0

(* naken_util -run on the MSP430 counts the return addresses on the stack, *)
(* and ends as "returned" exactly when a return finds none: the end of a   *)
(* program that Java Grinder's tests rely on.                              *)
UnmatchedReturnEnds ==
  mode = "run" /\ cpu = "msp430" =>
    IF nested_call_count < 0 THEN stack = << >> /\ where # "running" /\ ended = "returned"
    ELSE nested_call_count = Len(stack) /\ ended # "returned"

(* call f on the MSP430 leaves the stack as it found it when the function  *)
(* is over (a program that cannot run off the end of memory).              *)
CallKeepsStack ==
  [][/\ cpu = "msp430" /\ command = "call" /\ ended' = "top" /\ where = "running"
     /\ program[Last].kind \notin {"op", "call"}
     => stack' = entry]_simvars

(* Once Ctrl-C was caught, and in single step mode always, the run comes   *)
(* to its end, whatever the program does.                                  *)
RunEnds == (where = "running" /\ (stop_running \/ step \/ usec = 0)) ~> (where # "running")
=============================================================================
