----------------------------- MODULE MCMachine -----------------------------
(* Instances of Memory and Simulator for TLC.  A behaviour is either one   *)
(* of the memory or a session of the simulator; the other part stays as it *)
(* is.                                                                     *)
EXTENDS Memory, Simulator

VARIABLE half   \* which of the two

Op == [kind |-> "op"]
Ret == [kind |-> "ret"]
Stop == [kind |-> "halt"]
Illegal == [kind |-> "bad"]
Goto(p) == [kind |-> "goto", to |-> p]
Gosub(p) == [kind |-> "call", to |-> p]
Place(s) == [p \in 0 .. Last |-> s[p + 1]]

(* A loop, a run into a bad instruction, off the end of memory, a          *)
(* subroutine called from a loop, a main program that returns, nested      *)
(* calls, a halt.                                                          *)
SomePrograms ==
  {Place(<<Op, Op, Op, Goto(1)>>),
   Place(<<Op, Goto(2), Illegal, Goto(0)>>),
   Place(<<Goto(2), Illegal, Op, Op>>),
   Place(<<Gosub(2), Goto(0), Op, Ret>>),
   Place(<<Gosub(2), Ret, Op, Ret>>),
   Place(<<Gosub(2), Ret, Gosub(3), Ret>>),
   Place(<<Op, Stop, Op, Goto(1)>>)}

NoSession ==
  SimInit /\ cpu = "mips" /\ mode = "run" /\ program = Place(<<Op, Op, Op, Goto(1)>>)

MachineInit ==
  \/ half = "memory" /\ Init /\ NoSession
  \/ half = "simulator" /\ Init /\ SimInit

MemoryNext == half = "memory" /\ Next /\ UNCHANGED <<half, simvars>>
SessionNext == half = "simulator" /\ SimNext /\ UNCHANGED <<half, vars>>
SessionIterate == half = "simulator" /\ Iterate /\ UNCHANGED <<half, vars>>

MachineNext == MemoryNext \/ SessionNext

MachineSpec ==
  /\ MachineInit /\ [][MachineNext]_<<half, vars, simvars>>
  /\ WF_simvars(SessionIterate)
=============================================================================
