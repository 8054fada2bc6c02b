----------------------------- MODULE FlatMemory -----------------------------
(***************************************************************************)
(* What class Memory (common/Memory.h, common/Memory.cpp) promises: one    *)
(* byte and one line number per address, 0 and -1 until they are written,  *)
(* and the range of addresses that goes to the output file.  Memory.tla is *)
(* the detailed module, a list of pages, and refines this one.             *)
(***************************************************************************)
EXTENDS Integers

CONSTANTS
  Address,  \* the addresses programs use
  Byte,     \* the values of a byte, 0 among them
  Line,     \* the values of a debug line
  LastAddress \* 0xffffffff, the low address of an empty image

VARIABLES data, debug, low_address, high_address

vars == <<data, debug, low_address, high_address>>

Init ==
  /\ data = [a \in Address |-> 0]
  /\ debug = [a \in Address |-> -1]
  /\ low_address = LastAddress
  /\ high_address = 0

Cover(a) ==
  /\ low_address' = IF a < low_address THEN a ELSE low_address
  /\ high_address' = IF a > high_address THEN a ELSE high_address

Write8(a, byte) ==
  /\ data' = [data EXCEPT ![a] = byte]
  /\ Cover(a)
  /\ UNCHANGED debug

Write(a, byte, line) ==
  /\ data' = [data EXCEPT ![a] = byte]
  /\ debug' = [debug EXCEPT ![a] = line]
  /\ Cover(a)

WriteDebug(a, line) ==
  /\ debug' = [debug EXCEPT ![a] = line]
  /\ UNCHANGED <<data, low_address, high_address>>

Clear ==
  /\ data' = [a \in Address |-> 0]
  /\ UNCHANGED <<debug, low_address, high_address>>

SetLowAddress(a) ==
  /\ low_address' = a
  /\ UNCHANGED <<data, debug, high_address>>

SetHighAddress(a) ==
  /\ high_address' = a
  /\ UNCHANGED <<data, debug, low_address>>

Next ==
  \/ \E a \in Address, byte \in Byte : Write8(a, byte)
  \/ \E a \in Address, byte \in Byte, line \in Line : Write(a, byte, line)
  \/ \E a \in Address, line \in Line : WriteDebug(a, line)
  \/ \E a \in Address : SetLowAddress(a) \/ SetHighAddress(a)
  \/ Clear

Spec == Init /\ [][Next]_vars
=============================================================================
