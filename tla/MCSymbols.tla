----------------------------- MODULE MCSymbols -----------------------------
(* Instances of Symbols for TLC. *)
EXTENDS Symbols

CONSTANTS a, big

(* Every name but big is short: a pool holds two entries; append() refuses *)
(* big.                                                                    *)
MCNameLen == [name \in Name |-> IF name = big THEN 4 ELSE 2]
============================================================================
