--------------------------- MODULE MCConditionals ---------------------------
(* Instances of IfStatements for TLC: all statements, all tokens. *)
EXTENDS IfStatements
============================================================================
