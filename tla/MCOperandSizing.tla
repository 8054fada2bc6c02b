--------------------------- MODULE MCOperandSizing --------------------------
(* Values for the constants of OperandSizing. *)
EXTENDS OperandSizing

(* The other ways. *)
UnmarkedWays == KnownWays \ MarkedWays

(* Numbers at the limits of the short forms. *)
SomeNumbers == {-129, -1, 8, 64, 255, 2048, 65536}

(* Labels at small numbers, at the end of the zero page and of 64k. *)
SomeOrigins == {0, 252, 65530}

FewNumbers == {0}

=============================================================================
