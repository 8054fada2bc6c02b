------------------------------ MODULE MCLinker ------------------------------
(* Libraries for the instance of Linker that TLC checks. *)
EXTENDS Linker, TLC

CONSTANTS fun_f, fun_g, fun_h

Ar(text, start, size)  == [type |-> "ar", text |-> text, start |-> start, size |-> size]
Obj(text, start, size) == [type |-> "obj", text |-> text, start |-> start, size |-> size]

SomeLibraries ==
  { \* functions that call each other, and themselves
    << Ar(<<fun_g, Plain, Plain, fun_f, fun_h>>, (fun_f :> 0) @@ (fun_g :> 2), (fun_f :> 2) @@ (fun_g :> 2)),
       Ar(<<Plain, fun_h>>, (fun_h :> 0), (fun_h :> 2)) >>,
    \* a function that two files have
    << Ar(<<Plain, fun_f, Plain>>, (fun_f :> 1) @@ (fun_g :> 2), (fun_f :> 1) @@ (fun_g :> 1)),
       Ar(<<fun_h, fun_g, fun_h>>, (fun_f :> 0) @@ (fun_h :> 1), (fun_f :> 1) @@ (fun_h :> 2)) >>,
    \* a call of a function that no file has
    << Ar(<<Plain, fun_h, fun_g>>, (fun_f :> 0) @@ (fun_g :> 2), (fun_f :> 2) @@ (fun_g :> 1)) >>,
    \* an object file
    << Obj(<<Plain, fun_h, Plain, fun_h>>, (fun_f :> 0) @@ (fun_g :> 1) @@ (fun_h :> 2),
           (fun_f :> 1) @@ (fun_g :> 1) @@ (fun_h :> 2)) >>,
    << >> }
=============================================================================
