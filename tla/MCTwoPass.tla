----------------------------- MODULE MCTwoPass -----------------------------
(* Instances of TwoPass for TLC: sets of statements. *)
EXTENDS TwoPass

CONSTANTS a, b

St(op, name, arg) == [op |-> op, name |-> name, arg |-> arg]
Plain(op) == St(op, a, 0)

Core ==
  {St("label", n, 0) : n \in Name} \cup {St("lda", a, n) : n \in Name}
    \cup {Plain("scope"), Plain("ends"), St("db", a, 1), St("org", a, 0)}
    \cup {St("set", a, v) : v \in {0, 3}}
All ==
  Core \cup {Plain(op) : op \in {"bss", "code", "big_endian", "endif"}}
    \cup {St("label", b, 0), St("func", a, 0), St("ifdef", a, 0), St("export", a, 0),
          St("dc16", a, 1), St("resb", a, 2), St("set", a, b), St("db", a, b),
          St("dc16", a, b)}
(* Long programs are made of the core statements. *)
Long == Len(prog) > 4 => \A i \in DOMAIN prog : prog[i] \in Core
SpecLong == Init /\ [][Next /\ Long']_vars
=============================================================================
