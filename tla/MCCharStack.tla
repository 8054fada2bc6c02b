---------------------------- MODULE MCCharStack ----------------------------
(* Instances of CharStack for TLC: macros and sources. *)
EXTENDS CharStack

CONSTANTS x, y, mac_n, mac_f, mac_r, p1, p2

Two == <<p1, p2>>
Table ==
  mac_n :> [params |-> 0, text |-> <<mac_f, Open, x, Comma>>]
    @@ mac_f :> [params |-> 2, text |-> <<p2, mac_n, y>>]
    @@ mac_r :> [params |-> 0, text |-> <<mac_r, x>>]
Texts == {<<mac_n, x, Close>>, <<mac_r, y>>, <<x, Include, y>>, <<mac_n, y, Comma, y, y, Close, y>>,
          <<mac_f, Open, Comma, y, y, y, y, y, Close, mac_f, Open, x, Comma, Close>>}
  \cup {<<mac_f, Open>> \o s \o <<y>> : s \in BoundedSeq({x, mac_n, mac_f, Open, Close, Comma}, 4)}
Chars == {x, y, mac_n, mac_f, mac_r, Include, Open, Close, Comma, Eol}
Files == {<<y>>, <<mac_n, y, Close>>, <<mac_f, Open, Eol>>}
=============================================================================
