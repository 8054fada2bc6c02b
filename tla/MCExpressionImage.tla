------------------------- MODULE MCExpressionImage -------------------------
(* Instances of Expressions and ImageFormats for TLC.  A behaviour either  *)
(* evaluates an expression or writes and reads an image; the other part    *)
(* stays as it is.                                                         *)
EXTENDS ExpressionMeaning, ImageFormats

VARIABLE half   \* which of the two

CONSTANT Corners   \* where the windows begin

(* A byte tells its address. *)
Bytes(S) == [a \in S |-> a + 1]
Cover(S) == [bytes |-> Bytes(S), low_address |-> Min(S), high_address |-> Max(S)]

(* Any bytes in a few addresses around a corner of the address space,      *)
(* two corners at once, a program longer than the buffer of wdc, and one   *)
(* whose last block of uf2 goes beyond the last address.                   *)
Window(c) == c .. c + 6
Images ==
  {Cover(S) : S \in UNION {SUBSET Window(c) : c \in Corners} \ {{}}}
    \cup {Cover({c, c + 1, c + 4, d, d + 2, d + 3}) : c, d \in Corners}
    \cup {Cover(c .. c + Base ^ 2) : c \in Corners}
    \cup {Cover({Space - 7, Space - 2})}
    \cup {[bytes |-> << >>, low_address |-> Space - 1, high_address |-> 0],
          [bytes |-> Bytes(3 .. 5), low_address |-> 1, high_address |-> 4],
          [bytes |-> Bytes(250 .. 253), low_address |-> 250, high_address |-> Space - 1]}

(* EveryImageEnds says nothing of this image. *)
NoImage == ImageInit /\ format = "hex" /\ image.high_address = Space - 1

EitherInit ==
  \/ half = "expression" /\ Init /\ NoImage
  \/ half = "image" /\ Init /\ ImageInit

ExpressionNext == half = "expression" /\ Next /\ UNCHANGED <<half, imagevars>>
FileNext == half = "image" /\ ImageNext /\ UNCHANGED <<half, vars>>

EitherNext == ExpressionNext \/ FileNext

EitherSpec ==
  /\ EitherInit /\ [][EitherNext]_<<half, vars, imagevars>>
  /\ WF_imagevars(FileNext)
=============================================================================
