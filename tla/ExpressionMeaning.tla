------------------------- MODULE ExpressionMeaning -------------------------
(***************************************************************************)
(* What the expressions of Expressions.tla mean: the grammar with the      *)
(* precedences of common/Operator.cpp, operators of one level taken from   *)
(* left to right.                                                          *)
(***************************************************************************)
EXTENDS Expressions

(* Where an expression starts, the number before a + may be missing. *)
Starts(s, i) == i = 1 \/ s[i - 1] = "("

(* The values of the tokens of s from i to j, read as operands of          *)
(* operators looser than level: none, or one.                              *)
RECURSIVE Parse(_, _, _, _)
Parse(s, i, j, level) ==
  IF i > j THEN {}
  ELSE IF level = 0
  THEN (IF i = j /\ s[i] = "num" THEN {<< <<"num", i>> >>} ELSE {})
       \cup (IF s[i] \in Unary
             THEN {Append(v, <<IF s[i] = "-" THEN "neg" ELSE "not", i>>) :
                     v \in Parse(s, i + 1, j, 0)}
             ELSE {})
       \cup (IF s[i] = "(" /\ s[j] = ")" THEN Parse(s, i + 1, j - 1, 6) ELSE {})
  ELSE Parse(s, i, j, level - 1) \cup
       UNION {{Apply(d, e, <<s[k], k>>) :
                 d \in Parse(s, i, k - 1, level)
                         \cup (IF k = i /\ s[k] = "+" /\ Starts(s, k)
                               THEN {<< <<"zero", k>> >>} ELSE {}),
                 e \in Parse(s, k + 1, j, level - 1)} :
              k \in {m \in i .. j : s[m] \in Binary /\ Prec[s[m]] = level}}

Meanings(s) == Parse(s, 1, Len(s), 6)

(* A token that was pushed back is not part of the expression. *)
Text == IF next = "none" THEN src ELSE SubSeq(src, 1, Len(src) - 1)

Ended == status \in {"ok", "failed"}

(* The open parentheses at a token of the text. *)
Depth(k) == Cardinality({i \in 1 .. k : Text[i] = "("})
              - Cardinality({i \in 1 .. k : Text[i] = ")"})

(* The ways to go on that close all parentheses. *)
Completions ==
  LET closing == [i \in 1 .. Depth(Len(Text)) |-> ")"]
  IN  {Text \o closing, Text \o <<"num">> \o closing}

(* The binary operators, and those of one pair of parentheses. *)
Operators ==
  {k \in DOMAIN Text : Text[k] \in Binary /\ (Starts(Text, k) \/ Text[k - 1] \in {"num", ")"})}
Together(i, k) == Depth(k) = Depth(i) /\ \A m \in i .. k : Depth(m) >= Depth(i)

(* An operator has to wait for one that binds tighter, and that one for a  *)
(* third: run() has no room for it.                                        *)
ThreeDeep ==
  \E i, j, k \in Operators :
    /\ i < j /\ j < k /\ Together(i, k) /\ Depth(j) = Depth(i)
    /\ Prec[Text[i]] > Prec[Text[j]] /\ Prec[Text[j]] > Prec[Text[k]]

(* Apart from the malformed parts run() is known to accept, it accepts     *)
(* exactly the expressions of the grammar, and it stops at a token only    *)
(* when no expression goes on with it                                      *)
(* (eval_expression.cpp:40-107,131-196).                                   *)
AcceptsExpressions ==
  Ended /\ ~sloppy =>
    /\ status = "ok" <=> Meanings(Text) # {}
    /\ status = "failed" /\ next = "none" => \A s \in Completions : Meanings(s) = {}

(* Three values and two operators are enough for every expression whose    *)
(* operators get tighter at most once in a row, inside parentheses and     *)
(* after unary operators, too (eval_expression.cpp:224-252).               *)
WindowIsEnough ==
  status = "ok" /\ ~sloppy /\ ~ThreeDeep => answer \in Meanings(Text)
============================================================================
