-------------------------- MODULE ConditionMeaning --------------------------
(***************************************************************************)
(* What the conditions that IfExpression reads mean, and that it answers   *)
(* accordingly.                                                            *)
(***************************************************************************)
EXTENDS IfExpression

(* The operators get_operator() has a case for. *)
Named == Operators \cup {"<="}

(* What the text says: operands and operators take turns, ! stands before  *)
(* an operand, every parenthesis is closed.                                *)
Reading(m, t) ==
  CASE ~m.right -> m
    [] t \in Numbers -> [m EXCEPT !.right = ~m.after, !.after = TRUE]
    [] t = "!"       -> [m EXCEPT !.right = ~m.after]
    [] t = "("       -> [m EXCEPT !.right = ~m.after, !.depth = @ + 1]
    [] t = ")"       -> [m EXCEPT !.right = m.after /\ m.depth > 0, !.depth = @ - 1]
    [] t \in Named   -> [m EXCEPT !.right = m.after, !.after = FALSE]
    [] OTHER         -> [m EXCEPT !.right = FALSE]

Text(tokens) ==
  FoldLeft(Reading, [right |-> TRUE, after |-> FALSE, depth |-> 0], tokens)

WholeLine == cond # << >> /\ Last(cond) = Eol

WellFormed ==
  LET m == Text(Front(cond)) IN WholeLine /\ m.right /\ m.after /\ m.depth = 0

(* What has been read is well-formed as far as it goes. *)
Plausible == IF WholeLine THEN WellFormed ELSE Text(cond).right

Depth(i) == Cardinality({k \in 1 .. i : cond[k] = "("})
              - Cardinality({k \in 1 .. i : cond[k] = ")"})

(* From the loosest to the tightest, as in C. *)
Levels == <<{"||"}, {"&&"}, {"=="}, {"<", "<="}>>

Applied(op, a, b) == IF op = "<=" THEN Truth(a <= b) ELSE Operation(op, a, b)

(* The value of the tokens i to j: the last of the loosest operators       *)
(* outside of all parentheses is done last.                                *)
RECURSIVE Value(_, _)
Value(i, j) ==
  LET outer(l) == {k \in i .. j : cond[k] \in Levels[l] /\ Depth(k) = Depth(i - 1)}
      used == {l \in DOMAIN Levels : outer(l) # {}}
      k == Max(outer(Min(used)))
  IN  IF used # {} THEN Applied(cond[k], Value(i, k - 1), Value(k + 1, j))
      ELSE CASE cond[i] = "0" -> 0
             [] cond[i] = "1" -> 1
             [] cond[i] = "!" -> Truth(Value(i + 1, j) = 0)
             [] cond[i] = "(" -> Value(i + 1, j - 1)

Meant == Answer(Value(1, Len(cond) - 1))

Valued == answer \in {"true", "false"} /\ WellFormed

(* An == and a < behind it are operators of one expression: C does the <   *)
(* first, get_operator() puts them at one level, from left to right.       *)
EqualThenLess ==
  \E i, k \in DOMAIN cond :
    /\ i < k /\ cond[i] = "==" /\ cond[k] = "<" /\ Depth(i) = Depth(k)
    /\ \A j \in i .. k : /\ Depth(j) >= Depth(i)
                        /\ Depth(j) = Depth(i) => cond[j] \notin {"&&", "||"}

(* A condition is refused for a reason: no well-formed one is, whatever    *)
(* the nesting of its calls, parentheses and negations                     *)
(* (ifdef_expression.cpp:231-235, 273-285, 348-376), unless it holds a <=  *)
(* or >=. A well-formed one has the value it has in C, if in no call an    *)
(* operator is followed by a looser one, none but the call made for a      *)
(* parenthesis reads its end (ifdef_expression.cpp:356-411), and no <      *)
(* comes behind an ==. Without strayed, 0 < 1 || 0 is a counterexample;    *)
(* without the others, what the two properties below are violated by.      *)
ConditionRight ==
  /\ answer = "refused" /\ Plausible => \E i \in DOMAIN cond : cond[i] = "<="
  /\ Valued /\ ~strayed /\ ~EqualThenLess => answer = Meant

(* All operators of get_operator() are accepted, as in C style conditions  *)
(* (docs/examples.md:4; not so: ifdef_expression.cpp:67-77,                *)
(* tokens.cpp:586-590).                                                    *)
OperatorsAccepted == answer = "refused" => ~Plausible

(* a == b < c compares b and c first, as in C style conditions             *)
(* (docs/examples.md:4; not so: ifdef_expression.cpp:49-65).               *)
LessBeforeEqual == Valued /\ ~strayed => answer = Meant
============================================================================
