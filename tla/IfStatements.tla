---------------------------- MODULE IfStatements ----------------------------
(***************************************************************************)
(* parse_if() (common/directives_if.cpp): the condition of an .if is read  *)
(* by eval_ifdef_expression(), and its answer decides how the source goes  *)
(* on.  The conditions of the other statements are chosen, as in           *)
(* Conditionals.                                                           *)
(***************************************************************************)
EXTENDS Conditionals, ConditionMeaning

CONSTANT
  MaxConditions   \* bound: only so many first statements may be an .if
                  \* with a condition read token by token

ASSUME IfStatementsAssumption == MaxConditions \in Nat

(* A 0 is false and any other number true; a refused condition leaves      *)
(* ifdef_count raised and what follows is assembled.                       *)
StatementFor(a) == CASE a = "true" -> "if1" [] a = "false" -> "if0" [] OTHER -> "ifbad"

ReadCondition ==
  /\ status = "running" /\ ~Ignoring /\ Len(src) < MaxConditions
  /\ IfNext
  /\ UNCHANGED vars

ParseIf ==
  /\ answer # "reading"
  /\ Next /\ src' = Append(src, StatementFor(answer))
  /\ cond' = << >> /\ back' = None /\ answer' = "reading" /\ strayed' = FALSE
  /\ frames' = <<Frame(0, 0, 0, 0)>>

Other == cond = << >> /\ Next /\ UNCHANGED ifvars

IfInitAll == Init /\ IfInit

IfNextAll == ReadCondition \/ ParseIf \/ Other

IfSpec == IfInitAll /\ [][IfNextAll]_<<vars, ifvars>>
============================================================================
