---------------------------- MODULE Expressions ----------------------------
(***************************************************************************)
(* EvalExpression (common/eval_expression.h, common/eval_expression.cpp):  *)
(* the evaluation of one constant expression.  run() keeps at most three   *)
(* values and two operators; a parenthesis, and the operand of a unary     *)
(* operator, call it again.  The stack of calls is frames.                 *)
(*                                                                         *)
(* What is computed is kept in postfix form: the symbols of the operation, *)
(* each with the place of its token in the source, so that two values are  *)
(* equal when the same operations are applied to the same operands.        *)
(***************************************************************************)
EXTENDS Integers, Sequences, FiniteSets

CONSTANTS
  Token,     \* the tokens an expression may hold
  MaxTokens  \* bound: the tokens one evaluation reads

(* Operator::set_operator(): the smaller number binds tighter. *)
Prec ==
  [o \in {"*", "/", "%", "+", "-", "<<", ">>", "&", "^", "|"} |->
     CASE o \in {"*", "/", "%"} -> 1
       [] o \in {"+", "-"} -> 2
       [] o \in {"<<", ">>"} -> 3
       [] o = "&" -> 4
       [] o = "^" -> 5
       [] o = "|" -> 6]
Binary == DOMAIN Prec
Unary == {"-", "~"}

(* num: a number; eol: the end of the line or file; sep: one of , ] [ .    *)
(* name: a name without a value, or any other token.                       *)
Tokens == Binary \cup Unary \cup {"num", "(", ")", "sep", "eol", "name"}

ASSUME ExpressionsAssumption == Token \subseteq Tokens /\ MaxTokens \in Nat

VARIABLES
  frames,  \* the calls of run(); the first is the one without parenthesis
  next,    \* the token that was pushed back, or "none"
  status,  \* "running", or how the evaluation ended
  answer,
  src,     \* history: the tokens read
  sloppy   \* history: a malformed part was accepted

vars == <<frames, next, status, answer, src, sloppy>>

Symbol == (Tokens \cup {"zero", "neg", "not"}) \X (1 .. MaxTokens)
Value == Seq(Symbol)
Frame == [values : Seq(Value), opers : Seq(Binary \X (1 .. MaxTokens)),
          count : 0 .. 4,
          unary : Value]  \* the operators parse_unary_new() has read

TypeOK ==
  /\ frames \in Seq(Frame) /\ frames # << >>
  /\ next \in Tokens \cup {"none"}
  /\ status \in {"running", "ok", "failed", "aborted"}
  /\ answer \in Value
  /\ src \in Seq(Token) /\ Len(src) <= MaxTokens
  /\ sloppy \in BOOLEAN

----------------------------------------------------------------------------

Call(values, opers, count, unary) ==
  [values |-> values, opers |-> opers, count |-> count, unary |-> unary]
Run == Call(<< >>, << >>, 0, << >>)

Init ==
  /\ frames = <<Run>>
  /\ next = "none"
  /\ status = "running"
  /\ answer = << >>
  /\ src = << >>
  /\ sloppy = FALSE

Top == frames[Len(frames)]
Below == SubSeq(frames, 1, Len(frames) - 1)
IsParen == Len(frames) > 1
InUnary == Top.unary # << >>

NeedSymbol == Top.count \in {1, 3}

(* Fault: a unary operator may only stand at the start. *)
NeedNumber_Start == Top.count = 0

NeedNumber == Top.count \in {0, 2, 4}

(* The next token, and its symbol in a value. *)
Get(t) ==
  /\ status = "running" /\ t \in Token
  /\ \/ next = "none" /\ Len(src) < MaxTokens /\ src' = Append(src, t)
     \/ next = t /\ UNCHANGED src
Sym(s) == <<s, Len(src')>>
Consume == next' = "none"
PushBack(t) == next' = t

(* Fault: an operator is taken before one that binds as tight. *)
TakeLast_Equal(f) ==
  Len(f.opers) = 2 /\ Prec[f.opers[1][1]] >= Prec[f.opers[2][1]]

(* get_precedence_index() *)
TakeLast(f) == Len(f.opers) = 2 /\ Prec[f.opers[1][1]] > Prec[f.opers[2][1]]

(* Fault: the operator that was applied stays on its stack. *)
WithoutFirst_Kept(opers) == opers

WithoutFirst(opers) == Tail(opers)

(* execute_stack(): one operator is applied to two neighbouring values. *)
Apply(d, s, oper) == d \o s \o <<oper>>
Execute(f) ==
  LET n == Len(f.values)
  IN  IF TakeLast(f)
      THEN Call(Append(SubSeq(f.values, 1, n - 2),
                       Apply(f.values[n - 1], f.values[n], f.opers[2])),
                <<f.opers[1]>>, f.count, f.unary)
      ELSE Call(<<Apply(f.values[1], f.values[2], f.opers[1])>> \o SubSeq(f.values, 3, n),
                WithoutFirst(f.opers), f.count, f.unary)

(* A call of run() gets a value: three values are reduced to two. *)
Received(f, value) ==
  LET g == Call(Append(f.values, value), f.opers, f.count + 1, << >>)
      h == Execute(g)
  IN  IF Len(g.values) < 3 THEN g ELSE Call(h.values, h.opers, h.count - 2, h.unary)

(* "aborted" stands for the assertions of the two stacks and for the       *)
(* inner checks of their sizes.                                            *)
Receive(calls, value) ==
  LET f == calls[Len(calls)]
  IN  IF Len(f.values) >= 2 /\ Len(f.opers) # 2
      THEN status' = "aborted" /\ UNCHANGED frames
      ELSE /\ frames' = [calls EXCEPT ![Len(calls)] = Received(f, value)]
           /\ UNCHANGED status

(* run() returns -1.  The caller of parse_unary_new() does not look at the *)
(* result and applies its operator to 0; all others pass it on.            *)
Waiting == {i \in DOMAIN frames : frames[i].unary # << >>}
Fail ==
  /\ IF Waiting = {} THEN status' = "failed" /\ UNCHANGED <<frames, sloppy>>
     ELSE /\ \E i \in Waiting :
               /\ \A j \in Waiting : j <= i
               /\ Receive(SubSeq(frames, 1, i), <<Sym("zero"), frames[i].unary[1]>>)
          /\ sloppy' = TRUE
  /\ UNCHANGED answer

Reversed(s) == [i \in DOMAIN s |-> s[Len(s) + 1 - i]]

(* run() leaves its loop: what is left is applied, and the last value is   *)
(* the answer, of which the unary operators before the parenthesis make    *)
(* theirs.                                                                 *)
Result(f) ==
  LET g == IF Len(f.values) = 2 /\ f.opers # << >> THEN Execute(f) ELSE f
  IN  g.values[Len(g.values)]
Return(closed) ==
  IF Top.values = << >> THEN Fail
  ELSE /\ sloppy' = (sloppy \/ Len(Top.opers) >= Len(Top.values)
                            \/ (IsParen /\ ~closed))
       /\ IF IsParen
          THEN /\ Receive(Below, Result(Top) \o Reversed(Below[Len(Below)].unary))
               /\ UNCHANGED answer
          ELSE /\ status' = "ok"
               /\ answer' = Result(Top)
               /\ UNCHANGED frames

----------------------------------------------------------------------------

Number ==
  /\ Get("num")
  /\ IF NeedSymbol THEN Fail
     ELSE /\ Receive(frames, <<Sym("num")>> \o Reversed(Top.unary))
          /\ UNCHANGED <<answer, sloppy>>
  /\ Consume

(* A parenthesis after a number may be the syntax of an instruction. *)
Open ==
  /\ Get("(")
  /\ \/ /\ NeedSymbol
        /\ Return(FALSE)
        /\ PushBack("(")
     \/ /\ ~NeedSymbol
        /\ frames' = Append(frames, Run)
        /\ Consume
        /\ UNCHANGED <<status, answer, sloppy>>

Close ==
  /\ ~InUnary
  /\ Get(")")
  /\ Return(TRUE)
  /\ IF IsParen THEN Consume ELSE PushBack(")")

EndOfLine ==
  /\ ~InUnary
  /\ Get("eol")
  /\ Return(FALSE)
  /\ PushBack("eol")

Separator ==
  /\ ~InUnary
  /\ Get("sep")
  /\ IF IsParen THEN Fail /\ Consume
                ELSE Return(FALSE) /\ PushBack("sep")

Name ==
  /\ ~InUnary
  /\ Get("name")
  /\ Fail /\ Consume

(* parse_unary_new() meets a token that is no operand: it returns -1. *)
UnaryError ==
  /\ InUnary
  /\ \E t \in Token \ (Unary \cup {"num", "("}) : Get(t)
  /\ Receive(frames, <<Sym("zero"), Top.unary[1]>>)
  /\ sloppy' = TRUE
  /\ Consume
  /\ UNCHANGED answer

WithTop(f) ==
  /\ frames' = [frames EXCEPT ![Len(frames)] = f]
  /\ UNCHANGED <<status, answer, sloppy>>

UnaryOperator ==
  /\ InUnary \/ NeedNumber
  /\ \E t \in Unary :
       /\ Get(t)
       /\ LET s == Sym(IF t = "-" THEN "neg" ELSE "not")
          IN  WithTop([Top EXCEPT !.unary = Append(@, s)])
  /\ Consume

(* A + before the first number is added to 0. *)
LeadingPlus ==
  /\ ~InUnary /\ Top.count = 0
  /\ Get("+")
  /\ WithTop(Call(Append(Top.values, <<Sym("zero")>>), Append(Top.opers, Sym("+")),
                  2, Top.unary))
  /\ Consume

Operator ==
  /\ ~InUnary /\ NeedSymbol
  /\ \E t \in Binary :
       /\ Get(t)
       /\ IF Len(Top.opers) >= 2
          THEN status' = "aborted" /\ UNCHANGED <<frames, answer, sloppy>>
          ELSE WithTop(Call(Top.values, Append(Top.opers, Sym(t)),
                            Top.count + 1, Top.unary))
  /\ Consume

(* Two operators in a row, or ~ after a number. *)
Misplaced ==
  /\ ~InUnary
  /\ \E t \in Binary \cup Unary :
       /\ Get(t)
       /\ IF NeedNumber THEN t \notin Unary /\ ~(t = "+" /\ Top.count = 0)
                        ELSE t \notin Binary \/ ~NeedSymbol
  /\ Fail /\ Consume

Next ==
  \/ Number \/ Open \/ Close \/ EndOfLine \/ Separator \/ Name
  \/ UnaryError \/ UnaryOperator \/ LeadingPlus \/ Operator \/ Misplaced

Spec == Init /\ [][Next]_vars

----------------------------------------------------------------------------

(* No token stream violates an assertion of the two stacks: the third      *)
(* value always meets two operators, and there is room for each operator   *)
(* (eval_expression.h:94-118,145-160, eval_expression.cpp:176-186).        *)
AssertionsHold == status # "aborted"
============================================================================
