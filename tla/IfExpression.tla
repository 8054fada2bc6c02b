---------------------------- MODULE IfExpression ----------------------------
(***************************************************************************)
(* The condition of an .if: eval_ifdef_expression() and the calls of       *)
(* parse_ifdef_expression() below it (common/ifdef_expression.cpp), read   *)
(* token by token.  A call is made for a parenthesis and for an operator   *)
(* that binds tighter; `frames` is the stack of the calls, with their      *)
(* local variables.  ConditionMeaning says what the text means.            *)
(***************************************************************************)
EXTENDS Integers, Sequences, SequencesExt, FiniteSets, FiniteSetsExt

CONSTANTS
  CondToken,      \* the tokens a condition may hold
  MaxCondTokens   \* bound: the length of a condition

(* 0, 1: a number, a label, a macro or defined(name) of that value; <: <   *)
(* or >; <=: <= or >=; other: a symbol that is no operator; bad: a name    *)
(* without a value, or a malformed defined().                              *)
Numbers == {"0", "1"}
Operators == {"==", "<", "&&", "||"}
CondTokens == Numbers \cup Operators \cup {"<=", "!", "(", ")", "other", "bad"}

(* tokens_get() makes << and >> of <= and >=, so that get_operator(), which *)
(* has a case for them, never meets them.                                   *)
NoOperators == {"<=", "other"}

ASSUME IfExpressionAssumption ==
  CondToken \subseteq CondTokens /\ MaxCondTokens \in Nat

VARIABLES
  cond,     \* the tokens read
  back,     \* the token given back by tokens_push()
  frames,   \* the running calls, the outermost first
  answer,   \* "reading", "refused", "true" or "false"
  \* history
  strayed   \* a call ended where its caller does not expect it

ifvars == <<cond, back, frames, answer, strayed>>

None == "none"
Eol == "eol"

(* Fault: || and && bind alike. *)
Precedence_Flat(op) == IF op \in {"||", "&&"} THEN 0 ELSE 2

(* get_operator(): PREC_OR, PREC_AND and PREC_EQUAL. *)
Precedence(op) == CASE op = "||" -> 0 [] op = "&&" -> 1 [] OTHER -> 2

Truth(b) == IF b THEN 1 ELSE 0

(* eval_operation() *)
Operation(op, a, b) ==
  CASE op = "==" -> Truth(a = b)
    [] op = "<"  -> Truth(a < b)
    [] op = "||" -> Truth(a # 0 \/ b # 0)
    [] op = "&&" -> Truth(a # 0 /\ b # 0)

(* A call of parse_ifdef_expression() with *num = n. *)
Frame(n, paren, prec, state) ==
  [n |-> n, n1 |-> 0, oper |-> None, prec |-> prec, paren |-> paren,
   state |-> state, not |-> FALSE]

IfTypeOK ==
  /\ cond \in Seq(CondToken \cup {Eol}) /\ Len(cond) <= MaxCondTokens + 1
  /\ back \in CondToken \cup {Eol, None}
  /\ frames \in Seq([n : 0 .. 1, n1 : 0 .. 1, oper : Operators \cup {None},
                     prec : 0 .. 2, paren : Nat, state : 0 .. 2, not : BOOLEAN])
  /\ answer \in {"reading", "refused", "true", "false"}
  /\ strayed \in BOOLEAN

IfInit ==
  /\ cond = << >> /\ back = None /\ answer = "reading" /\ strayed = FALSE
  /\ frames = <<Frame(0, 0, 0, 0)>>

----------------------------------------------------------------------------

Caller == Last(frames)
Replace(f) == frames' = Append(Front(frames), f)

(* tokens_get(): the token given back, or the next one of the line. *)
Get(t) ==
  /\ answer = "reading"
  /\ \/ /\ back # None /\ t = back
        /\ UNCHANGED cond
     \/ /\ back = None
        /\ t \in {c \in CondToken : Len(cond) < MaxCondTokens} \cup {Eol}
        /\ cond' = Append(cond, t)

Refuse == answer' = "refused" /\ back' = None /\ UNCHANGED <<frames, strayed>>

(* An operand has been read; after a pending ! it is negated. *)
Operand(f, v) ==
  [f EXCEPT !.n = IF f.not THEN Truth(v = 0) ELSE v, !.not = FALSE, !.state = 1]

(* The pending operation of a call that ends, or is followed by another. *)
Result(f) == IF f.oper = None THEN f.n ELSE Operation(f.oper, f.n1, f.n)

InParen(f, g) == g.paren > f.paren

(* parse_if(): any value but 0 is true. *)
Answer(v) == IF v = 0 THEN "false" ELSE "true"

(* The innermost call returns 0 with *num = v. *)
Return(v) ==
  LET callers == Front(frames)
      f == Last(callers)
  IN  IF callers = << >>
      THEN answer' = Answer(v) /\ UNCHANGED frames
      ELSE /\ frames' = Append(Front(callers),
                IF InParen(f, Caller) THEN Operand(f, v) ELSE [f EXCEPT !.n = v])
           /\ UNCHANGED answer

(* Every call gives the end of the line back and ends. *)
EndOfLine ==
  /\ Get(Eol)
  /\ IF Caller.state # 1 THEN Refuse
     ELSE Return(Result(Caller)) /\ back' = Eol /\ UNCHANGED strayed

(* Where an operand is expected, the one before waits in n1. *)
Waiting(f) == [f EXCEPT !.n1 = IF f.state = 2 THEN f.n ELSE @]

Not ==
  /\ Caller.state # 1 /\ Get("!")
  /\ Replace([Waiting(Caller) EXCEPT !.not = ~@])
  /\ back' = None
  /\ UNCHANGED <<answer, strayed>>

(* A symbol that is no !, ( or ) leaves n as it was and counts as operand. *)
ReadOperand ==
  /\ Caller.state # 1
  /\ \E t \in Numbers \cup Operators \cup NoOperators :
       /\ Get(t)
       /\ Replace(Operand(Waiting(Caller),
                    CASE t = "0" -> 0 [] t = "1" -> 1 [] OTHER -> Caller.n))
  /\ back' = None
  /\ UNCHANGED <<answer, strayed>>

OpenParen ==
  /\ Caller.state # 1 /\ Get("(")
  /\ frames' = Append(Append(Front(frames), Waiting(Caller)),
                      Frame(Caller.n, Caller.paren + 1, 0, 0))
  /\ back' = None
  /\ UNCHANGED <<answer, strayed>>

(* The innermost call ends, also when it is not the one made for the ( :   *)
(* then the one made for it reads on behind the ).                         *)
CloseParen ==
  /\ Get(")")
  /\ IF Caller.state # 1 \/ Caller.paren = 0 THEN Refuse
     ELSE /\ Return(Result(Caller))
          /\ back' = None
          /\ strayed' = (strayed \/ ~InParen(frames[Len(frames) - 1], Caller))

(* The pending operation is done first: operators associate to the left. *)
SameLevel ==
  /\ Caller.state = 1
  /\ \E op \in Operators :
       /\ Get(op) /\ Precedence(op) = Caller.prec
       /\ Replace([Caller EXCEPT !.n = Result(Caller), !.oper = op, !.state = 2])
  /\ back' = None
  /\ UNCHANGED <<answer, strayed>>

Tighter ==
  /\ Caller.state = 1
  /\ \E op \in Operators :
       /\ Get(op) /\ Precedence(op) > Caller.prec
       /\ back' = op
       /\ frames' = Append(frames, Frame(Caller.n, Caller.paren, Precedence(op), 1))
  /\ UNCHANGED <<answer, strayed>>

(* The call ends without its pending operation and without setting *num. *)
Looser ==
  /\ Caller.state = 1
  /\ \E op \in Operators :
       /\ Get(op) /\ Precedence(op) < Caller.prec
       /\ back' = op
  /\ frames' = Front(frames)
  /\ strayed' = TRUE
  /\ UNCHANGED answer

Unexpected ==
  /\ \/ Get("bad")
     \/ /\ Caller.state = 1
        /\ \E t \in Numbers \cup {"!", "("} \cup NoOperators : Get(t)
  /\ Refuse

IfNext ==
  \/ EndOfLine \/ Not \/ ReadOperand \/ OpenParen \/ CloseParen
  \/ SameLevel \/ Tighter \/ Looser \/ Unexpected

IfExpressionSpec == IfInit /\ [][IfNext]_ifvars
============================================================================
