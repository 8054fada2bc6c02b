---------------------------- MODULE Conditionals ----------------------------
(***************************************************************************)
(* .if, .ifndef, .else, .endif, .repeat and .endr in one pass:             *)
(* assemble() (common/assembler.cpp) calls parse_directives()              *)
(* (common/directives.cpp), which calls parse_if(), parse_ifdef() and      *)
(* parse_repeat(), which call assemble() again or skip tokens in           *)
(* ifdef_ignore() (common/directives_if.cpp).  The nesting of the source   *)
(* is the stack of these calls.  The source is read statement by           *)
(* statement; Meaning, the reference, is what the text says.               *)
(***************************************************************************)
EXTENDS Integers, Sequences, SequencesExt, FiniteSetsExt

CONSTANTS
  Statement,      \* the statements a source may hold
  MaxStatements   \* bound: the length of the source

(* line: a correct one; bad: one that is rejected; if1, if0, ifndef1 and   *)
(* ifndef0: .if/.ifdef and .ifndef with a true or a false condition;       *)
(* ifbad: a condition that cannot be evaluated.                            *)
Statements == {"line", "bad", "if1", "if0", "ifndef1", "ifndef0", "ifbad",
               "else", "endif", "repeat", "endr"}

ASSUME ConditionalsAssumption ==
  /\ Statement \subseteq Statements
  /\ MaxStatements \in Nat

VARIABLES
  src,          \* the source read so far
  calls,        \* the calls below the outermost assemble()
  nested_if,    \* of the running ifdef_ignore()
  ifdef_count,
  in_repeat,
  out,          \* the lines assembled, by number; .repeat copies them
  status,       \* "running", or the exit status of the assembler
  \* history
  quirk,        \* an arm ended in a way the text does not say
  survived      \* an error was reported and dropped

vars == <<src, calls, nested_if, ifdef_count, in_repeat, out, status,
          quirk, survived>>

(* then, else: assemble() for an arm; skip, drop: ifdef_ignore() before    *)
(* and after .else; repeat: assemble() for a block that starts at start.   *)
Call == [in : {"then", "else", "skip", "drop", "repeat"}, start : Nat]
CallOf(in) == [in |-> in, start |-> Len(out)]
Top == IF calls = << >> THEN "main" ELSE Last(calls).in
Pop == Front(calls)

TypeOK ==
  /\ src \in Seq(Statement) /\ Len(src) <= MaxStatements
  /\ calls \in Seq(Call)
  /\ nested_if \in Nat /\ ifdef_count \in Nat
  /\ in_repeat \in BOOLEAN
  /\ out \in Seq(1 .. MaxStatements)
  /\ status \in {"running", "ok", "failed"}
  /\ quirk \in BOOLEAN /\ survived \in BOOLEAN

----------------------------------------------------------------------------

Init ==
  /\ src = << >> /\ calls = << >> /\ out = << >>
  /\ nested_if = 0 /\ ifdef_count = 0
  /\ in_repeat = FALSE
  /\ status = "running"
  /\ quirk = FALSE /\ survived = FALSE

Ignoring == Top \in {"skip", "drop"}

Fetch(st) ==
  /\ status = "running" /\ Len(src) < MaxStatements
  /\ st \in Statement
  /\ src' = Append(src, st)

Read(st) == ~Ignoring /\ Fetch(st)

(* assemble() returns -1: parse_repeat() passes it on, and the innermost   *)
(* parse_ifdef() or parse_if() drops it.                                 *)
Arms == {i \in DOMAIN calls : calls[i].in \in {"then", "else"}}

Reject ==
  /\ IF Arms = {}
     THEN status' = "failed" /\ UNCHANGED <<calls, ifdef_count, survived>>
     ELSE /\ calls' = SubSeq(calls, 1, Max(Arms) - 1)
          /\ ifdef_count' = ifdef_count - 1
          /\ survived' = TRUE
          /\ UNCHANGED status
  /\ UNCHANGED <<nested_if, in_repeat, out, quirk>>

Line ==
  /\ Read("line")
  /\ out' = Append(out, Len(src'))
  /\ UNCHANGED <<calls, nested_if, ifdef_count, in_repeat, status, quirk,
                 survived>>

Bad == Read("bad") /\ Reject

If ==
  /\ \E st \in {"if1", "ifndef1", "if0", "ifndef0"} :
       /\ Read(st)
       /\ calls' = Append(calls, CallOf(IF st \in {"if1", "ifndef1"} THEN "then"
                                                                  ELSE "skip"))
  /\ ifdef_count' = ifdef_count + 1
  /\ nested_if' = 0
  /\ UNCHANGED <<in_repeat, out, status, quirk, survived>>

(* The result of parse_if() is not looked at: what follows is assembled.   *)
IfBad ==
  /\ Read("ifbad")
  /\ ifdef_count' = ifdef_count + 1
  /\ UNCHANGED <<calls, nested_if, in_repeat, out, status, quirk, survived>>

(* parse_directives() returns 0 and assemble() goes on. *)
Endif ==
  /\ Read("endif")
  /\ IF ifdef_count = 0 THEN Reject
     ELSE UNCHANGED <<calls, nested_if, ifdef_count, in_repeat, out, status,
                      quirk, survived>>

(* assemble() returns 2: the first arm is followed by ifdef_ignore(), the  *)
(* second one just ends.                                                   *)
AfterElse == IF Top = "then" THEN Append(Pop, CallOf("drop")) ELSE Pop

Else ==
  /\ Read("else")
  /\ \/ /\ ifdef_count = 0 \/ Top = "repeat"
        /\ Reject
     \/ /\ ifdef_count > 0 /\ Top = "main"
        /\ status' = "failed"
        /\ UNCHANGED <<calls, nested_if, ifdef_count, in_repeat, out, quirk,
                       survived>>
     \/ /\ ifdef_count > 0 /\ Top \in {"then", "else"}
        /\ calls' = AfterElse
        /\ ifdef_count' = ifdef_count - (IF Top = "else" THEN 1 ELSE 0)
        /\ nested_if' = 0
        /\ quirk' = (quirk \/ Top = "else")
        /\ UNCHANGED <<in_repeat, out, status, survived>>

Repeat ==
  /\ Read("repeat")
  /\ IF in_repeat THEN Reject
     ELSE /\ in_repeat' = TRUE
          /\ calls' = Append(calls, CallOf("repeat"))
          /\ UNCHANGED <<nested_if, ifdef_count, out, status, quirk, survived>>

(* assemble() returns 3: the block is copied once more (.repeat 2), or an  *)
(* arm ends.                                                               *)
Endr ==
  /\ Read("endr")
  /\ \/ /\ ~in_repeat
        /\ Reject
     \/ /\ in_repeat /\ Top = "main"
        /\ status' = "failed"
        /\ UNCHANGED <<calls, nested_if, ifdef_count, in_repeat, out, quirk,
                       survived>>
     \/ /\ in_repeat /\ Top = "repeat"
        /\ in_repeat' = FALSE
        /\ out' = out \o SubSeq(out, Last(calls).start + 1, Len(out))
        /\ calls' = Pop
        /\ UNCHANGED <<nested_if, ifdef_count, status, quirk, survived>>
     \/ /\ in_repeat /\ Top \in {"then", "else"}
        /\ calls' = Pop
        /\ ifdef_count' = ifdef_count - 1
        /\ quirk' = TRUE
        /\ UNCHANGED <<nested_if, in_repeat, out, status, survived>>

(* Fault: only .if is counted. *)
Opens_None == {}

(* ifdef_ignore(): .ifndef is not counted. *)
Opens == {"if1", "if0", "ifbad"}

IgnoreEndif ==
  /\ Ignoring /\ Fetch("endif")
  /\ IF nested_if = 0
     THEN calls' = Pop /\ ifdef_count' = ifdef_count - 1 /\ UNCHANGED nested_if
     ELSE nested_if' = nested_if - 1 /\ UNCHANGED <<calls, ifdef_count>>
  /\ UNCHANGED <<in_repeat, out, status, quirk, survived>>

(* A second .else ends the ignored arm without an .endif. *)
IgnoreElse ==
  /\ Ignoring /\ Fetch("else")
  /\ IF nested_if > 0 THEN UNCHANGED <<calls, ifdef_count, quirk>>
     ELSE IF Top = "skip"
     THEN calls' = Append(Pop, CallOf("else")) /\ UNCHANGED <<ifdef_count, quirk>>
     ELSE calls' = Pop /\ ifdef_count' = ifdef_count - 1 /\ UNCHANGED quirk
  /\ UNCHANGED <<nested_if, in_repeat, out, status, survived>>

IgnoreOther ==
  /\ Ignoring
  /\ \E st \in Statement \ {"endif", "else"} :
       /\ Fetch(st)
       /\ nested_if' = nested_if + (IF st \in Opens THEN 1 ELSE 0)
       /\ quirk' = (quirk \/ st \in {"ifndef1", "ifndef0"})
  /\ UNCHANGED <<calls, ifdef_count, in_repeat, out, status, survived>>

(* Fault: a block that reaches the end of the file is closed silently. *)
OpenRepeats_None == {}

(* The blocks whose missing .endr no arm hides. *)
OpenRepeats ==
  {i \in DOMAIN calls : calls[i].in = "repeat" /\ \A j \in Arms : j > i}

(* End of file: all arms end without an error, "Missing endif" or not.     *)
EndOfFile ==
  /\ status = "running"
  /\ status' = IF OpenRepeats = {} THEN "ok" ELSE "failed"
  /\ survived' = (survived \/ \E i \in DOMAIN calls, j \in Arms :
                              calls[i].in = "repeat" /\ j < i)
  /\ UNCHANGED <<src, calls, nested_if, ifdef_count, in_repeat, out, quirk>>

Next ==
  \/ Line \/ Bad \/ If \/ IfBad \/ Else \/ Endif \/ Repeat \/ Endr
  \/ IgnoreEndif \/ IgnoreElse \/ IgnoreOther \/ EndOfFile

Spec == Init /\ [][Next]_vars

----------------------------------------------------------------------------

(* What the text says.  A block is open, and its current arm is on or off. *)
Block(kind, on, start) == [kind |-> kind, on |-> on, else |-> FALSE, start |-> start]

Live(blocks) == \A i \in DOMAIN blocks : blocks[i].on

Reads(m, i) ==
  LET st == src[i]
      top == IF m.blocks = << >> THEN Block("none", TRUE, 0) ELSE Last(m.blocks)
      Open(b) == [m EXCEPT !.blocks = Append(@, b)]
      Close == [m EXCEPT !.blocks = Front(@)]
      Wrong == [m EXCEPT !.wellNested = FALSE]
  IN  CASE st = "line" /\ Live(m.blocks) -> [m EXCEPT !.out = Append(@, i)]
        [] st \in {"if1", "ifndef1"} -> Open(Block("if", TRUE, 0))
        [] st \in {"if0", "ifndef0"} -> Open(Block("if", FALSE, 0))
        [] st = "else" /\ top.kind = "if" /\ ~top.else ->
             [m EXCEPT !.blocks = Append(Front(@), [top EXCEPT !.on = ~@, !.else = TRUE])]
        [] st = "endif" /\ top.kind = "if" -> Close
        [] st = "repeat" /\ ~\E j \in DOMAIN m.blocks : m.blocks[j].kind = "repeat" ->
             Open(Block("repeat", TRUE, Len(m.out)))
        [] st = "endr" /\ top.kind = "repeat" ->
             [Close EXCEPT !.out = IF Live(m.blocks)
                                   THEN @ \o SubSeq(@, top.start + 1, Len(@)) ELSE @]
        [] st = "line" /\ ~Live(m.blocks) -> m
        [] OTHER -> Wrong

Meaning ==
  FoldLeft(Reads, [blocks |-> << >>, out |-> << >>, wellNested |-> TRUE],
           [i \in DOMAIN src |-> i])

(* All blocks are closed, no two .repeat nest, and no line is wrong. *)
WellNested == Meaning.wellNested /\ Meaning.blocks = << >>

Ended == status \in {"ok", "failed"}

(* A well-nested source without the quirks below is accepted, and exactly  *)
(* the lines of its live arms are assembled, in order and blocks copied    *)
(* (directives_if.cpp:66-84, directives.cpp:245-289).                      *)
ConditionalsRight ==
  Ended /\ WellNested /\ ~quirk => status = "ok" /\ out = Meaning.out

(* A .repeat left open never passes in silence: the assembly fails         *)
(* (directives.cpp:262-266), or an arm has dropped an error that was       *)
(* printed (directives_if.cpp:74).                                         *)
RepeatClosed == status = "ok" /\ in_repeat => survived
============================================================================
