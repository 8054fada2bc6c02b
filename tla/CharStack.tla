----------------------------- MODULE CharStack -----------------------------
(***************************************************************************)
(* Where characters come from: tokens_get_char() of common/tokens.cpp,     *)
(* macros_get_char() and macros_expand_params() of common/Macros.cpp, and  *)
(* include_parse() of common/directives_include.cpp.  Characters that were *)
(* given back wait in one buffer that is cut into levels, one for each     *)
(* macro being read; macros are read through a stack of pointers, into the *)
(* table of macros or, for a macro with parameters, into an array that is  *)
(* handed out in regions; below them are the files.                        *)
(*                                                                         *)
(* The tokenizer is left open: it reads characters, gives back the last    *)
(* ones, and looks a name up when it has given back what followed it.      *)
(* Blanks, quotes, comments and carriage returns are left out.             *)
(***************************************************************************)
EXTENDS Integers, Sequences, FiniteSets, SequencesExt

CONSTANTS
  Char,             \* the characters, the names of the macros among them
  Source, File, Macro, Param, Include, Open, Close, Comma, Eol, Eof, None,
  Nul,              \* the end of a string
  Params,           \* def_param_stack_data, as what a pointer points into
  MaxNestedMacros,  \* MAX_NESTED_MACROS
  ParamStackLen,    \* PARAM_STACK_LEN
  MaxFiles          \* bound: how deep files include each other

CharStackAssumption ==
  /\ {Include, Open, Close, Comma, Eol} \cup DOMAIN Macro \subseteq Char
  /\ {Eof, Nul, None, Params} \cap Char = {} /\ Eof # Nul
  /\ \A s \in Source \cup File : s \in Seq(Char)
  /\ \A m \in DOMAIN Macro :
       /\ Macro[m].params \in Nat
       /\ Macro[m].text \in Seq(Char \cup {Param[p] : p \in DOMAIN Param})
       /\ Macro[m].params = 0 => Macro[m].text \in Seq(Char)
       /\ Macro[m].params > 0 => Macro[m].text # << >>
       /\ \A i \in DOMAIN Macro[m].text : \A p \in DOMAIN Param :
            Macro[m].text[i] = Param[p] => p \in 1 .. Macro[m].params
  /\ MaxNestedMacros \in Nat
  /\ ParamStackLen \in Nat \ {0}
ASSUME CharStackAssumption

VARIABLES
  files,                \* what is left of each open file, the included one last
  unget,                \* the buffer of characters given back
  unget_stack,          \* where the levels of the buffer begin
  stack,                \* the macros being read, the innermost one last
  def_param_stack_data,
  def_param_stack_ptr,  \* where the regions begin, and the free space
  macro,                \* the macro whose parameters are being expanded, and the
  args, parens,         \*   locals of macros_expand_params(): the arguments, how
  define, ptr,          \*   deep its parentheses are, from and to where it copies
  before,               \* what was still to be read when the expansion began
  token, last,          \* as in SourceStream
  pc,
  displaced,            \* a file was included while other text was waiting
  dropped               \* what was left of an included file was not read

array == <<def_param_stack_data, def_param_stack_ptr>>
expansion == <<macro, args, parens, define, ptr, before>>
tokenizer == <<token, last>>
history == <<displaced, dropped>>
vars == <<files, unget, unget_stack, stack, array, expansion, tokenizer, pc, history>>

Offset == 0 .. ParamStackLen - 1

----------------------------------------------------------------------------

(* The text a pointer points at. *)
At(frame, n) == IF frame.of = Params THEN def_param_stack_data[frame.at + n]
                ELSE IF frame.at + n <= Len(Macro[frame.of].text)
                THEN Macro[frame.of].text[frame.at + n] ELSE Nul

Top == stack[Len(stack)]

(* tokens.unget_ptr > tokens.unget_stack[tokens.unget_stack_ptr] *)
Ungot == Len(unget) > unget_stack[Len(unget_stack)]

(* Fault: every expansion is put at the start of the array. *)
FreeSpace_Start == 0
FreeSpace == def_param_stack_ptr[Len(def_param_stack_ptr)]

(* The character goes to the tokenizer, or to macros_expand_params().      *)
ToToken(ch) ==
  /\ token' = Append(IF pc = "new" THEN << >> ELSE token, ch)
  /\ last' = ch
  /\ pc' = "token"
  /\ UNCHANGED expansion

ToOpen(ch) ==
  /\ IF ch = Open THEN pc' = "args" /\ args' = << << >> >>
     ELSE pc' = "failed" /\ UNCHANGED args
  /\ UNCHANGED <<macro, parens, define, ptr, before, tokenizer>>

(* Fault: a comma inside of parentheses separates arguments, too. *)
Separates_Any(ch) == ch = Comma
Separates(ch) == ch = Comma /\ parens = 0

AddToArg(ch) == args' = [args EXCEPT ![Len(args)] = Append(@, ch)]

ToArgs(ch) ==
  /\ \/ /\ ch = Close /\ parens = 0
        /\ pc' = IF Len(args) = Macro[macro].params THEN "copy" ELSE "ended"
        /\ define' = 1 /\ ptr' = FreeSpace
        /\ UNCHANGED <<args, parens>>
     \/ /\ ch \in {Eol, Eof}
        /\ pc' = "ended"
        /\ UNCHANGED <<args, parens, define, ptr>>
     \/ /\ Separates(ch)
        /\ args' = Append(args, << >>)
        /\ UNCHANGED <<parens, define, ptr, pc>>
     \/ /\ ch = Open \/ (ch = Close /\ parens > 0)
        /\ parens' = IF ch = Open THEN parens + 1 ELSE parens - 1
        /\ AddToArg(ch)
        /\ UNCHANGED <<define, ptr, pc>>
     \/ /\ ch \notin {Open, Close, Eol, Eof} /\ ~Separates(ch)
        /\ AddToArg(ch)
        /\ UNCHANGED <<parens, define, ptr, pc>>
  /\ UNCHANGED <<macro, before, tokenizer>>

Deliver(ch) ==
  \/ pc \in {"new", "more"} /\ ToToken(ch)
  \/ pc = "open" /\ ToOpen(ch)
  \/ pc = "args" /\ ToArgs(ch)

Reading == pc \in {"new", "more", "open", "args"}

NoExpansion ==
  macro' = None /\ args' = << >> /\ parens' = 0 /\ define' = 0 /\ ptr' = 0 /\ before' = << >>

----------------------------------------------------------------------------

Init ==
  /\ files \in {<<s>> : s \in Source}
  /\ unget = << >> /\ unget_stack = <<0>>
  /\ stack = << >>
  /\ def_param_stack_data = [o \in Offset |-> Nul] /\ def_param_stack_ptr = <<0>>
  /\ macro = None /\ args = << >> /\ parens = 0 /\ define = 0 /\ ptr = 0 /\ before = << >>
  /\ token = << >> /\ last = None
  /\ pc = "token"
  /\ displaced = FALSE /\ dropped = FALSE

(* The tokenizer asks for a character, of a new token or of this one. *)
Read(new) ==
  /\ pc = "token"
  /\ new \/ (Len(token) = 1 /\ token[1] # Eof)
  /\ pc' = IF new THEN "new" ELSE "more"
  /\ UNCHANGED <<files, unget, unget_stack, stack, array, expansion, tokenizer, history>>

(* A character that was given back at this level. *)
GetUngot ==
  /\ Reading /\ Ungot
  /\ Deliver(Last(unget))
  /\ unget' = Front(unget)
  /\ UNCHANGED <<files, unget_stack, stack, array, history>>

Advanced(frame) == [of |-> frame.of, at |-> frame.at + 1, region |-> frame.region]

(* A character of the innermost macro. *)
GetFrame ==
  /\ Reading /\ ~Ungot /\ stack # << >> /\ At(Top, 0) # Nul
  /\ Deliver(At(Top, 0))
  /\ stack' = [stack EXCEPT ![Len(stack)] = Advanced(@)]
  /\ UNCHANGED <<files, unget, unget_stack, array, history>>

(* The pointer is past the Nul when it is compared with the array, which   *)
(* does not hold a region that ends with the last byte.                    *)
InArray(frame) == frame.of = Params /\ frame.at + 1 < ParamStackLen

(* Fault: the level stays when its macro ends. *)
LevelsBelow_Kept == unget_stack
LevelsBelow == Front(unget_stack)

(* The innermost macro has been read; the loop goes on below it. *)
PopFrame ==
  /\ Reading /\ ~Ungot /\ stack # << >> /\ At(Top, 0) = Nul
  /\ stack' = Front(stack)
  /\ unget_stack' = LevelsBelow
  /\ def_param_stack_ptr' =
       IF InArray(Top) THEN Front(def_param_stack_ptr) ELSE def_param_stack_ptr
  /\ UNCHANGED <<files, unget, def_param_stack_data, expansion, tokenizer, pc, history>>

(* A character of the file; at its end, Eof. *)
GetFile ==
  /\ Reading /\ ~Ungot /\ stack = << >>
  /\ IF Last(files) = << >>
     THEN Deliver(Eof) /\ UNCHANGED files
     ELSE /\ Deliver(Head(Last(files)))
          /\ files' = [files EXCEPT ![Len(files)] = Tail(@)]
  /\ UNCHANGED <<unget, unget_stack, stack, array, history>>

Unget ==
  /\ pc = "token" /\ token # << >>
  /\ unget' = Append(unget, Last(token))
  /\ token' = Front(token)
  /\ last' = None
  /\ UNCHANGED <<files, unget_stack, stack, array, expansion, pc, history>>

----------------------------------------------------------------------------

(* tokens_get() has read a name and found it in the table of macros. *)
Called(params) == {m \in DOMAIN Macro :
                     token = <<m>> /\ last = None /\ (Macro[m].params > 0) = params}

(* macros_push_define() and the new level of tokens_get(), which does not  *)
(* look at what the former returned.                                       *)
Push(frame) ==
  /\ unget_stack' = Append(unget_stack, Len(unget))
  /\ token' = << >>
  /\ \/ /\ Len(stack) < MaxNestedMacros
        /\ stack' = Append(stack, frame) /\ pc' = "token"
     \/ /\ Len(stack) >= MaxNestedMacros
        /\ UNCHANGED stack /\ pc' = "exhausted"

Expand ==
  /\ pc = "token"
  /\ \E m \in Called(FALSE) : Push([of |-> m, at |-> 1, region |-> 0])
  /\ UNCHANGED <<files, unget, array, expansion, last, history>>

(* What is still to be read, as one text, leaving out the end of the file  *)
(* when it was given back: it will be read again.                          *)
UngotAt(level) ==
  LET first == unget_stack[level + 1] + 1
      end == IF level + 1 = Len(unget_stack) THEN Len(unget) ELSE unget_stack[level + 2]
  IN Reverse(SelectSeq(SubSeq(unget, first, end), LAMBDA ch : ch # Eof))

Text(frame) ==
  IF frame.of # Params THEN SubSeq(Macro[frame.of].text, frame.at, Len(Macro[frame.of].text))
  ELSE LET n == CHOOSE n \in Offset :
                  At(frame, n) = Nul /\ \A k \in 0 .. n - 1 : At(frame, k) # Nul
       IN [i \in 1 .. n |-> At(frame, i - 1)]

Waiting ==
  LET depth == Len(stack)
  IN FlattenSeq([i \in 1 .. depth |->
       UngotAt(depth + 1 - i) \o Text(stack[depth + 1 - i])]) \o UngotAt(0)

Remaining ==
  Waiting \o FlattenSeq([i \in 1 .. Len(files) |->
                           Append(files[Len(files) + 1 - i], Eof)])

----------------------------------------------------------------------------

(* macros_expand_params(): the arguments are read first, through the same  *)
(* functions as any character.                                             *)
StartCall ==
  /\ pc = "token"
  /\ macro' \in Called(TRUE)
  /\ before' = Remaining
  /\ pc' = "open"
  /\ UNCHANGED <<files, unget, unget_stack, stack, array, args, parens, define, ptr,
                 tokenizer, history>>

(* One element of the text of the macro, a character or an argument, is    *)
(* copied to the free space; the end of the array is looked at afterwards. *)
Element ==
  LET text == Macro[macro].text[define]
  IN IF \E p \in DOMAIN Param : Param[p] = text
     THEN args[CHOOSE p \in DOMAIN Param : Param[p] = text]
     ELSE <<text>>

WithText(at, text) ==
  [o \in Offset |-> IF at <= o /\ o < at + Len(text) THEN text[o - at + 1]
                    ELSE def_param_stack_data[o]]

Copy ==
  /\ pc = "copy" /\ define <= Len(Macro[macro].text)
  /\ def_param_stack_data' = WithText(ptr, Element)
  /\ ptr' = ptr + Len(Element) /\ define' = define + 1
  /\ pc' = IF ptr' >= ParamStackLen THEN "exited" ELSE "copy"
  /\ UNCHANGED <<files, unget, unget_stack, stack, def_param_stack_ptr, macro, args, parens,
                 before, tokenizer, history>>

EndCopy ==
  /\ pc = "copy" /\ define > Len(Macro[macro].text)
  /\ def_param_stack_data' = WithText(ptr, <<Nul>>)
  /\ def_param_stack_ptr' = Append(def_param_stack_ptr, ptr + 1)
  /\ Push([of |-> Params, at |-> FreeSpace, region |-> Len(def_param_stack_ptr)])
  /\ NoExpansion
  /\ UNCHANGED <<files, unget, last, history>>

----------------------------------------------------------------------------

(* include_parse(): the file is opened, and what waits above it stays.     *)
Enter ==
  /\ pc = "token" /\ token = <<Include>> /\ Len(files) < MaxFiles
  /\ \E f \in File : files' = Append(files, f)
  /\ displaced' = (displaced \/ unget # << >> \/ Waiting # << >>)
  /\ token' = << >> /\ last' = None
  /\ UNCHANGED <<unget, unget_stack, stack, array, expansion, pc, dropped>>

(* assemble() returns at the end of the file, or of what it takes for it,  *)
(* to include_parse() or to main.                                          *)
Leave ==
  /\ (pc = "token" /\ token = <<Eof>>) \/ pc = "ended"
  /\ dropped' = (dropped \/ (pc = "ended" /\ Len(files) > 1))
  /\ \/ /\ Len(files) > 1
        /\ files' = Front(files) /\ token' = << >> /\ last' = None /\ pc' = "token"
        /\ NoExpansion
     \/ /\ Len(files) = 1
        /\ pc' = "done"
        /\ UNCHANGED <<files, tokenizer, expansion>>
  /\ UNCHANGED <<unget, unget_stack, stack, array, displaced>>

Next ==
  \/ \E new \in BOOLEAN : Read(new)
  \/ GetUngot \/ GetFrame \/ PopFrame \/ GetFile \/ Unget
  \/ Expand \/ StartCall \/ Copy \/ EndCopy
  \/ Enter \/ Leave

Spec == Init /\ [][Next]_vars

----------------------------------------------------------------------------

Frame == [of : DOMAIN Macro \cup {Params}, at : Nat, region : Nat]

TypeOK ==
  /\ files \in Seq(Seq(Char)) /\ files # << >>
  /\ unget \in Seq(Char \cup {Eof})
  /\ unget_stack \in Seq(Nat) /\ unget_stack # << >>
  /\ stack \in Seq(Frame)
  /\ def_param_stack_data \in [Offset -> Char \cup {Nul}]
  /\ def_param_stack_ptr \in Seq(Nat) /\ def_param_stack_ptr # << >>
  /\ args \in Seq(Seq(Char)) /\ parens \in Nat /\ define \in Nat /\ ptr \in Nat
  /\ token \in Seq(Char \cup {Eof})
  /\ pc \in {"token", "new", "more", "open", "args", "copy",
             "ended", "failed", "done", "exited", "exhausted"}

(* The levels of the buffer and the stack of macros grow and shrink        *)
(* together, though different functions push and pop them, and a level is  *)
(* never above the end of the buffer: a character given back is returned   *)
(* neither too early nor too late (tokens.cpp:193 and Macros.cpp:319).     *)
LevelsInStep ==
  pc # "exhausted" =>
    /\ Len(unget_stack) = Len(stack) + 1
    /\ \A i \in DOMAIN unget_stack : unget_stack[i] <= Len(unget)
    /\ \A i, j \in DOMAIN unget_stack : i <= j => unget_stack[i] <= unget_stack[j]

(* A macro that is read from the array has a region to itself, ended by a  *)
(* Nul, which no later expansion is written into, and the counter of       *)
(* regions never gets below zero (Macros.cpp:307 and 712), also when the   *)
(* region that reaches the end of the array is never given back.           *)
RegionsLive ==
  LET InRegion == {i \in DOMAIN stack : stack[i].of = Params}
  IN /\ \A i \in InRegion :
          LET r == stack[i].region
          IN /\ r \in 1 .. Len(def_param_stack_ptr) - 1
             /\ def_param_stack_ptr[r] <= stack[i].at
             /\ stack[i].at < def_param_stack_ptr[r + 1]
             /\ def_param_stack_ptr[r + 1] <= ParamStackLen
             /\ def_param_stack_data[def_param_stack_ptr[r + 1] - 1] = Nul
     /\ \A i, j \in InRegion : i < j => stack[i].region < stack[j].region

----------------------------------------------------------------------------

(* What the refinement does not speak about: text beyond a limit, or read  *)
(* in another order, or not read.                                          *)
Lost == displaced \/ dropped \/ pc \in {"exhausted", "exited"}

Stream == INSTANCE SourceStream WITH
  stream <- IF Lost THEN <<Eof>> ELSE IF macro # None THEN before ELSE Remaining,
  token <- IF Lost THEN << >> ELSE token,
  last <- IF Lost THEN None ELSE last,
  running <- ~Lost /\ pc \notin {"failed", "done"} /\ ~(pc = "ended" /\ Len(files) = 1)

(* The three stacks are one text: every character is read once and in its  *)
(* place, a macro is replaced by its text with the arguments of its call   *)
(* in it, a call is malformed just when it looks malformed.                *)
ImplementsStream == Stream!Spec

=============================================================================
