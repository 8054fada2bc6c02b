---------------------------- MODULE SourceStream ----------------------------
(***************************************************************************)
(* What the reader of characters promises to the tokenizer: there is one   *)
(* text still to be read.  A character is taken from its front, a          *)
(* character given back is in front again, a macro is replaced by its      *)
(* expansion, an included file is put in front with its end marked by Eof. *)
(* CharStack.tla is common/tokens.cpp and common/Macros.cpp as written,    *)
(* with their three stacks, and refines this module.                       *)
(***************************************************************************)
EXTENDS Integers, Sequences, FiniteSets, SequencesExt

CONSTANTS
  Source,   \* the texts a program may consist of
  File,     \* the texts .include may name
  Macro,    \* from the names of the macros to [params, text]
  Param,    \* Param[i] stands for parameter i in the text of a macro
  Include,  \* the character that stands for an .include directive
  Open, Close, Comma, Eol, Eof,
  None

VARIABLES
  stream,   \* what is still to be read; a file ends with Eof
  token,    \* the characters of the token being built
  last,     \* the character get returned, until the next call
  running   \* the source has not ended, and nothing in it was malformed

vars == <<stream, token, last, running>>

----------------------------------------------------------------------------

(* The macros macros_lookup() finds for the token, if any. *)
Called(params) == {m \in DOMAIN Macro :
                     token = <<m>> /\ last = None /\ (Macro[m].params > 0) = params}

(* The call at the head of text s: how deep the parentheses are after k    *)
(* characters, and where the first one is closed.                          *)
Depth(s, k) == Cardinality({j \in 1 .. k : s[j] = Open})
                 - Cardinality({j \in 1 .. k : s[j] = Close})
Closes(s, k) ==
  /\ s[1] = Open /\ Depth(s, k) = 0
  /\ \A j \in 1 .. k - 1 : Depth(s, j) > 0 /\ s[j] \notin {Eol, Eof}

(* The places around the arguments of a call that is closed at k. *)
Separators(s, k) ==
  SetToSortSeq({1, k} \cup {j \in 1 .. k : s[j] = Comma /\ Depth(s, j) = 1}, <)

(* The calls with n arguments at the head of s: none or one. *)
CallsOf(s, n) ==
  {k \in 1 .. Len(s) : Closes(s, k) /\ Len(Separators(s, k)) = n + 1}

Arguments(s, k) ==
  LET at == Separators(s, k)
  IN [i \in 1 .. Len(at) - 1 |-> SubSeq(s, at[i] + 1, at[i + 1] - 1)]

Substituted(text, args) ==
  FlattenSeq([i \in DOMAIN text |->
    IF \E p \in DOMAIN Param : Param[p] = text[i]
    THEN args[CHOOSE p \in DOMAIN Param : Param[p] = text[i]]
    ELSE <<text[i]>>])

----------------------------------------------------------------------------

Init ==
  /\ stream # << >> /\ Last(stream) = Eof /\ Front(stream) \in Source
  /\ token = << >>
  /\ last = None
  /\ running = TRUE

(* tokens_get_char(); the end of a file is read again and again. *)
Get(new) ==
  /\ new \/ (Len(token) = 1 /\ token[1] # Eof)
  /\ last' = Head(stream)
  /\ token' = Append(IF new THEN << >> ELSE token, Head(stream))
  /\ stream' = IF Head(stream) = Eof THEN stream ELSE Tail(stream)
  /\ UNCHANGED running

(* tokens_unget_char() of what was read last. *)
Unget ==
  /\ token # << >>
  /\ stream' = IF Last(token) = Eof THEN stream ELSE <<Last(token)>> \o stream
  /\ token' = Front(token)
  /\ last' = None
  /\ UNCHANGED running

(* The token is the name of a macro without parameters. *)
Expand ==
  /\ \E m \in Called(FALSE) : stream' = Macro[m].text \o stream
  /\ token' = << >>
  /\ UNCHANGED <<last, running>>

(* The token is the name of a macro with parameters, and a call follows. *)
Call ==
  /\ \E m \in Called(TRUE) : \E k \in CallsOf(stream, Macro[m].params) :
       stream' = Substituted(Macro[m].text, Arguments(stream, k))
                   \o SubSeq(stream, k + 1, Len(stream))
  /\ token' = << >>
  /\ UNCHANGED <<last, running>>

(* .include *)
Enter ==
  /\ token = <<Include>>
  /\ \E f \in File : stream' = f \o <<Eof>> \o stream
  /\ token' = << >> /\ last' = None
  /\ UNCHANGED running

(* The end of an included file. *)
Leave ==
  /\ token = <<Eof>> /\ Head(stream) = Eof /\ Len(stream) > 1
  /\ stream' = Tail(stream)
  /\ token' = << >> /\ last' = None
  /\ UNCHANGED running

(* Nothing is read any more: the end of the source, or a malformed call. *)
Stop ==
  /\ \/ token = <<Eof>> /\ stream = <<Eof>>
     \/ \E m \in Called(TRUE) : CallsOf(stream, Macro[m].params) = {}
  /\ running' = FALSE
  /\ UNCHANGED <<stream, token, last>>

(* A limit of the reader was reached: nothing is promised any more. *)
GiveUp ==
  /\ running' = FALSE
  /\ stream' = <<Eof>> /\ token' = << >> /\ last' = None

Next ==
  /\ running
  /\ \/ \E new \in BOOLEAN : Get(new)
     \/ Unget \/ Expand \/ Call \/ Enter \/ Leave
     \/ Stop \/ GiveUp

Spec == Init /\ [][Next]_vars
=============================================================================
