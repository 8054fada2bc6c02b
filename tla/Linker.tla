------------------------------- MODULE Linker -------------------------------
(***************************************************************************)
(* Functions of other programs (common/Linker.cpp): a name the program     *)
(* uses and that is not known in pass 1 is looked up in the .a and .o      *)
(* files of the command line and put on a list.  At the end of each pass   *)
(* assembler_link() places the functions of the list behind the program,   *)
(* and in pass 1 the functions these call are put on the list meanwhile.   *)
(*                                                                         *)
(* A word of code is an ordinary one, or a call of a name, which the       *)
(* relocation of that word gives; a program consists of an .org and then   *)
(* of calls and labels.  Addresses count words (asm/mips.cpp), and a       *)
(* program does not leave the address space.                               *)
(***************************************************************************)
EXTENDS Integers, Sequences

CONSTANTS
  Name,          \* the names of labels and functions
  Plain,         \* a word that is no call
  Libraries,     \* the files the command line may name, last one first
  Reach,         \* 2^26, the words that the address field of a call tells apart
  Origins,       \* what the .org of the program may say
  MaxStatements  \* bound: the length of the program

(* The text section of a file and its functions: where they start in it,   *)
(* and how many words they have.  start and size are st_value and st_size. *)
IsFile(f) ==
  /\ f.type \in {"ar", "obj"}
  /\ f.text \in Seq(Name \cup {Plain})
  /\ DOMAIN f.start \subseteq Name /\ DOMAIN f.size = DOMAIN f.start
  /\ \A n \in DOMAIN f.start :
       /\ f.start[n] \in Nat /\ f.size[n] \in Nat
       /\ f.start[n] + f.size[n] <= Len(f.text)

ASSUME LinkerConstants ==
  /\ Plain \notin Name
  /\ Reach \in Nat \ {0} /\ Origins \subseteq Nat
  /\ MaxStatements \in Nat

ASSUME LinkerFiles ==
  \A files \in Libraries :
    DOMAIN files = 1 .. Len(files) /\ \A i \in DOMAIN files : IsFile(files[i])

Statement == [op : {"call", "label"}, name : Name]

VARIABLES
  files,    \* Linker::imports
  origin,   \* of the .org
  prog,     \* the program, as far as pass 1 has read it
  phase,    \* the pass or the linking after it, or how the program ended
  pc,       \* the next statement
  address,
  bind,     \* the labels: name to address
  list,     \* Linker::symbol_list_buffer
  index,    \* of assembler_link(): the function it places
  word,     \* of link_function_mips(): the next word of it, 0 before the first
  image,    \* the words written, by address
  placed,   \* history: where pass 1 placed the functions of the list
  asked     \* history: what the program asked the linker for

vars == << files, origin, prog, phase, pc, address, bind, list, index, word, image,
           placed, asked >>

Elements(s) == {s[i] : i \in DOMAIN s}
With(m, k, v) == [x \in DOMAIN m \cup {k} |-> IF x = k THEN v ELSE m[x]]

-----------------------------------------------------------------------------
(* Linker.                                                                 *)

Holding(n) == {i \in DOMAIN files : n \in DOMAIN files[i].start}

(* The first file that has the function. *)
FileOf(n) == files[CHOOSE i \in Holding(n) : \A j \in Holding(n) : i <= j]

(* Faults: the list is not searched, or the files are not. *)
Search_Twice(l, n) == IF Holding(n) = {} THEN l ELSE Append(l, n)

(* search_code_from_symbol(): the list with n on it, if a file has n. *)
Search(l, n) == IF n \in Elements(l) \/ Holding(n) = {} THEN l ELSE Append(l, n)

(* What get_code_from_symbol() makes of the function: for a .o file the    *)
(* offset is returned as the size, and the size as the offset.             *)
Offset(n) ==
  IF FileOf(n).type = "ar" THEN FileOf(n).start[n] ELSE FileOf(n).size[n]
Size(n) ==
  IF FileOf(n).type = "ar" THEN FileOf(n).size[n] ELSE FileOf(n).start[n]

TextAt(n, k) ==
  IF k < Len(FileOf(n).text) THEN FileOf(n).text[k + 1] ELSE Plain

(* The k-th word of the code. *)
Code(n, k) == TextAt(n, FileOf(n).start[n] + k)

(* Fault: relocations are looked for from the start of the section. *)
CalledBy_NoOffset(n, k) == TextAt(n, k)

(* The name in the relocation of the k-th word. *)
CalledBy(n, k) == TextAt(n, Offset(n) + k)

-----------------------------------------------------------------------------
(* The passes.                                                             *)

Init ==
  /\ files \in Libraries
  /\ prog = << >> /\ phase = "pass1" /\ pc = 1
  /\ origin \in Origins /\ address = origin
  /\ bind = << >> /\ list = << >> /\ index = 1 /\ word = 0
  /\ image = << >> /\ placed = << >> /\ asked = {}

Linking == phase \in {"link1", "link2"}
InPass1 == phase \in {"pass1", "link1"}

Fail ==
  /\ phase' = "failed"
  /\ UNCHANGED << address, bind, list, index, word, image, placed >>

(* add_bin32(): pass 1 only counts, as pass_1_write_disable is set.        *)
Write(w) ==
  /\ image' = IF InPass1 THEN image ELSE With(image, address, w)
  /\ address' = address + 1

(* The opcode of jal, the words it reaches from a, and the word it is when *)
(* the encoder makes it: its field has the lower bits of the address.      *)
Jal == 3
Region(a) == a \div Reach
CallWord(a) == [op |-> Jal, field |-> a % Reach]

(* The word that the linker makes of it: the address is not cut to the     *)
(* field, so what is over goes to the opcode, where jal has two bits set.  *)
LinkedCall(a) == [op |-> 4 * (Region(a) \div 4) + 3, field |-> a % Reach]

(* The next statement: pass 1 meets a new one. *)
Fetch(st) ==
  /\ \/ /\ phase = "pass1" /\ Len(prog) < MaxStatements
        /\ prog' = Append(prog, st)
     \/ /\ phase = "pass2" /\ pc <= Len(prog)
        /\ st = prog[pc]
        /\ UNCHANGED prog
  /\ pc' = pc + 1
  /\ UNCHANGED << files, origin >>

(* tokens_get() asks the linker for what is not a symbol, in pass 1.       *)
Call(st) ==
  /\ st.op = "call"
  /\ Fetch(st)
  /\ \/ /\ st.name \in DOMAIN bind
        /\ Write(CallWord(bind[st.name]))
        /\ UNCHANGED << phase, bind, list, index, word, placed, asked >>
     \/ /\ st.name \notin DOMAIN bind /\ phase = "pass1"
        /\ list' = Search(list, st.name)
        /\ asked' = asked \cup {st.name}
        /\ Write(CallWord(0))
        /\ UNCHANGED << phase, bind, index, word, placed >>
     \/ /\ st.name \notin DOMAIN bind /\ phase = "pass2"
        /\ Fail
        /\ UNCHANGED asked

(* Symbols::append(), which does nothing once the table is locked. *)
Label(st) ==
  /\ st.op = "label"
  /\ Fetch(st)
  /\ UNCHANGED asked
  /\ \/ /\ phase = "pass1" /\ st.name \in DOMAIN bind
        /\ Fail
     \/ /\ phase = "pass1" /\ st.name \notin DOMAIN bind
        /\ bind' = With(bind, st.name, address)
        /\ UNCHANGED << phase, address, list, index, word, image, placed >>
     \/ /\ phase = "pass2"
        /\ UNCHANGED << phase, address, bind, list, index, word, image, placed >>

StartLink ==
  /\ \/ phase = "pass1" /\ phase' = "link1"
     \/ phase = "pass2" /\ pc > Len(prog) /\ phase' = "link2"
  /\ index' = 1 /\ word' = 0
  /\ UNCHANGED << files, origin, prog, pc, address, bind, list, image, placed, asked >>

(* Fault: where the label is refused the loop starts over. *)
FirstWord_Refused ==
  IF phase = "link1" /\ list[index] \in DOMAIN bind THEN 0 ELSE 1

FirstWord == 1

(* One turn of the loop of assembler_link() begins: the function gets its  *)
(* label, unless there is one already, which is not looked at.             *)
OpenFunction ==
  /\ Linking /\ word = 0 /\ index <= Len(list)
  /\ bind' = IF phase = "link1" /\ list[index] \notin DOMAIN bind
             THEN With(bind, list[index], address) ELSE bind
  /\ placed' = IF phase = "link1" THEN With(placed, index, address) ELSE placed
  /\ word' = FirstWord
  /\ UNCHANGED << files, origin, prog, phase, pc, address, list, index, image, asked >>

Copying == Linking /\ word > 0 /\ word <= Size(list[index])

(* One turn of the loop of link_function_mips(). *)
CopyPlain ==
  /\ Copying
  /\ Code(list[index], word - 1) = Plain
  /\ Write(Plain)
  /\ word' = word + 1
  /\ UNCHANGED << files, origin, prog, phase, pc, bind, list, index, placed, asked >>

(* A function that is called is put on the list in pass 1, also when the   *)
(* program has a label of that name, and must be in a file.  The word is   *)
(* then the one of the file, which pass 1 does not write.                  *)
CopyCall ==
  /\ Copying
  /\ Code(list[index], word - 1) # Plain
  /\ LET callee == CalledBy(list[index], word - 1) IN
       \/ /\ callee = Plain \/ (phase = "link1" /\ Holding(callee) = {})
          /\ Fail
       \/ /\ phase = "link1" /\ callee # Plain /\ Holding(callee) # {}
          /\ list' = Search(list, callee)
          /\ Write(CallWord(0))
          /\ word' = word + 1
          /\ UNCHANGED << phase, bind, index, placed >>
       \/ /\ phase = "link2" /\ callee \in DOMAIN bind
          /\ Write(LinkedCall(bind[callee]))
          /\ word' = word + 1
          /\ UNCHANGED << phase, bind, list, index, placed >>
  /\ UNCHANGED << files, origin, prog, pc, asked >>

CloseFunction ==
  /\ Linking /\ word > 0 /\ word > Size(list[index])
  /\ index' = index + 1 /\ word' = 0
  /\ UNCHANGED << files, origin, prog, phase, pc, address, bind, list, image, placed,
                  asked >>

(* Fault: pass 2 goes on where pass 1 ended. *)
Restart_Behind == address

(* AsmContext::init(), and the .org that the pass begins with. *)
Restart == origin

EndLink ==
  /\ Linking /\ word = 0 /\ index > Len(list)
  /\ \/ /\ phase = "link1"
        /\ phase' = "pass2" /\ pc' = 1 /\ address' = Restart
     \/ /\ phase = "link2"
        /\ phase' = "done" /\ UNCHANGED << pc, address >>
  /\ UNCHANGED << files, origin, prog, bind, list, index, word, image, placed, asked >>

Assemble == \E st \in Statement : Call(st) \/ Label(st)
Link == OpenFunction \/ CopyPlain \/ CopyCall \/ CloseFunction \/ EndLink

Next == Assemble \/ StartLink \/ Link

(* The assembler is one process that runs until it ends, and the source    *)
(* has an end.                                                             *)
Spec == Init /\ [][Next]_vars /\ WF_vars(Next)

-----------------------------------------------------------------------------
(* Properties.                                                             *)

(* The list holds functions there are, and no more has been placed than is *)
(* on it.                                                                  *)
TypeOK ==
  /\ files \in Libraries /\ origin \in Origins
  /\ prog \in Seq(Statement) /\ Len(prog) <= MaxStatements
  /\ phase \in {"pass1", "link1", "pass2", "link2", "done", "failed"}
  /\ pc \in 1 .. MaxStatements + 1
  /\ address \in Nat
  /\ DOMAIN bind \subseteq Name /\ \A n \in DOMAIN bind : bind[n] \in Nat
  /\ list \in Seq(Name) /\ \A i \in DOMAIN list : Holding(list[i]) # {}
  /\ index \in 1 .. Len(list) + 1
  /\ word \in Nat /\ (word > 0 => index <= Len(list))
  /\ DOMAIN image \subseteq Nat
  /\ \A a \in DOMAIN image : image[a] \in {Plain} \cup [op : Nat, field : Nat]
  /\ DOMAIN placed \subseteq 1 .. Len(list)
  /\ asked \subseteq Name

(* Every function is on the list once, and only if the program asked for   *)
(* it or a function before it on the list calls it.  The functions that a  *)
(* placed function of an archive calls are all on it (Linker.cpp:104,      *)
(* mips.cpp:2800).                                                         *)
Calls(n) == {CalledBy(n, k) : k \in {k \in 0 .. Size(n) - 1 : Code(n, k) # Plain}}

LinksWhatIsNeeded ==
  /\ \A i, j \in DOMAIN list : list[i] = list[j] => i = j
  /\ \A i \in DOMAIN list :
       list[i] \in asked \/ \E j \in 1 .. i - 1 : list[i] \in Calls(list[j])
  /\ phase \in {"pass2", "link2", "done"} =>
       \A i \in DOMAIN list : Calls(list[i]) \subseteq Elements(list)

Defined == {prog[i].name : i \in {i \in DOMAIN prog : prog[i].op = "label"}}

(* Pass 2 places every function where pass 1 did, so at its label: on      *)
(* pass 2 it is in the symbol table (tokens.cpp:674).                      *)
PlacedAtLabel ==
  phase = "link2" /\ word = 0 /\ index <= Len(list) =>
    /\ address = placed[index]
    /\ list[index] \in Defined \/ bind[list[index]] = address

(* In the end every function of an archive is in the image as a whole, and *)
(* its calls are jal, and go to the place of the function they name, or to *)
(* the label of the program with that name, as the processor finds it: in  *)
(* the region of the word behind the call (mips.cpp:2778-2822).  Nothing   *)
(* is said of a call that leaves its region, which is not noticed, nor of  *)
(* one from region 4 on, where line 2817 makes another opcode of it.       *)
Target(n) ==
  IF n \in Defined THEN bind[n]
  ELSE placed[CHOOSE i \in DOMAIN list : list[i] = n]

FunctionsWhole ==
  phase = "done" =>
    \A i \in DOMAIN list :
      LET f == FileOf(list[i]) IN
      f.type = "ar" =>
        \A k \in 0 .. f.size[list[i]] - 1 :
          LET w  == f.text[f.start[list[i]] + k + 1]
              at == placed[i] + k
          IN /\ w = Plain => image[at] = Plain
             /\ w # Plain /\ Region(Target(w)) = Region(at + 1) /\ Region(at + 1) < 4 =>
                  /\ image[at].op = Jal
                  /\ Reach * Region(at + 1) + image[at].field = Target(w)

(* Linking ends, however the functions call each other: the list that      *)
(* assembler_link() walks grows while it does (assembler.cpp:236).         *)
LinkEnds == Linking ~> ~Linking

=============================================================================
