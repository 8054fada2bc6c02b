------------------------------ MODULE TwoPass ------------------------------
(***************************************************************************)
(* The two passes of main() (common/naken_asm.cpp), assemble()             *)
(* (common/assembler.cpp) and the handlers of its statements, over the     *)
(* symbol table.  Pass 1 builds an arbitrary program statement by          *)
(* statement; pass 2 reads the same program again.  Instructions are those *)
(* of asm/6502.cpp with an address operand: two bytes when the address is  *)
(* known to lie in the zero page, three bytes otherwise.                   *)
(*                                                                         *)
(* An error inside nested calls of assemble() is dropped by                *)
(* parse_ifdef_ignore(), and .endif ends no call, so from a taken .ifdef   *)
(* on ifdef_count errors are survived.  Arms with .else or .repeat are the *)
(* business of Conditionals.tla.                                           *)
(***************************************************************************)
EXTENDS Integers, Sequences, TLC

CONSTANTS
  Name,           \* the identifiers of the program
  Statement,      \* the statements a program may hold
  ZeroPage,       \* 0xff, the last address of the zero page, the largest byte
  MaxScope,       \* bound: the scopes one pass opens
  MaxStatements,  \* bound: the length of the program
  MaxAddress      \* bound: the last address of the program

Address == 0 .. MaxAddress
Op == {"label", "func", "scope", "ends", "lda", "db", "dc16", "set", "org",
       "resb", "ifdef", "endif", "export", "bss", "code", "big_endian"}

ASSUME TwoPassAssumption ==
  /\ MaxAddress \in Nat
  /\ ZeroPage \in Nat
  /\ MaxScope \in Nat
  /\ MaxStatements \in Nat
  /\ Name \cap Address = {}
  /\ Statement \subseteq [op : Op, name : Name, arg : Name \cup Address]

VARIABLES
  \* the symbol table
  bind, locked, debug, in_scope, current_scope, reply, fault,
  \* the assembler context and the position in the source
  status,       \* which pass is running, or how the program ended
  pc,           \* the next statement
  address,
  segment, endian,
  ifdef_count,  \* nested calls of assemble()
  skip,         \* 0, or one more than nested_if of ifdef_ignore()
  mem,          \* by address: is the byte 1, and which pass wrote it last
  \* history
  prog,         \* the program, as far as pass 1 has read it
  trace,        \* the context before each statement, in pass 1
  covered,      \* the addresses pass 1 has given to instructions and data
  overlap,      \* pass 1 gave an address twice
  switched,     \* a name means something else than it did in pass 1
  survived      \* an error was reported and dropped

table == <<bind, locked, debug, in_scope, current_scope, reply, fault>>
context == <<address, segment, endian>>
history == <<prog, trace, covered, overlap, switched>>
vars == <<table, status, pc, context, ifdef_count, skip, mem, history, survived>>

Table == INSTANCE SymbolTable WITH TooLong <- {}

----------------------------------------------------------------------------

Pass1 == status = "pass1"
Pass2 == status = "pass2"

(* What a statement can see of the context. *)
Now == [address |-> address, segment |-> segment, endian |-> endian,
        in_scope |-> in_scope, current_scope |-> current_scope,
        ifdef_count |-> ifdef_count, skip |-> skip, bind |-> bind]

(* The symbol a name denotes in a context: none or one key. *)
KeyIn(c, name) ==
  {k \in DOMAIN c.bind : k = <<c.current_scope, name>> /\ c.in_scope}
Denoted(c, name) ==
  IF KeyIn(c, name) # {} THEN KeyIn(c, name)
                         ELSE {<<0, name>>} \cap DOMAIN c.bind

(* An operand is a number or a name; a name may not be known yet. *)
Known(arg) == arg \in Address \/ Table!Bound(arg)
Value(arg) == IF arg \in Address THEN arg ELSE bind[Table!Denotes(arg)].address

(* Does the statement refer to another symbol than it did in pass 1?  An   *)
(* operand that was unknown then may be known now, and the name that the   *)
(* first .set of a program bound in pass 1 is bound in pass 2.             *)
Refers(st) ==
  (IF st.op \in {"set", "ifdef"} THEN {st.name} ELSE {})
    \cup (IF st.op \in {"set", "org", "lda", "db", "dc16"} THEN {st.arg} \cap Name
                                                          ELSE {})
Switches(st) ==
  \E name \in Refers(st) :
    /\ Denoted(Now, name) # Denoted(trace[pc], name)
    /\ ~(st.op \in {"lda", "db", "dc16"} /\ Denoted(trace[pc], name) = {})
    /\ ~(st.op = "set" /\ name = st.name /\ Denoted(trace[pc], name) = {}
         /\ Denoted(Now, name) = {<<0, name>>})

(* The next statement: pass 1 meets a new one, pass 2 the next of the same *)
(* program.                                                                *)
Fetch(st) ==
  /\ ~fault
  /\ \/ /\ Pass1 /\ Len(prog) < MaxStatements
        /\ prog' = Append(prog, st)
        /\ trace' = Append(trace, Now)
        /\ UNCHANGED switched
     \/ /\ Pass2 /\ pc <= Len(prog)
        /\ st = prog[pc]
        /\ switched' = (switched \/ (skip = 0 /\ Switches(st)))
        /\ UNCHANGED <<prog, trace>>
  /\ pc' = pc + 1

Read(st, op) == st.op = op /\ skip = 0 /\ Fetch(st)

Accept == UNCHANGED <<status, ifdef_count, survived>>

(* n errors in a row: each ends one call of assemble(), the last one the   *)
(* program.                                                                *)
Reject(n) ==
  IF ifdef_count >= n
  THEN /\ ifdef_count' = ifdef_count - n
       /\ survived' = TRUE
       /\ UNCHANGED status
  ELSE status' = "failed" /\ UNCHANGED <<ifdef_count, survived>>

(* Bytes are addresses here; a byte is 1, which asks pass 2 for the long   *)
(* form of an instruction, or it is not.                                   *)
Byte(one) == [one |-> one, pass |-> IF Pass1 THEN 1 ELSE 2]
Write(bytes) ==
  mem' = [a \in Address |->
            IF a - address + 1 \in DOMAIN bytes
            THEN Byte(bytes[a - address + 1] = 1) ELSE mem[a]]

Occupy(size) ==
  LET here == address .. address + size - 1
  IN  /\ address + size <= MaxAddress
      /\ address' = address + size
      /\ IF Pass1
         THEN covered' = covered \cup here
              /\ overlap' = (overlap \/ here \cap covered # {})
         ELSE UNCHANGED <<covered, overlap>>

NoBytes == UNCHANGED <<address, mem, covered, overlap>>
NoSettings == UNCHANGED <<segment, endian, skip>>

----------------------------------------------------------------------------

Init ==
  /\ Table!Init
  /\ status = "pass1"
  /\ pc = 1
  /\ address = 0
  /\ segment = "code" /\ endian = "little"
  /\ ifdef_count = 0 /\ skip = 0
  /\ mem = [a \in Address |-> [one |-> FALSE, pass |-> 0]]
  /\ prog = << >> /\ trace = << >>
  /\ covered = {} /\ overlap = FALSE
  /\ switched = FALSE /\ survived = FALSE

(* append() returns 0 without a look at the address once the table is      *)
(* locked.                                                                 *)
Label(st) ==
  /\ Read(st, "label")
  /\ Table!Append(st.name, address)
  /\ IF reply' = Table!Failed THEN Reject(1) ELSE Accept
  /\ NoBytes /\ NoSettings

(* The name of a function that is known is read as a number, and the       *)
(* result of append() is not looked at.                                    *)
Func(st) ==
  /\ Read(st, "func")
  /\ bind' = IF locked \/ Table!Bound(st.name) THEN bind
             ELSE Table!WithLabel(st.name, address)
  /\ \/ /\ in_scope
        /\ Reject(1)
        /\ UNCHANGED <<in_scope, current_scope>>
     \/ /\ ~in_scope /\ current_scope < MaxScope
        /\ in_scope' = TRUE
        /\ current_scope' = current_scope + 1
        /\ Accept
  /\ UNCHANGED <<locked, debug, reply, fault>>
  /\ NoBytes /\ NoSettings

Scope(st) ==
  /\ Read(st, "scope")
  /\ Table!ScopeStart
  /\ IF reply' = Table!Failed THEN Reject(1) ELSE Accept
  /\ NoBytes /\ NoSettings

Ends(st) ==
  /\ Read(st, "ends")
  /\ Table!ScopeEnd
  /\ Accept /\ NoBytes /\ NoSettings

(* Fault: pass 2 forgets which operands pass 1 could not resolve. *)
SizeOf_NoFlag(known, arg) == IF ~known \/ Value(arg) > ZeroPage THEN 3 ELSE 2

(* get_address(): an operand that is unknown in pass 1 leaves a flag byte  *)
(* where the instruction goes; the flag, or a large operand, asks for the  *)
(* long form.                                                              *)
SizeOf(known, arg) ==
  IF ~known \/ mem[address].one \/ Value(arg) > ZeroPage THEN 3 ELSE 2

(* The two bytes of a 16-bit number. *)
Low(value) == value % (ZeroPage + 1)
High(value) == value \div (ZeroPage + 1)

(* 0xff and 0xffff *)
Largest(op) == IF op = "db" THEN ZeroPage
                            ELSE (ZeroPage + 1) * (ZeroPage + 1) - 1

(* The operand is out of the range of the statement. While it is unknown   *)
(* it counts as 0, which is in range: the error of a forward reference     *)
(* waits for pass 2.                                                       *)
TooLarge(st) == Known(st.arg) /\ Value(st.arg) > Largest(st.op)

(* add_bin8() writes nothing in pass 1 on this CPU. *)
Lda(st) ==
  /\ Read(st, "lda")
  /\ \/ /\ Pass1 \/ Known(st.arg)
        /\ ~TooLarge(st)
        /\ LET size == SizeOf(Known(st.arg), st.arg) IN
             /\ Occupy(size)
             /\ IF Pass1
                THEN IF Known(st.arg) THEN UNCHANGED mem ELSE Write(<<1>>)
                ELSE Write(IF size = 2
                           THEN <<165, Value(st.arg)>>
                           ELSE <<173, Low(Value(st.arg)), High(Value(st.arg))>>)
        /\ Accept
     \/ /\ (Pass2 /\ ~Known(st.arg)) \/ TooLarge(st)
        /\ Reject(1)
        /\ NoBytes
  /\ NoSettings
  /\ UNCHANGED table

(* Initialised data: an operand that is unknown in pass 1 counts as 0; in  *)
(* the BSS segment the rest of the line is a second error.                 *)
Data(st) ==
  /\ Read(st, "db") \/ Read(st, "dc16")
  /\ \/ /\ segment = "bss"
        /\ Reject(2)
        /\ NoBytes
     \/ /\ segment = "code"
        /\ Pass1 \/ Known(st.arg)
        /\ ~TooLarge(st)
        /\ LET value == IF Known(st.arg) THEN Value(st.arg) ELSE 0
               bytes == IF st.op = "db" THEN <<value>>
                        ELSE IF endian = "little" THEN <<Low(value), High(value)>>
                        ELSE <<High(value), Low(value)>>
           IN  Occupy(Len(bytes)) /\ Write(bytes)
        /\ Accept
     \/ /\ segment = "code"
        /\ (Pass2 /\ ~Known(st.arg)) \/ TooLarge(st)
        /\ Reject(1)
        /\ NoBytes
  /\ NoSettings
  /\ UNCHANGED table

(* The result of Symbols::set() is not looked at. *)
Set(st) ==
  /\ Read(st, "set")
  /\ \/ /\ Known(st.arg)
        /\ Table!Set(st.name, Value(st.arg))
        /\ Accept
     \/ /\ ~Known(st.arg)
        /\ Reject(1)
        /\ UNCHANGED table
  /\ NoBytes /\ NoSettings

Org(st) ==
  /\ Read(st, "org")
  /\ \/ /\ Known(st.arg)
        /\ address' = Value(st.arg)
        /\ Accept
     \/ /\ ~Known(st.arg)
        /\ Reject(1)
        /\ UNCHANGED address
  /\ NoSettings
  /\ UNCHANGED <<table, mem, covered, overlap>>

(* .resb takes a number here. *)
Resb(st) ==
  /\ Read(st, "resb")
  /\ st.arg \in Address /\ address + st.arg <= MaxAddress
  /\ address' = address + st.arg
  /\ Accept /\ NoSettings
  /\ UNCHANGED <<table, mem, covered, overlap>>

Ifdef(st) ==
  /\ Read(st, "ifdef")
  /\ ifdef_count' = ifdef_count + 1
  /\ skip' = IF Table!Bound(st.name) THEN 0 ELSE 1
  /\ UNCHANGED <<status, survived, segment, endian, table>>
  /\ NoBytes

Endif(st) ==
  /\ Read(st, "endif")
  /\ IF ifdef_count = 0 THEN Reject(1) ELSE Accept
  /\ NoBytes /\ NoSettings
  /\ UNCHANGED table

(* ifdef_ignore(): only conditionals count. *)
Skipped(st) ==
  /\ skip > 0
  /\ Fetch(st)
  /\ skip' = skip + (IF st.op = "ifdef" THEN 1 ELSE 0)
                  - (IF st.op = "endif" THEN 1 ELSE 0)
  /\ ifdef_count' = ifdef_count - (IF skip' = 0 THEN 1 ELSE 0)
  /\ UNCHANGED <<status, survived, segment, endian, table>>
  /\ NoBytes

Export(st) ==
  /\ Read(st, "export")
  /\ \/ /\ Pass1
        /\ Accept
        /\ UNCHANGED table
     \/ /\ Pass2
        /\ Table!ExportSymbol(st.name)
        /\ IF reply' = Table!Failed THEN Reject(1) ELSE Accept
  /\ NoBytes /\ NoSettings

Segment(st) ==
  /\ Read(st, "bss") \/ Read(st, "code")
  /\ segment' = st.op
  /\ Accept /\ NoBytes
  /\ UNCHANGED <<endian, skip, table>>

BigEndian(st) ==
  /\ Read(st, "big_endian")
  /\ endian' = "big"
  /\ Accept /\ NoBytes
  /\ UNCHANGED <<segment, skip, table>>

(* Fault: the scopes of pass 2 are numbered on from those of pass 1. *)
ScopeOfPass2_Kept == current_scope

(* main(): symbols.lock(), symbols.scope_reset() and init(), which resets  *)
(* neither the scope nor the segment nor the byte order.                   *)
ScopeOfPass2 == 0

(* Fault: the table stays open. *)
LockedInPass2_Open == locked

LockedInPass2 == TRUE

NextPass ==
  /\ Pass1 /\ ~fault
  /\ status' = "pass2"
  /\ pc' = 1
  /\ locked' = LockedInPass2
  /\ current_scope' = ScopeOfPass2
  /\ address' = 0
  /\ ifdef_count' = 0 /\ skip' = 0
  /\ UNCHANGED <<bind, debug, in_scope, reply, fault, segment, endian, mem,
                 history, survived>>

Finish ==
  /\ Pass2 /\ ~fault /\ pc > Len(prog)
  /\ status' = "done"
  /\ UNCHANGED <<table, pc, context, ifdef_count, skip, mem, history, survived>>

Step(st) ==
  \/ Label(st) \/ Func(st) \/ Scope(st) \/ Ends(st)
  \/ Lda(st) \/ Data(st) \/ Set(st) \/ Org(st) \/ Resb(st)
  \/ Ifdef(st) \/ Endif(st) \/ Skipped(st)
  \/ Export(st) \/ Segment(st) \/ BigEndian(st)

Next == (\E st \in Statement : Step(st)) \/ NextPass \/ Finish

Spec == Init /\ [][Next]_vars

----------------------------------------------------------------------------

TypeOK ==
  /\ Table!TypeOK
  /\ status \in {"pass1", "pass2", "done", "failed"}
  /\ pc \in 1 .. MaxStatements + 1
  /\ address \in Address
  /\ segment \in {"code", "bss"} /\ endian \in {"little", "big"}
  /\ ifdef_count \in Nat /\ skip \in Nat
  /\ mem \in [Address -> [one : BOOLEAN, pass : 0 .. 2]]
  /\ prog \in Seq(Statement) /\ Len(prog) <= MaxStatements
  /\ Len(trace) = Len(prog)
  /\ covered \subseteq Address
  /\ overlap \in BOOLEAN /\ switched \in BOOLEAN /\ survived \in BOOLEAN

(* Nothing happened that lets the passes differ: no name changed its       *)
(* meaning, no address was given twice, no error was dropped.              *)
Regular == ~switched /\ ~overlap /\ ~survived

(* Pass 2 puts every statement of a regular program where pass 1 put it,   *)
(* so the labels, which pass 1 fixed, are right (6502.cpp:107-131).        *)
PhaseAgreement ==
  Pass2 /\ Regular /\ pc <= Len(prog) => address = trace[pc].address

(* The image of a regular program is what pass 2 wrote: no flag and no     *)
(* guess of pass 1 is left in it (add_bin.cpp:20-36, 6502.cpp:117).        *)
NoStaleBytes ==
  status = "done" /\ Regular => \A a \in Address : mem[a].pass # 1

(* Pass 2 gives every scope the number it had in pass 1, so a local label  *)
(* is found under the number it was stored with (naken_asm.cpp:385).       *)
ScopesReplayed ==
  Pass2 /\ Regular /\ pc <= Len(prog) => current_scope = trace[pc].current_scope

(* A regular program that passes pass 1 only fails in pass 2 for a name    *)
(* that is not defined or not global, for a name defined after its use     *)
(* whose value the statement cannot hold, which pass 1 took for 0, or      *)
(* because its end left a scope or the BSS segment open                    *)
(* (Symbols.cpp:98,331-342; directives_data.cpp:28,74-88,132-146;          *)
(* 6502.cpp:390-394).                                                      *)
LateErrors ==
  [][Pass2 /\ status' = "failed" /\ ~switched' /\ ~overlap /\ ~survived =>
       \/ prog[pc].op \in {"lda", "db", "dc16"} /\ ~Known(prog[pc].arg)
       \/ /\ prog[pc].op \in {"lda", "db", "dc16"} /\ TooLarge(prog[pc])
          /\ prog[pc].arg \in Name /\ Denoted(trace[pc], prog[pc].arg) = {}
       \/ prog[pc].op = "export"
       \/ prog[pc].op \in {"scope", "func"} /\ ~trace[pc].in_scope
       \/ segment = "bss" /\ trace[pc].segment = "code"]_vars
=============================================================================
