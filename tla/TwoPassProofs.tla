--------------------------- MODULE TwoPassProofs ---------------------------
(***************************************************************************)
(* Theorems about TwoPass.tla: a regular program is read in pass 2 as it   *)
(* was in pass 1.                                                          *)
(*                                                                         *)
(* A statement acts on what it can see: a context is a record like Now.    *)
(* NextAddress, NextScope, NextSkip and NextCount say what an accepted     *)
(* statement makes of a context.  Pass 1 follows them, so the trace is a   *)
(* chain of such steps; in pass 2 the context differs from the trace in    *)
(* the table, which pass 1 has completed, and still the same functions of  *)
(* the trace give the next context.  What makes that true is that          *)
(*   - the table only grows, and a label never changes (Kept);             *)
(*   - a variable has, at each statement, the value it had there (Replayed)*)
(*   - the flag at an instruction says whether pass 1 knew its operand     *)
(*     (Marked), because no other statement writes there (Apart).          *)
(***************************************************************************)
EXTENDS TwoPass, TLAPS

Symbol == [address : Address, rw : BOOLEAN, export : BOOLEAN]
Key == (0 .. MaxScope) \X Name
Bindings == UNION {[keys -> Symbol] : keys \in SUBSET Key}
Context ==
  [address : Address, segment : {"code", "bss"}, endian : {"little", "big"},
   in_scope : BOOLEAN, current_scope : 0 .. MaxScope, ifdef_count : Nat, skip : Nat,
   bind : Bindings]

(* Names and operands as a statement finds them in a context. *)
DenotesIn(c, name) ==
  IF c.in_scope /\ <<c.current_scope, name>> \in DOMAIN c.bind
  THEN <<c.current_scope, name>> ELSE <<0, name>>
BoundIn(c, name) == DenotesIn(c, name) \in DOMAIN c.bind
KnownIn(c, arg) == arg \in Address \/ BoundIn(c, arg)
ValueIn(c, arg) == IF arg \in Address THEN arg ELSE c.bind[DenotesIn(c, arg)].address

(* The bytes of a statement, when nothing was known of the address before. *)
Width(c, st) ==
  IF c.skip > 0 THEN 0
  ELSE IF st.op = "lda"
       THEN IF KnownIn(c, st.arg) /\ ValueIn(c, st.arg) <= ZeroPage THEN 2 ELSE 3
  ELSE IF st.op = "db" THEN 1 ELSE IF st.op = "dc16" THEN 2 ELSE 0
Extent(c, st) == c.address .. c.address + Width(c, st) - 1

(* The context after an accepted statement. *)
NextAddress(c, st) ==
  IF c.skip = 0 /\ st.op = "org" THEN ValueIn(c, st.arg)
  ELSE IF c.skip = 0 /\ st.op = "resb" THEN c.address + st.arg
  ELSE c.address + Width(c, st)
NextScope(c, st) ==
  IF c.skip = 0 /\ st.op \in {"scope", "func"} THEN c.current_scope + 1 ELSE c.current_scope
NextSkip(c, st) ==
  IF c.skip > 0
  THEN c.skip + (IF st.op = "ifdef" THEN 1 ELSE 0) - (IF st.op = "endif" THEN 1 ELSE 0)
  ELSE IF st.op = "ifdef" /\ ~BoundIn(c, st.name) THEN 1 ELSE 0
NextCount(c, st) ==
  IF c.skip > 0 THEN c.ifdef_count - (IF NextSkip(c, st) = 0 THEN 1 ELSE 0)
  ELSE IF st.op = "ifdef" THEN c.ifdef_count + 1 ELSE c.ifdef_count

(* A variable has the value the statement gave it, or the one it had. *)
NextVariables(c, st, d) ==
  \A k \in DOMAIN d.bind : d.bind[k].rw =>
    IF c.skip = 0 /\ st.op = "set" /\ k = DenotesIn(c, st.name)
    THEN d.bind[k].address = ValueIn(c, st.arg)
    ELSE k \in DOMAIN c.bind /\ c.bind[k].rw /\ d.bind[k].address = c.bind[k].address

After(c, st, d) ==
  /\ d.address = NextAddress(c, st)
  /\ d.current_scope = NextScope(c, st)
  /\ d.skip = NextSkip(c, st)
  /\ d.ifdef_count = NextCount(c, st)
  /\ NextVariables(c, st, d)

(* No error in pass 1. *)
Accepted(c, st) ==
  c.skip = 0 =>
    /\ st.op \in {"db", "dc16"} => c.segment = "code"
    /\ st.op \in {"set", "org"} => KnownIn(c, st.arg)
    /\ st.op \in {"lda", "db", "dc16"} /\ KnownIn(c, st.arg)
         => ~(ValueIn(c, st.arg) > Largest(st.op))
    /\ st.op \in {"scope", "func"} => ~c.in_scope
    /\ st.op = "endif" => c.ifdef_count > 0

(* The table before and after: it grows, and a label stays. *)
Grows(before, after) ==
  \A k \in DOMAIN before :
    /\ k \in DOMAIN after /\ after[k].rw = before[k].rw
    /\ before[k].rw \/ after[k].address = before[k].address

Blank(c) ==
  /\ c.address = 0 /\ c.current_scope = 0 /\ c.skip = 0 /\ c.ifdef_count = 0
  /\ DOMAIN c.bind = {}
----------------------------------------------------------------------------

(* The inductive invariant. *)
Types ==
  /\ TypeOK
  /\ bind \in Bindings /\ trace \in Seq(Context)
  /\ debug = FALSE
  /\ skip > 0 => ifdef_count > 0

Phases ==
  /\ Pass1 => ~locked /\ pc = Len(prog) + 1
  /\ Pass2 => locked
  /\ status = "done" => pc > Len(prog)

Kept == \A i \in 1 .. Len(trace) : Grows(trace[i].bind, bind)

(* Pass 1 gives no address to bytes that it does not note. *)
Noted == Pass1 => \A a \in Address : mem[a].one \/ mem[a].pass # 0 => a \in covered

Chain ==
  /\ \A i \in 1 .. Len(prog) : Accepted(trace[i], prog[i])
  /\ \A i \in 1 .. Len(prog) - 1 : After(trace[i], prog[i], trace[i + 1])
  /\ Len(prog) > 0 => Blank(trace[1])
  /\ Pass1 => IF prog = << >> THEN Blank(Now) ELSE After(trace[Len(prog)], prog[Len(prog)], Now)

Apart ==
  /\ \A i \in 1 .. Len(prog) : Extent(trace[i], prog[i]) \subseteq covered
  /\ \A i \in 1 .. Len(prog), j \in 1 .. Len(prog) :
       i < j => Extent(trace[i], prog[i]) \cap Extent(trace[j], prog[j]) = {}

(* The statements whose bytes pass 2 has not written yet. *)
Left == {i \in 1 .. Len(prog) : Pass1 \/ i >= pc}

Marked ==
  \A i \in Left : trace[i].skip = 0 /\ prog[i].op = "lda" =>
    (mem[trace[i].address].one <=> ~KnownIn(trace[i], prog[i].arg))

Owned ==
  \A a \in Address : mem[a].pass = 1 => \E i \in Left : a \in Extent(trace[i], prog[i])

Replayed ==
  Pass2 /\ pc <= Len(prog) =>
    /\ address = trace[pc].address
    /\ current_scope = trace[pc].current_scope
    /\ skip = trace[pc].skip
    /\ ifdef_count = trace[pc].ifdef_count
    /\ fault \/ \A k \in DOMAIN trace[pc].bind :
                  trace[pc].bind[k].rw => bind[k].address = trace[pc].bind[k].address

Running == status # "failed"
IInv ==
  /\ Types /\ Phases /\ Kept /\ Noted
  /\ Running /\ ~overlap /\ ~survived => Chain /\ Apart
  /\ Running /\ Regular => Marked /\ Owned /\ Replayed
----------------------------------------------------------------------------

(* What a statement finds in the context Now is what its handler looks up  *)
(* in the table.                                                           *)
LEMMA NowSees ==
  /\ \A name : DenotesIn(Now, name) = Table!Denotes(name)
  /\ \A name : BoundIn(Now, name) <=> Table!Bound(name)
  /\ \A arg : KnownIn(Now, arg) <=> Known(arg)
  /\ \A arg : ValueIn(Now, arg) = Value(arg)
BY DEF DenotesIn, BoundIn, KnownIn, ValueIn, Now, Table!Denotes, Table!Bound, Known, Value

LEMMA StatementParts ==
  ASSUME NEW st \in Statement
  PROVE  /\ st.op \in Op /\ st.name \in Name /\ st.arg \in Name \cup Address
         /\ st.arg \in Name <=> st.arg \notin Address
BY TwoPassAssumption

(* The symbols of a table of bindings, and the tables one binding apart.   *)
LEMMA SymbolsOf ==
  ASSUME NEW table_ \in Bindings
  PROVE  /\ DOMAIN table_ \subseteq Key
         /\ \A k \in DOMAIN table_ : table_[k] \in Symbol
         /\ \A k \in DOMAIN table_ :
              table_[k].address \in Address /\ table_[k].rw \in BOOLEAN
BY DEF Bindings, Symbol

LEMMA BindingType ==
  ASSUME bind \in Bindings, NEW key \in Key, NEW symbol \in Symbol
  PROVE  Table!WithBinding(key, symbol) \in Bindings
<1>1. DOMAIN bind \cup {key} \in SUBSET Key
  BY SymbolsOf
<1>2. Table!WithBinding(key, symbol) \in [DOMAIN bind \cup {key} -> Symbol]
  BY SymbolsOf DEF Table!WithBinding
<1> QED BY <1>1, <1>2 DEF Bindings

LEMMA BindingGrows ==
  ASSUME bind \in Bindings, NEW key, key \notin DOMAIN bind, NEW symbol
  PROVE  Grows(bind, Table!WithBinding(key, symbol))
BY DEF Grows, Table!WithBinding

LEMMA ChangedType ==
  ASSUME bind \in Bindings, NEW key \in DOMAIN bind, NEW value \in Address
  PROVE  /\ [bind EXCEPT ![key].address = value] \in Bindings
         /\ [bind EXCEPT ![key].export = TRUE] \in Bindings
<1>1. PICK keys \in SUBSET Key : bind \in [keys -> Symbol]
  BY DEF Bindings
<1>2. [bind EXCEPT ![key].address = value] \in [keys -> Symbol]
  BY <1>1 DEF Symbol
<1>3. [bind EXCEPT ![key].export = TRUE] \in [keys -> Symbol]
  BY <1>1 DEF Symbol
<1> QED BY <1>2, <1>3 DEF Bindings

LEMMA ValueType ==
  ASSUME Types, NEW arg \in Name \cup Address, Known(arg)
  PROVE  Value(arg) \in Address
BY SymbolsOf DEF Types, Known, Value, Table!Bound

LEMMA DenotesKey ==
  ASSUME Types, NEW name \in Name
  PROVE  Table!Denotes(name) \in Key
BY TwoPassAssumption DEF Types, TypeOK, Table!TypeOK, Table!Scope, Table!Denotes, Key

(* No clash, no symbol: the key of a label that may be defined is new.     *)
LEMMA LabelKey ==
  ASSUME Types, NEW name \in Name
  PROVE  /\ <<Table!ScopeHere, name>> \in Key
         /\ ~Table!Clash(name) \/ ~Table!Bound(name) =>
              <<Table!ScopeHere, name>> \notin DOMAIN bind
<1>1. <<Table!ScopeHere, name>> \in Key
  BY TwoPassAssumption DEF Types, TypeOK, Table!TypeOK, Table!Scope, Table!ScopeHere, Key
<1>2. ASSUME <<Table!ScopeHere, name>> \in DOMAIN bind
      PROVE  Table!Clash(name) /\ Table!Bound(name)
  BY <1>2 DEF Table!ScopeHere, Table!Clash, Table!Bound, Table!Denotes
<1> QED BY <1>1, <1>2

(* What a step may do to the table.                                        *)
TableMoves ==
  /\ bind' \in Bindings
  /\ Grows(bind, bind')
  /\ UNCHANGED <<locked, debug>>
  /\ in_scope' \in BOOLEAN /\ fault' \in BOOLEAN
  /\ current_scope' \in 0 .. MaxScope
  /\ reply' \in [code : {0, -1}, address : Address]

LEMMA TableRests == ASSUME Types, UNCHANGED table PROVE TableMoves
BY DEF Types, TypeOK, Table!TypeOK, Table!Scope, TableMoves, table, Grows

LEMMA Answers ==
  /\ Table!Ok \in [code : {0, -1}, address : Address]
  /\ Table!Failed \in [code : {0, -1}, address : Address]
BY TwoPassAssumption DEF Table!Ok, Table!Failed, Table!Answer, Address

LEMMA TableTypes ==
  ASSUME Types
  PROVE  /\ locked \in BOOLEAN /\ debug = FALSE
         /\ in_scope \in BOOLEAN /\ fault \in BOOLEAN
         /\ current_scope \in 0 .. MaxScope
         /\ reply \in [code : {0, -1}, address : Address]
         /\ bind \in Bindings
         /\ address \in Address
BY DEF Types, TypeOK, Table!TypeOK, Table!Scope

LEMMA AppendMoves ==
  ASSUME Types, NEW name \in Name, Table!Append(name, address)
  PROVE  TableMoves
<1>1. UNCHANGED <<locked, debug, in_scope, current_scope, fault>>
  BY DEF Table!Append, Table!Control
<1>2. reply' \in [code : {0, -1}, address : Address]
  BY Answers DEF Table!Append
<1>3. CASE UNCHANGED bind
  BY <1>1, <1>2, <1>3, TableTypes DEF TableMoves, Grows
<1>4. CASE /\ ~Table!Clash(name)
           /\ bind' = Table!WithLabel(name, address)
  <2>1. Table!NewSymbol(address, FALSE) \in Symbol
    BY TableTypes DEF Table!NewSymbol, Symbol
  <2>2. bind' \in Bindings /\ Grows(bind, bind')
    BY <1>4, <2>1, LabelKey, BindingType, BindingGrows, TableTypes DEF Table!WithLabel
  <2> QED BY <1>1, <1>2, <2>2, TableTypes DEF TableMoves
<1> QED BY <1>3, <1>4, TableTypes DEF Table!Append

LEMMA SetMoves ==
  ASSUME Types, NEW name \in Name, NEW value \in Address, Table!Set(name, value)
  PROVE  TableMoves
<1>1. UNCHANGED <<locked, debug, in_scope, current_scope>>
  BY DEF Table!Set, Table!Control
<1>2. reply' \in [code : {0, -1}, address : Address] /\ fault' \in BOOLEAN
  BY Answers, TableTypes DEF Table!Set
<1>3. CASE UNCHANGED bind
  BY <1>1, <1>2, <1>3, TableTypes DEF TableMoves, Grows
<1>4. CASE /\ Table!Bound(name) /\ bind[Table!Denotes(name)].rw
           /\ bind' = [bind EXCEPT ![Table!Denotes(name)].address = value]
  <2>1. bind' \in Bindings
    BY <1>4, ChangedType, TableTypes DEF Table!Bound
  <2>2. Grows(bind, bind')
    BY <1>4, SymbolsOf, TableTypes DEF Grows, Table!Bound, Symbol
  <2> QED BY <1>1, <1>2, <2>1, <2>2, TableTypes DEF TableMoves
<1>5. CASE /\ ~Table!Bound(name)
           /\ bind' = Table!WithBinding(<<0, name>>, Table!NewSymbol(value, TRUE))
  <2>1. Table!NewSymbol(value, TRUE) \in Symbol
    BY DEF Table!NewSymbol, Symbol
  <2>2. <<0, name>> \in Key /\ <<0, name>> \notin DOMAIN bind
    BY <1>5, TwoPassAssumption DEF Key, Table!Bound, Table!Denotes
  <2>3. bind' \in Bindings /\ Grows(bind, bind')
    BY <1>5, <2>1, <2>2, BindingType, BindingGrows, TableTypes
  <2> QED BY <1>1, <1>2, <2>3, TableTypes DEF TableMoves
<1> QED BY <1>3, <1>4, <1>5 DEF Table!Set

LEMMA ExportMoves ==
  ASSUME Types, NEW name \in Name, Table!ExportSymbol(name)
  PROVE  TableMoves
<1>1. UNCHANGED <<locked, debug, in_scope, current_scope, fault>>
  BY DEF Table!ExportSymbol, Table!Control
<1>2. reply' \in [code : {0, -1}, address : Address]
  BY Answers DEF Table!ExportSymbol
<1>3. CASE UNCHANGED bind
  BY <1>1, <1>2, <1>3, TableTypes DEF TableMoves, Grows
<1>4. CASE /\ Table!Bound(name)
           /\ bind' = [bind EXCEPT ![Table!Denotes(name)].export = TRUE]
  <2>1. bind' \in Bindings
    BY <1>4, ChangedType, TableTypes, TwoPassAssumption DEF Table!Bound, Address
  <2>2. Grows(bind, bind')
    BY <1>4, SymbolsOf, TableTypes DEF Grows, Table!Bound, Symbol
  <2> QED BY <1>1, <1>2, <2>1, <2>2, TableTypes DEF TableMoves
<1> QED BY <1>3, <1>4 DEF Table!ExportSymbol

LEMMA ScopesMove ==
  ASSUME Types, Table!ScopeStart \/ Table!ScopeEnd
  PROVE  TableMoves
<1>1. UNCHANGED <<bind, locked, debug, fault>>
  BY DEF Table!ScopeStart, Table!ScopeEnd, Table!Control
<1>2. in_scope' \in BOOLEAN
  BY TableTypes DEF Table!ScopeStart, Table!ScopeEnd, Table!Control
<1>3. current_scope' = current_scope \/ current_scope' = current_scope + 1
  BY DEF Table!ScopeStart, Table!ScopeEnd, Table!Control
<1>4. current_scope' = current_scope \/ current_scope < MaxScope
  BY DEF Table!ScopeStart, Table!ScopeEnd, Table!Control
<1>5. current_scope' \in 0 .. MaxScope
  BY <1>3, <1>4, TableTypes, TwoPassAssumption
<1>6. reply' \in [code : {0, -1}, address : Address]
  BY TableTypes, Answers DEF Table!ScopeStart, Table!ScopeEnd
<1> QED BY <1>1, <1>2, <1>6, <1>5, TableTypes DEF TableMoves, Grows

LEMMA FuncMoves ==
  ASSUME Types, NEW st \in Statement, Func(st)
  PROVE  TableMoves
<1>1. UNCHANGED <<locked, debug, reply, fault>>
  BY DEF Func
<1>2. in_scope' \in BOOLEAN
  BY TableTypes DEF Func
<1>3. current_scope' = current_scope \/ current_scope' = current_scope + 1
  BY DEF Func
<1>4. current_scope' = current_scope \/ current_scope < MaxScope
  BY DEF Func
<1>5. current_scope' \in 0 .. MaxScope
  BY <1>3, <1>4, TableTypes, TwoPassAssumption
<1>6. CASE UNCHANGED bind
  BY <1>1, <1>2, <1>6, <1>5, TableTypes DEF TableMoves, Grows
<1>7. CASE ~Table!Bound(st.name) /\ bind' = Table!WithLabel(st.name, address)
  <2>1. Table!NewSymbol(address, FALSE) \in Symbol
    BY TableTypes DEF Table!NewSymbol, Symbol
  <2>2. bind' \in Bindings /\ Grows(bind, bind')
    BY <1>7, <2>1, LabelKey, BindingType, BindingGrows, TableTypes, StatementParts
       DEF Table!WithLabel
  <2> QED BY <1>1, <1>2, <2>2, <1>5, TableTypes DEF TableMoves
<1> QED BY <1>6, <1>7 DEF Func

LEMMA StepMoves ==
  ASSUME Types, NEW st \in Statement, Step(st)
  PROVE  TableMoves
<1>1. CASE Label(st)
  BY <1>1, AppendMoves, StatementParts DEF Label
<1>2. CASE Func(st)
  BY <1>2, FuncMoves
<1>3. CASE Scope(st)
  BY <1>3, ScopesMove DEF Scope
<1>4. CASE Ends(st)
  BY <1>4, ScopesMove DEF Ends
<1>5. CASE Set(st)
  BY <1>5, SetMoves, TableRests, StatementParts, ValueType DEF Set
<1>6. CASE Export(st)
  BY <1>6, ExportMoves, TableRests, StatementParts DEF Export
<1>7. CASE UNCHANGED table
  BY <1>7, TableRests
<1> QED
  BY <1>1, <1>2, <1>3, <1>4, <1>5, <1>6, <1>7
     DEF Step, Lda, Data, Org, Resb, Ifdef, Endif, Skipped, Segment, BigEndian

----------------------------------------------------------------------------

LEMMA TypeParts ==
  ASSUME Types
  PROVE  /\ MaxAddress \in Nat /\ MaxScope \in Nat /\ MaxStatements \in Nat /\ ZeroPage \in Nat
         /\ pc \in 1 .. MaxStatements + 1
         /\ status \in {"pass1", "pass2", "done", "failed"}
         /\ address \in 0 .. MaxAddress
         /\ segment \in {"code", "bss"} /\ endian \in {"little", "big"}
         /\ ifdef_count \in Nat /\ skip \in Nat
         /\ mem \in [Address -> [one : BOOLEAN, pass : 0 .. 2]]
         /\ prog \in Seq(Statement) /\ Len(prog) \in Nat /\ Len(prog) <= MaxStatements
         /\ trace \in Seq(Context) /\ Len(trace) = Len(prog)
         /\ covered \subseteq Address
         /\ overlap \in BOOLEAN /\ switched \in BOOLEAN /\ survived \in BOOLEAN
BY TwoPassAssumption DEF Types, TypeOK, Address

LEMMA NowContext == ASSUME Types PROVE Now \in Context
BY TableTypes, TypeParts DEF Now, Context

(* The program and the trace after a statement was fetched.                *)
LEMMA Fetched ==
  ASSUME Types, Phases, NEW st \in Statement, Fetch(st)
  PROVE  /\ ~fault /\ pc' = pc + 1
         /\ \/ /\ Pass1 /\ switched' = switched
               /\ Len(prog) < MaxStatements
               /\ Len(prog') = Len(prog) + 1
               /\ \A i \in 1 .. Len(prog) : prog'[i] = prog[i] /\ trace'[i] = trace[i]
               /\ prog'[Len(prog) + 1] = st /\ trace'[Len(prog) + 1] = Now
            \/ /\ Pass2 /\ pc <= Len(prog) /\ st = prog[pc]
               /\ prog' = prog /\ trace' = trace
               /\ switched' = (switched \/ (skip = 0 /\ Switches(st)))
         /\ prog' \in Seq(Statement) /\ trace' \in Seq(Context) /\ Len(trace') = Len(prog')
         /\ Len(prog') <= MaxStatements /\ pc' \in 1 .. MaxStatements + 1
         /\ switched' \in BOOLEAN
<1>1. ~fault /\ pc' = pc + 1
  BY DEF Fetch
<1>2. CASE /\ Pass1 /\ Len(prog) < MaxStatements
           /\ prog' = Append(prog, st)
           /\ trace' = Append(trace, Now)
           /\ UNCHANGED switched
  <2>1. prog' \in Seq(Statement) /\ Len(prog') = Len(prog) + 1
    BY <1>2, TypeParts
  <2>2. trace' \in Seq(Context) /\ Len(trace') = Len(trace) + 1
    BY <1>2, TypeParts, NowContext
  <2>3. \A i \in 1 .. Len(prog) : prog'[i] = prog[i]
    BY <1>2, TypeParts
  <2>4. \A i \in 1 .. Len(trace) : trace'[i] = trace[i]
    BY <1>2, TypeParts, NowContext
  <2>5. prog'[Len(prog) + 1] = st
    BY <1>2, TypeParts
  <2>6. trace'[Len(trace) + 1] = Now
    BY <1>2, TypeParts, NowContext
  <2>7. pc' \in 1 .. MaxStatements + 1
    BY <1>1, <1>2, TypeParts DEF Phases
  <2>8. Len(trace) = Len(prog) /\ Len(prog') <= MaxStatements /\ switched' \in BOOLEAN
    BY <1>2, <2>1, TypeParts
  <2> QED BY <1>1, <1>2, <2>1, <2>2, <2>3, <2>4, <2>5, <2>6, <2>7, <2>8
<1>3. CASE /\ Pass2 /\ pc <= Len(prog)
           /\ st = prog[pc]
           /\ switched' = (switched \/ (skip = 0 /\ Switches(st)))
           /\ UNCHANGED <<prog, trace>>
  <2>1. pc' \in 1 .. MaxStatements + 1
    BY <1>1, <1>3, TypeParts
  <2>2. switched' \in BOOLEAN
    BY <1>3
  <2> QED BY <1>1, <1>3, <2>1, <2>2, TypeParts
<1> QED BY <1>2, <1>3 DEF Fetch

LEMMA Rejected ==
  ASSUME Types, NEW n \in {1, 2}, Reject(n)
  PROVE  /\ ifdef_count' \in Nat
         /\ status' \in {status, "failed"}
         /\ survived' \in BOOLEAN /\ (survived => survived')
         /\ survived' \/ status' = "failed"
<1>1. CASE ifdef_count >= n /\ ifdef_count' = ifdef_count - n /\ survived' = TRUE
           /\ status' = status
  <2>1. ifdef_count' \in Nat
    BY <1>1, TypeParts
  <2> QED BY <1>1, <2>1
<1>2. CASE status' = "failed" /\ UNCHANGED <<ifdef_count, survived>>
  BY <1>2, TypeParts
<1> QED BY <1>1, <1>2 DEF Reject

LEMMA Writes ==
  ASSUME Types, NEW n \in 1 .. 3, NEW bytes, DOMAIN bytes = 1 .. n, Write(bytes)
  PROVE  /\ mem' \in [Address -> [one : BOOLEAN, pass : 0 .. 2]]
         /\ \A a \in Address :
              IF a \in address .. address + n - 1
              THEN /\ mem'[a].one <=> bytes[a - address + 1] = 1
                   /\ mem'[a].pass = IF Pass1 THEN 1 ELSE 2
              ELSE mem'[a] = mem[a]
<1>1. ASSUME NEW a \in Address
      PROVE  a - address + 1 \in DOMAIN bytes <=> a \in address .. address + n - 1
  <2>1. a \in Int /\ address \in Int
    BY TypeParts DEF Address
  <2>2. a - address + 1 \in 1 .. n <=> a \in address .. address + n - 1
    BY <2>1
  <2> QED BY <2>2
<1>2. mem' = [a \in Address |-> IF a \in address .. address + n - 1
                                THEN Byte(bytes[a - address + 1] = 1) ELSE mem[a]]
  BY <1>1 DEF Write
<1>3. \A one \in BOOLEAN : Byte(one) \in [one : BOOLEAN, pass : 0 .. 2]
  BY DEF Byte
<1>4. mem' \in [Address -> [one : BOOLEAN, pass : 0 .. 2]]
  BY <1>2, <1>3, TypeParts
<1>5. \A one \in BOOLEAN : Byte(one).one = one /\ Byte(one).pass = IF Pass1 THEN 1 ELSE 2
  BY DEF Byte
<1>6. ASSUME NEW a \in Address
      PROVE  IF a \in address .. address + n - 1
             THEN /\ mem'[a].one <=> bytes[a - address + 1] = 1
                  /\ mem'[a].pass = IF Pass1 THEN 1 ELSE 2
             ELSE mem'[a] = mem[a]
  <2>1. CASE a \in address .. address + n - 1
    <3>1. mem'[a] = Byte(bytes[a - address + 1] = 1)
      BY <1>2, <2>1
    <3> QED BY <1>5, <2>1, <3>1
  <2>2. CASE a \notin address .. address + n - 1
    BY <1>2, <2>2
  <2> QED BY <2>1, <2>2
<1> QED BY <1>4, <1>6

LEMMA Occupied ==
  ASSUME Types, NEW size \in 1 .. 3, Occupy(size)
  PROVE  /\ address' = address + size /\ address' \in Address
         /\ address .. address + size - 1 \subseteq Address
         /\ covered' \subseteq Address /\ overlap' \in BOOLEAN
         /\ Pass1 => /\ covered' = covered \cup (address .. address + size - 1)
                     /\ ~overlap' =>
                          ~overlap /\ (address .. address + size - 1) \cap covered = {}
         /\ ~Pass1 => UNCHANGED <<covered, overlap>>
<1>1. address' = address + size /\ address + size <= MaxAddress
  BY DEF Occupy
<1>2. address' \in Address /\ address .. address + size - 1 \subseteq Address
  <2>1. address \in 0 .. MaxAddress /\ MaxAddress \in Nat
    BY TypeParts
  <2>2. address + size \in 0 .. MaxAddress
    BY <1>1, <2>1
  <2>3. \A a \in address .. address + size - 1 : a \in 0 .. MaxAddress
    BY <2>1, <2>2
  <2> QED BY <1>1, <2>2, <2>3 DEF Address
<1>3. Pass1 => /\ covered' = covered \cup (address .. address + size - 1)
               /\ overlap' = (overlap \/ (address .. address + size - 1) \cap covered # {})
  BY DEF Occupy
<1>4. ~Pass1 => UNCHANGED <<covered, overlap>>
  BY DEF Occupy
<1>5. covered' \subseteq Address
  BY <1>2, <1>3, <1>4, TypeParts
<1>6. overlap' \in BOOLEAN
  BY <1>3, <1>4, TypeParts
<1>7. Pass1 => (~overlap' =>
                  ~overlap /\ (address .. address + size - 1) \cap covered = {})
  BY <1>3
<1> QED BY <1>1, <1>2, <1>3, <1>4, <1>5, <1>6, <1>7

(* size bytes were given to a statement here.                              *)
Here(size) == address .. address + size - 1
Emitted(size) ==
  /\ address' = address + size /\ address' \in Address
  /\ Here(size) \subseteq Address
  /\ covered' \subseteq Address /\ overlap' \in BOOLEAN
  /\ Pass1 => /\ covered' = covered \cup Here(size)
              /\ ~overlap' => ~overlap /\ Here(size) \cap covered = {}
              /\ \A a \in Here(size) : mem'[a].pass \in {mem[a].pass, 1}
  /\ Pass2 => /\ UNCHANGED <<covered, overlap>>
              /\ \A a \in Here(size) : mem'[a].pass = 2
  /\ mem' \in [Address -> [one : BOOLEAN, pass : 0 .. 2]]
  /\ \A a \in Address \ Here(size) : mem'[a] = mem[a]
  /\ UNCHANGED <<status, ifdef_count, survived>>

(* The operand that ends the statement with an error.                      *)
Refused(st) == (Pass2 /\ ~Known(st.arg)) \/ TooLarge(st)

LEMMA LdaShape ==
  ASSUME Types, NEW st \in Statement, Lda(st)
  PROVE  /\ st.op = "lda" /\ skip = 0 /\ Fetch(st)
         /\ UNCHANGED table /\ UNCHANGED <<segment, endian, skip>>
         /\ \/ Refused(st) /\ Reject(1) /\ NoBytes
            \/ /\ Pass1 \/ Known(st.arg)
               /\ ~TooLarge(st)
               /\ SizeOf(Known(st.arg), st.arg) \in {2, 3}
               /\ Emitted(SizeOf(Known(st.arg), st.arg))
               /\ Pass1 => (mem'[address].one <=> ~Known(st.arg) \/ mem[address].one)
<1> DEFINE size == SizeOf(Known(st.arg), st.arg)
<1>1. st.op = "lda" /\ skip = 0 /\ Fetch(st) /\ UNCHANGED table
      /\ UNCHANGED <<segment, endian, skip>>
  BY DEF Lda, Read, NoSettings
<1>2. CASE Refused(st) /\ Reject(1) /\ NoBytes
  BY <1>1, <1>2
<1>3. CASE /\ Pass1 \/ Known(st.arg)
           /\ ~TooLarge(st)
           /\ Occupy(size)
           /\ IF Pass1
              THEN IF Known(st.arg) THEN UNCHANGED mem ELSE Write(<<1>>)
              ELSE Write(IF size = 2
                         THEN <<165, Value(st.arg)>>
                         ELSE <<173, Low(Value(st.arg)), High(Value(st.arg))>>)
           /\ Accept
  <2>1. size \in {2, 3} /\ size \in 1 .. 3
    BY DEF SizeOf
  <2> HIDE DEF size
  <2>2. address \in Address /\ address \in Here(size)
    BY <2>1, TypeParts DEF Address, Here
  <2>3. CASE Pass1 /\ Known(st.arg)
    <3>1. UNCHANGED mem
      BY <1>3, <2>3
    <3>2. Emitted(size)
      BY <1>3, <2>1, <2>3, <3>1, Occupied, TypeParts DEF Emitted, Here, Accept, Pass1, Pass2
    <3> QED BY <1>1, <1>3, <2>1, <2>3, <3>1, <3>2 DEF size
  <2>4. CASE Pass1 /\ ~Known(st.arg)
    <3>1. Write(<<1>>) /\ DOMAIN <<1>> = 1 .. 1
      BY <1>3, <2>4
    <3>2. /\ mem' \in [Address -> [one : BOOLEAN, pass : 0 .. 2]]
          /\ \A a \in Address :
               IF a \in address .. address + 1 - 1
               THEN /\ mem'[a].one <=> <<1>>[a - address + 1] = 1
                    /\ mem'[a].pass = IF Pass1 THEN 1 ELSE 2
               ELSE mem'[a] = mem[a]
      BY <3>1, Writes
    <3>3. \A a \in Address : a # address => mem'[a] = mem[a]
      BY <3>2, TypeParts DEF Address
    <3>4. mem'[address].one /\ mem'[address].pass = 1
      <4>1. address \in address .. address + 1 - 1 /\ address - address + 1 = 1
        BY TypeParts
      <4> QED BY <2>2, <2>4, <3>2, <4>1
    <3>5. \A a \in Here(size) : mem'[a].pass \in {mem[a].pass, 1}
      BY <2>2, <3>3, <3>4, <2>1, Occupied, <1>3 DEF Here
    <3>6. \A a \in Address \ Here(size) : mem'[a] = mem[a]
      BY <2>2, <3>3
    <3>7. Emitted(size)
      BY <1>3, <2>1, <2>4, <3>2, <3>5, <3>6, Occupied DEF Emitted, Here, Accept, Pass1, Pass2
    <3> QED BY <1>1, <1>3, <2>1, <2>4, <3>4, <3>7 DEF size
  <2>5. CASE ~Pass1
    <3> DEFINE long == <<173, Low(Value(st.arg)), High(Value(st.arg))>>
               bytes == IF size = 2 THEN <<165, Value(st.arg)>> ELSE long
    <3>1. Write(bytes) /\ DOMAIN bytes = 1 .. size
      <4>1. Write(bytes)
        BY <1>3, <2>5
      <4>2. CASE size = 2
        <5>1. bytes = <<165, Value(st.arg)>>
          BY <4>2
        <5>2. DOMAIN <<165, Value(st.arg)>> = 1 .. 2
          OBVIOUS
        <5> QED BY <4>1, <4>2, <5>1, <5>2
      <4>3. CASE size = 3
        <5>1. bytes = long
          BY <4>3
        <5>2. DOMAIN long = 1 .. 3
          OBVIOUS
        <5> QED BY <4>1, <4>3, <5>1, <5>2
      <4> QED BY <2>1, <4>2, <4>3
    <3>2. /\ mem' \in [Address -> [one : BOOLEAN, pass : 0 .. 2]]
          /\ \A a \in Address :
               IF a \in address .. address + size - 1
               THEN mem'[a].pass = IF Pass1 THEN 1 ELSE 2
               ELSE mem'[a] = mem[a]
      <4> HIDE DEF bytes
      <4> QED BY <2>1, <3>1, Writes
    <3>3. Here(size) \subseteq Address
      BY <1>3, <2>1, Occupied DEF Here
    <3>4. \A a \in Here(size) : mem'[a].pass = 2
      BY <2>5, <3>2, <3>3 DEF Here
    <3>5. Emitted(size)
      BY <1>3, <2>1, <2>5, <3>2, <3>3, <3>4, Occupied DEF Emitted, Here, Accept
    <3> QED BY <1>1, <1>3, <2>1, <2>5, <3>5 DEF size
  <2> QED BY <2>3, <2>4, <2>5
<1> QED BY <1>2, <1>3 DEF Lda, Refused

LEMMA DataShape ==
  ASSUME Types, NEW st \in Statement, Data(st)
  PROVE  /\ st.op \in {"db", "dc16"} /\ skip = 0 /\ Fetch(st)
         /\ UNCHANGED table /\ UNCHANGED <<segment, endian, skip>>
         /\ \/ segment = "bss" /\ Reject(2) /\ NoBytes
            \/ /\ segment = "code" /\ (Pass1 \/ Known(st.arg)) /\ ~TooLarge(st)
               /\ Emitted(IF st.op = "db" THEN 1 ELSE 2)
            \/ segment = "code" /\ Refused(st) /\ Reject(1) /\ NoBytes
<1> DEFINE value == IF Known(st.arg) THEN Value(st.arg) ELSE 0
           bytes == IF st.op = "db" THEN <<value>>
                    ELSE IF endian = "little" THEN <<Low(value), High(value)>>
                    ELSE <<High(value), Low(value)>>
           size == IF st.op = "db" THEN 1 ELSE 2
<1>1. st.op \in {"db", "dc16"} /\ skip = 0 /\ Fetch(st) /\ UNCHANGED table
      /\ UNCHANGED <<segment, endian, skip>>
  BY DEF Data, Read, NoSettings
<1>2. CASE segment = "bss" /\ Reject(2) /\ NoBytes
  BY <1>1, <1>2
<1>3. CASE segment = "code" /\ Refused(st) /\ Reject(1) /\ NoBytes
  BY <1>1, <1>3
<1>4. CASE /\ segment = "code" /\ (Pass1 \/ Known(st.arg)) /\ ~TooLarge(st)
           /\ Occupy(Len(bytes)) /\ Write(bytes) /\ Accept
  <2>1. Len(bytes) = size /\ DOMAIN bytes = 1 .. size
    <3> HIDE DEF value
    <3>1. CASE st.op = "db"
      <4>1. bytes = <<value>> /\ size = 1
        BY <3>1
      <4>2. Len(<<value>>) = 1 /\ DOMAIN <<value>> = 1 .. 1
        OBVIOUS
      <4> QED BY <4>1, <4>2
    <3>2. CASE st.op # "db" /\ endian = "little"
      <4>1. bytes = <<Low(value), High(value)>> /\ size = 2
        BY <3>2
      <4>2. /\ Len(<<Low(value), High(value)>>) = 2
            /\ DOMAIN <<Low(value), High(value)>> = 1 .. 2
        OBVIOUS
      <4> QED BY <4>1, <4>2
    <3>3. CASE st.op # "db" /\ endian # "little"
      <4>1. bytes = <<High(value), Low(value)>> /\ size = 2
        BY <3>3
      <4>2. /\ Len(<<High(value), Low(value)>>) = 2
            /\ DOMAIN <<High(value), Low(value)>> = 1 .. 2
        OBVIOUS
      <4> QED BY <4>1, <4>2
    <3> QED BY <3>1, <3>2, <3>3
  <2>2. size \in 1 .. 3
    OBVIOUS
  <2> HIDE DEF bytes, size, value
  <2>3. /\ mem' \in [Address -> [one : BOOLEAN, pass : 0 .. 2]]
        /\ \A a \in Address :
             IF a \in address .. address + size - 1
             THEN mem'[a].pass = IF Pass1 THEN 1 ELSE 2
             ELSE mem'[a] = mem[a]
    BY <1>4, <2>1, <2>2, Writes
  <2>4. Occupy(size) /\ Here(size) \subseteq Address
    BY <1>4, <2>1, <2>2, Occupied DEF Here
  <2>5. /\ Pass1 => \A a \in Here(size) : mem'[a].pass = 1
        /\ Pass2 => \A a \in Here(size) : mem'[a].pass = 2
    BY <2>3, <2>4 DEF Here, Pass1, Pass2
  <2>6. Emitted(size)
    BY <1>4, <2>2, <2>3, <2>4, <2>5, Occupied DEF Emitted, Here, Accept, Pass1, Pass2
  <2> QED BY <1>1, <1>4, <2>6 DEF size
<1> QED BY <1>2, <1>3, <1>4 DEF Data, Refused

(* The ranges of what a step changes outside the table and the history.    *)
ContextMoves ==
  /\ status' \in {status, "failed"}
  /\ survived' \in BOOLEAN /\ (survived => survived')
  /\ address' \in Address
  /\ segment' \in {"code", "bss"} /\ endian' \in {"little", "big"}
  /\ ifdef_count' \in Nat /\ skip' \in Nat /\ (skip' > 0 => ifdef_count' > 0)
  /\ mem' \in [Address -> [one : BOOLEAN, pass : 0 .. 2]]
  /\ covered' \subseteq Address /\ overlap' \in BOOLEAN /\ (overlap => overlap')

LEMMA Silent ==
  ASSUME Types, NoBytes, UNCHANGED <<segment, endian, skip>>, skip = 0,
         Accept \/ Reject(1) \/ Reject(2)
  PROVE  ContextMoves
<1>1. /\ ifdef_count' \in Nat /\ status' \in {status, "failed"}
      /\ survived' \in BOOLEAN /\ (survived => survived')
  <2>1. CASE Accept
    BY <2>1, TypeParts DEF Accept
  <2>2. CASE Reject(1) \/ Reject(2)
    BY <2>2, Rejected
  <2> QED BY <2>1, <2>2
<1>2. address' \in Address
  BY TableTypes DEF NoBytes
<1> QED BY <1>1, <1>2, TypeParts DEF NoBytes, ContextMoves

LEMMA EmittedMoves ==
  ASSUME Types, NEW size, Emitted(size), Pass1 \/ Pass2, UNCHANGED <<segment, endian, skip>>,
         skip = 0
  PROVE  ContextMoves
<1>1. overlap' \in BOOLEAN /\ (overlap => overlap')
  BY TypeParts DEF Emitted
<1> QED BY <1>1, TypeParts DEF Emitted, ContextMoves

LEMMA StepContext ==
  ASSUME Types, Phases, NEW st \in Statement, Step(st)
  PROVE  ContextMoves
<1>1. CASE Lda(st)
  BY <1>1, LdaShape, Silent, EmittedMoves DEF Fetch
<1>2. CASE Data(st)
  BY <1>2, DataShape, Silent, EmittedMoves DEF Fetch
<1>3. CASE Org(st)
  <2>1. address' \in Address
    BY <1>3, StatementParts, ValueType, TableTypes DEF Org
  <2>2. /\ ifdef_count' \in Nat /\ status' \in {status, "failed"}
        /\ survived' \in BOOLEAN /\ (survived => survived')
    <3>1. CASE Accept
      BY <3>1, TypeParts DEF Accept
    <3>2. CASE Reject(1)
      BY <3>2, Rejected
    <3> QED BY <1>3, <3>1, <3>2 DEF Org
  <2> QED BY <1>3, <2>1, <2>2, TypeParts DEF Org, Read, NoSettings, ContextMoves
<1>4. CASE Resb(st)
  <2>1. address' \in Address
    BY <1>4, StatementParts, TypeParts DEF Resb, Address
  <2> QED BY <1>4, <2>1, TypeParts DEF Resb, Read, NoSettings, Accept, ContextMoves
<1>5. CASE Ifdef(st)
  <2>1. ifdef_count' \in Nat /\ ifdef_count' > 0 /\ skip' \in Nat
    BY <1>5, TypeParts DEF Ifdef
  <2>2. address' \in Address
    BY <1>5, TableTypes DEF Ifdef, NoBytes
  <2> QED BY <1>5, <2>1, <2>2, TypeParts DEF Ifdef, NoBytes, ContextMoves
<1>6. CASE Skipped(st)
  <2>1. skip' \in Nat
    BY <1>6, TypeParts DEF Skipped
  <2>2. ifdef_count > 0
    BY <1>6 DEF Skipped, Types
  <2>3. ifdef_count' \in Nat /\ (skip' > 0 => ifdef_count' > 0)
    BY <1>6, <2>1, <2>2, TypeParts DEF Skipped
  <2>4. address' \in Address
    BY <1>6, TableTypes DEF Skipped, NoBytes
  <2> QED BY <1>6, <2>1, <2>3, <2>4, TypeParts DEF Skipped, NoBytes, ContextMoves
<1>7. CASE Segment(st)
  <2>1. segment' \in {"code", "bss"} /\ address' \in Address /\ skip = 0
    BY <1>7, TableTypes DEF Segment, Read, NoBytes
  <2> QED BY <1>7, <2>1, TypeParts DEF Segment, NoBytes, Accept, ContextMoves
<1>8. CASE BigEndian(st)
  <2>1. address' \in Address /\ skip = 0
    BY <1>8, TableTypes DEF BigEndian, Read, NoBytes
  <2> QED BY <1>8, <2>1, TypeParts DEF BigEndian, NoBytes, Accept, ContextMoves
<1>9. CASE Label(st) \/ Func(st) \/ Scope(st) \/ Ends(st) \/ Set(st) \/ Endif(st) \/ Export(st)
  <2>1. NoBytes /\ UNCHANGED <<segment, endian, skip>> /\ skip = 0
    BY <1>9 DEF Label, Func, Scope, Ends, Set, Endif, Export, NoSettings, Read
  <2>2. Accept \/ Reject(1)
    BY <1>9 DEF Label, Func, Scope, Ends, Set, Endif, Export
  <2> QED BY <2>1, <2>2, Silent
<1> QED BY <1>1, <1>2, <1>3, <1>4, <1>5, <1>6, <1>7, <1>8, <1>9 DEF Step

LEMMA StepFetches ==
  ASSUME NEW st \in Statement, Step(st)
  PROVE  Fetch(st)
BY DEF Step, Label, Func, Scope, Ends, Lda, Data, Set, Org, Resb, Ifdef, Endif, Skipped, Export,
       Segment, BigEndian, Read

LEMMA StepTypes ==
  ASSUME Types, Phases, NEW st \in Statement, Step(st)
  PROVE  Types'
<1>1. TableMoves /\ ContextMoves /\ Fetch(st)
  BY StepMoves, StepContext, StepFetches
<1>2. /\ prog' \in Seq(Statement) /\ trace' \in Seq(Context) /\ Len(trace') = Len(prog')
      /\ Len(prog') <= MaxStatements /\ pc' \in 1 .. MaxStatements + 1
      /\ switched' \in BOOLEAN
  BY <1>1, Fetched
<1>3. DOMAIN bind' \subseteq Key /\ \A k \in DOMAIN bind' : bind'[k] \in Symbol
  BY <1>1, SymbolsOf DEF TableMoves
<1>4. Table!TypeOK'
  BY <1>1, <1>3, TableTypes
     DEF TableMoves, Table!TypeOK, Table!Key, Table!Scope, Table!Symbol, Key, Symbol
<1>5. /\ status' \in {"pass1", "pass2", "done", "failed"}
      /\ survived' \in BOOLEAN /\ overlap' \in BOOLEAN
  BY <1>1, TypeParts DEF ContextMoves
<1>6. TypeOK'
  BY <1>1, <1>2, <1>4, <1>5 DEF ContextMoves, TypeOK
<1> QED BY <1>1, <1>2, <1>6 DEF Types, TableMoves, ContextMoves, TableTypes

LEMMA NextPassTypes == ASSUME Types, NextPass PROVE Types'
<1>1. locked' \in BOOLEAN
  BY DEF NextPass, LockedInPass2
<1>2. current_scope' \in 0 .. MaxScope
  BY TypeParts DEF NextPass, ScopeOfPass2
<1>3. UNCHANGED <<bind, debug, in_scope, reply, fault>>
  BY DEF NextPass
<1>4. Table!TypeOK'
  BY <1>1, <1>2, <1>3 DEF Types, TypeOK, Table!TypeOK, Table!Scope
<1>5. 1 \in 1 .. MaxStatements + 1 /\ 0 \in Address
  BY TypeParts DEF Address
<1> QED BY <1>4, <1>5, TypeParts DEF NextPass, Types, TypeOK, history

LEMMA FinishTypes == ASSUME Types, Finish PROVE Types'
BY DEF Finish, Types, TypeOK, Table!TypeOK, table, context, history

----------------------------------------------------------------------------

(* The context c has the position of Now, and the names and the operand    *)
(* of the statement are in c what they are in the table.                   *)
Mirrors(c, st) ==
  /\ c.address = address /\ c.current_scope = current_scope
  /\ c.skip = skip /\ c.ifdef_count = ifdef_count
  /\ skip = 0 /\ st.op = "ifdef" => (BoundIn(c, st.name) <=> Table!Bound(st.name))
  /\ skip = 0 /\ st.op = "org" /\ Known(st.arg) => ValueIn(c, st.arg) = Value(st.arg)
  /\ skip = 0 /\ st.op = "lda" /\ (Pass1 \/ Known(st.arg)) =>
       SizeOf(Known(st.arg), st.arg) = Width(c, st)

(* No error was reported by the step.                                      *)
Fine == status' # "failed" /\ ~survived'

LEMMA FineRejectsNothing == ASSUME Types, Fine, NEW n \in {1, 2}, Reject(n) PROVE FALSE
BY Rejected DEF Fine

LEMMA EmitsWidth ==
  ASSUME Types, Phases, NEW st \in Statement, Lda(st) \/ Data(st), Fine, NEW c, Mirrors(c, st)
  PROVE  /\ Emitted(Width(c, st)) /\ Width(c, st) \in 1 .. 3
         /\ skip = 0 /\ UNCHANGED <<table, skip, ifdef_count>>
         /\ st.op \in {"lda", "db", "dc16"}
<1>1. CASE Lda(st)
  <2>1. /\ st.op = "lda" /\ skip = 0 /\ UNCHANGED <<table, skip>>
        /\ Pass1 \/ Known(st.arg)
        /\ SizeOf(Known(st.arg), st.arg) \in {2, 3}
        /\ Emitted(SizeOf(Known(st.arg), st.arg))
    BY <1>1, LdaShape, FineRejectsNothing
  <2>2. SizeOf(Known(st.arg), st.arg) = Width(c, st)
    BY <2>1 DEF Mirrors
  <2> QED BY <2>1, <2>2 DEF Emitted
<1>2. CASE Data(st)
  <2>1. /\ st.op \in {"db", "dc16"} /\ skip = 0 /\ UNCHANGED <<table, skip>>
        /\ Emitted(IF st.op = "db" THEN 1 ELSE 2)
    BY <1>2, DataShape, FineRejectsNothing
  <2>2. Width(c, st) = IF st.op = "db" THEN 1 ELSE 2
    BY <2>1 DEF Width, Mirrors
  <2> QED BY <2>1, <2>2 DEF Emitted
<1> QED BY <1>1, <1>2

(* The other statements give no bytes.                                     *)
LEMMA EmitsNothing ==
  ASSUME NEW st \in Statement, Step(st), ~Lda(st), ~Data(st), NEW c, c.skip = skip
  PROVE  /\ UNCHANGED <<mem, covered, overlap>>
         /\ Width(c, st) = 0
<1>1. UNCHANGED <<mem, covered, overlap>>
  BY DEF Step, Label, Func, Scope, Ends, Set, Org, Resb, Ifdef, Endif, Skipped, Export,
         Segment, BigEndian, NoBytes
<1>2. skip > 0 \/ st.op \notin {"lda", "db", "dc16"}
  BY DEF Step, Label, Func, Scope, Ends, Set, Org, Resb, Ifdef, Endif, Skipped, Export,
         Segment, BigEndian, Read
<1> QED BY <1>1, <1>2 DEF Width

LEMMA Follows ==
  ASSUME Types, Phases, NEW st \in Statement, Step(st), Fine, NEW c, Mirrors(c, st)
  PROVE  /\ address' = NextAddress(c, st)
         /\ current_scope' = NextScope(c, st)
         /\ skip' = NextSkip(c, st)
         /\ ifdef_count' = NextCount(c, st)
<1>1. CASE Lda(st) \/ Data(st)
  <2>1. /\ Emitted(Width(c, st)) /\ Width(c, st) \in 1 .. 3
        /\ skip = 0 /\ UNCHANGED <<table, skip, ifdef_count>>
        /\ st.op \in {"lda", "db", "dc16"}
    BY <1>1, EmitsWidth
  <2>2. address' = c.address + Width(c, st)
    BY <2>1 DEF Emitted, Mirrors
  <2> QED BY <2>1, <2>2 DEF NextAddress, NextScope, NextSkip, NextCount, Mirrors, table
<1>2. CASE Skipped(st)
  <2>1. skip > 0 /\ c.skip > 0 /\ c.skip # 0 /\ UNCHANGED current_scope /\ UNCHANGED address
    BY <1>2, TypeParts DEF Skipped, Mirrors, table, NoBytes
  <2>2. Width(c, st) = 0 /\ c.address + 0 = c.address
    BY <2>1, TypeParts DEF Width, Mirrors
  <2>3. address' = NextAddress(c, st) /\ current_scope' = NextScope(c, st)
    BY <2>1, <2>2 DEF NextAddress, NextScope, Mirrors
  <2>4. skip' = NextSkip(c, st)
    BY <1>2, <2>1 DEF Skipped, NextSkip, Mirrors
  <2>5. ifdef_count' = NextCount(c, st)
    BY <1>2, <2>1, <2>4 DEF Skipped, NextCount, Mirrors
  <2> QED BY <2>3, <2>4, <2>5
<1>3. CASE ~Lda(st) /\ ~Data(st) /\ ~Skipped(st)
  <2>1. skip = 0 /\ c.skip = 0 /\ ~(c.skip > 0)
    BY <1>3 DEF Step, Label, Func, Scope, Ends, Set, Org, Resb, Ifdef, Endif, Export,
                Segment, BigEndian, Read, Mirrors
  <2>2. Width(c, st) = 0 /\ c.address + 0 = c.address
    BY <1>3, <2>1, EmitsNothing, TypeParts DEF Mirrors
  <2>3. CASE Ifdef(st)
    BY <2>1, <2>2, <2>3
       DEF Ifdef, Read, NoBytes, table, Mirrors, NextAddress, NextScope, NextSkip, NextCount
  <2>4. CASE Org(st)
    <3>1. st.op = "org" /\ Known(st.arg) /\ address' = Value(st.arg) /\ Accept /\ UNCHANGED table
          /\ UNCHANGED skip
      BY <2>4, FineRejectsNothing DEF Org, Read, NoSettings
    <3> QED
      BY <2>1, <3>1 DEF Mirrors, NextAddress, NextScope, NextSkip, NextCount, Accept, table
  <2>5. CASE Resb(st)
    BY <2>1, <2>5
       DEF Resb, Read, Mirrors, NextAddress, NextScope, NextSkip, NextCount, Accept, table,
           NoSettings
  <2>6. CASE Func(st) \/ Scope(st)
    <3>1. st.op \in {"scope", "func"} /\ UNCHANGED <<address, skip>>
      BY <2>6 DEF Func, Scope, Read, NoBytes, NoSettings
    <3>2. current_scope' = current_scope + 1 /\ Accept
      <4>1. CASE Func(st)
        BY <4>1, FineRejectsNothing DEF Func
      <4>2. CASE Scope(st)
        <5>1. Accept /\ reply' # Table!Failed
          BY <4>2, FineRejectsNothing DEF Scope
        <5> QED BY <4>2, <5>1 DEF Scope, Table!ScopeStart
      <4> QED BY <2>6, <4>1, <4>2
    <3> QED
      BY <2>1, <2>2, <3>1, <3>2
         DEF Mirrors, NextAddress, NextScope, NextSkip, NextCount, Accept
  <2>7. CASE Label(st) \/ Ends(st) \/ Set(st) \/ Endif(st) \/ Export(st) \/ Segment(st)
               \/ BigEndian(st)
    <3>1. /\ st.op \notin {"org", "resb", "scope", "func", "ifdef"}
          /\ UNCHANGED <<address, skip>>
      BY <2>7 DEF Label, Ends, Set, Endif, Export, Segment, BigEndian, Read, NoBytes, NoSettings
    <3>2. Accept
      BY <2>7, FineRejectsNothing DEF Label, Ends, Set, Endif, Export, Segment, BigEndian
    <3>3. UNCHANGED current_scope
      BY <2>7
         DEF Label, Ends, Set, Endif, Export, Segment, BigEndian, table, Table!Append,
             Table!ScopeEnd, Table!Set, Table!ExportSymbol, Table!Control
    <3> QED
      BY <2>1, <2>2, <3>1, <3>2, <3>3
         DEF Mirrors, NextAddress, NextScope, NextSkip, NextCount, Accept
  <2> QED BY <1>3, <2>3, <2>4, <2>5, <2>6, <2>7 DEF Step
<1> QED BY <1>1, <1>2, <1>3

LEMMA MirrorsNow ==
  ASSUME Types, Phases, Noted, NEW st \in Statement, Step(st), Pass1, Fine, ~overlap'
  PROVE  Mirrors(Now, st)
<1>1. /\ Now.address = address /\ Now.current_scope = current_scope
      /\ Now.skip = skip /\ Now.ifdef_count = ifdef_count
  BY DEF Now
<1>2. ASSUME skip = 0, st.op = "lda"
      PROVE  SizeOf(Known(st.arg), st.arg) = Width(Now, st)
  <2>1. Lda(st)
    BY <1>2 DEF Step, Label, Func, Scope, Ends, Lda, Data, Set, Org, Resb, Ifdef, Endif,
                Skipped, Export, Segment, BigEndian, Read
  <2>2. /\ SizeOf(Known(st.arg), st.arg) \in {2, 3}
        /\ Emitted(SizeOf(Known(st.arg), st.arg))
    BY <2>1, LdaShape, FineRejectsNothing
  <2>3. address \in Here(SizeOf(Known(st.arg), st.arg))
    BY <2>2, TypeParts DEF Here
  <2>4. address \in Address /\ address \notin covered
    BY <2>2, <2>3 DEF Emitted
  <2>5. ~mem[address].one
    BY <2>4 DEF Noted
  <2>6. Known(st.arg) => Value(st.arg) \in Address /\ Value(st.arg) \in Int
    BY ValueType, StatementParts, TypeParts DEF Address
  <2> QED BY <1>1, <1>2, <2>5, <2>6, NowSees, TypeParts DEF SizeOf, Width
<1> QED BY <1>1, <1>2, NowSees DEF Mirrors

LEMMA AcceptedNow ==
  ASSUME Types, Phases, NEW st \in Statement, Step(st), Pass1, Fine
  PROVE  Accepted(Now, st)
<1> SUFFICES ASSUME skip = 0 PROVE Accepted(Now, st)
  BY DEF Accepted, Now
<1>1. st.op \in {"db", "dc16"} => segment = "code"
  <2> SUFFICES ASSUME st.op \in {"db", "dc16"} PROVE segment = "code"
    OBVIOUS
  <2>1. Data(st)
    BY DEF Step, Label, Func, Scope, Ends, Lda, Data, Set, Org, Resb, Ifdef, Endif,
           Skipped, Export, Segment, BigEndian, Read
  <2> QED BY <2>1, DataShape, FineRejectsNothing
<1>2. st.op \in {"set", "org"} => Known(st.arg)
  <2> SUFFICES ASSUME st.op \in {"set", "org"} PROVE Known(st.arg)
    OBVIOUS
  <2>1. Set(st) \/ Org(st)
    BY DEF Step, Label, Func, Scope, Ends, Lda, Data, Set, Org, Resb, Ifdef, Endif,
           Skipped, Export, Segment, BigEndian, Read
  <2> QED BY <2>1, FineRejectsNothing DEF Set, Org
<1>3. st.op \in {"lda", "db", "dc16"} /\ Known(st.arg) => ~(Value(st.arg) > Largest(st.op))
  <2> SUFFICES ASSUME st.op \in {"lda", "db", "dc16"} PROVE ~TooLarge(st)
    BY DEF TooLarge
  <2>1. Lda(st) \/ Data(st)
    BY DEF Step, Label, Func, Scope, Ends, Lda, Data, Set, Org, Resb, Ifdef, Endif,
           Skipped, Export, Segment, BigEndian, Read
  <2> QED BY <2>1, LdaShape, DataShape, FineRejectsNothing
<1>4. st.op \in {"scope", "func"} => ~in_scope
  <2> SUFFICES ASSUME st.op \in {"scope", "func"} PROVE ~in_scope
    OBVIOUS
  <2>1. CASE Scope(st)
    <3>1. reply' # Table!Failed
      BY <2>1, FineRejectsNothing DEF Scope
    <3> QED BY <2>1, <3>1 DEF Scope, Table!ScopeStart
  <2>2. CASE Func(st)
    BY <2>2, FineRejectsNothing DEF Func
  <2>3. Scope(st) \/ Func(st)
    BY DEF Step, Label, Func, Scope, Ends, Lda, Data, Set, Org, Resb, Ifdef, Endif,
           Skipped, Export, Segment, BigEndian, Read
  <2> QED BY <2>1, <2>2, <2>3
<1>5. st.op = "endif" => ifdef_count > 0
  <2> SUFFICES ASSUME st.op = "endif" PROVE ifdef_count > 0
    OBVIOUS
  <2>1. Endif(st)
    BY DEF Step, Label, Func, Scope, Ends, Lda, Data, Set, Org, Resb, Ifdef, Endif,
           Skipped, Export, Segment, BigEndian, Read
  <2> QED BY <2>1, FineRejectsNothing, TypeParts DEF Endif
<1> QED BY <1>1, <1>2, <1>3, <1>4, <1>5, NowSees DEF Accepted, Now

(* A label brings no variable.                                             *)
LEMMA LabelsAreFixed ==
  ASSUME NEW name, bind' = bind \/ bind' = Table!WithLabel(name, address)
  PROVE  \A k \in DOMAIN bind' : bind'[k].rw => k \in DOMAIN bind /\ bind'[k] = bind[k]
BY DEF Table!WithLabel, Table!WithBinding, Table!NewSymbol

LEMMA VariablesNow ==
  ASSUME Types, Phases, NEW st \in Statement, Step(st), Pass1, Fine
  PROVE  NextVariables(Now, st, Now')
<1>1. Now.bind = bind /\ Now'.bind = bind' /\ Now.skip = skip
  BY DEF Now
<1>2. CASE Set(st)
  <2>1. /\ skip = 0 /\ st.op = "set" /\ Known(st.arg)
        /\ Table!Set(st.name, Value(st.arg))
    BY <1>2, FineRejectsNothing DEF Set, Read
  <2>2. DenotesIn(Now, st.name) = Table!Denotes(st.name)
        /\ ValueIn(Now, st.arg) = Value(st.arg)
    BY NowSees
  <2>3. ASSUME NEW k \in DOMAIN bind', bind'[k].rw
        PROVE  IF k = Table!Denotes(st.name) THEN bind'[k].address = Value(st.arg)
               ELSE k \in DOMAIN bind /\ bind[k].rw /\ bind'[k].address = bind[k].address
    <3>1. CASE /\ Table!Bound(st.name) /\ bind[Table!Denotes(st.name)].rw
               /\ bind' = [bind EXCEPT ![Table!Denotes(st.name)].address = Value(st.arg)]
      BY <2>3, <3>1, SymbolsOf, TableTypes DEF Table!Bound, Symbol
    <3>2. CASE Table!Bound(st.name) /\ ~bind[Table!Denotes(st.name)].rw /\ UNCHANGED bind
      BY <2>3, <3>2 DEF Table!Bound
    <3>3. CASE /\ ~Table!Bound(st.name)
               /\ bind' = Table!WithBinding(<<0, st.name>>, Table!NewSymbol(Value(st.arg), TRUE))
      <4>1. Table!Denotes(st.name) = <<0, st.name>>
        BY <3>3 DEF Table!Bound, Table!Denotes
      <4> QED BY <2>3, <3>3, <4>1 DEF Table!WithBinding, Table!NewSymbol
    <3> QED BY <2>1, <3>1, <3>2, <3>3 DEF Table!Set, Phases
  <2> QED BY <1>1, <2>1, <2>2, <2>3 DEF NextVariables
<1>3. CASE ~Set(st)
  <2>1. skip > 0 \/ st.op # "set"
    BY <1>3 DEF Step, Label, Func, Scope, Ends, Lda, Data, Set, Org, Resb, Ifdef, Endif,
                Skipped, Export, Segment, BigEndian, Read
  <2>2. \A k \in DOMAIN bind' : bind'[k].rw => k \in DOMAIN bind /\ bind'[k] = bind[k]
    <3>1. CASE Label(st)
      <4>1. bind' = bind \/ bind' = Table!WithLabel(st.name, address)
        BY <3>1, TableTypes DEF Label, Table!Append
      <4> QED BY <4>1, LabelsAreFixed
    <3>2. CASE Func(st)
      <4>1. bind' = bind \/ bind' = Table!WithLabel(st.name, address)
        BY <3>2 DEF Func
      <4> QED BY <4>1, LabelsAreFixed
    <3>3. CASE ~Label(st) /\ ~Func(st)
      <4>1. bind' = bind
        BY <1>3, <3>3
           DEF Step, Scope, Ends, Lda, Data, Org, Resb, Ifdef, Endif, Skipped, Export,
               Segment, BigEndian, table, Table!ScopeStart, Table!ScopeEnd, Pass1, Pass2
      <4> QED BY <4>1
    <3> QED BY <3>1, <3>2, <3>3
  <2> QED BY <1>1, <2>1, <2>2, TypeParts DEF NextVariables
<1> QED BY <1>2, <1>3

(* In pass 1 the context after a statement follows from the one before.    *)
LEMMA AfterNow ==
  ASSUME Types, Phases, Noted, NEW st \in Statement, Step(st), Pass1, Fine, ~overlap'
  PROVE  Accepted(Now, st) /\ After(Now, st, Now')
<1>1. /\ Now'.address = address' /\ Now'.current_scope = current_scope'
      /\ Now'.skip = skip' /\ Now'.ifdef_count = ifdef_count'
  BY DEF Now
<1>2. Mirrors(Now, st)
  BY MirrorsNow
<1>3. /\ address' = NextAddress(Now, st) /\ current_scope' = NextScope(Now, st)
      /\ skip' = NextSkip(Now, st) /\ ifdef_count' = NextCount(Now, st)
  BY <1>2, Follows
<1> QED BY <1>1, <1>3, AcceptedNow, VariablesNow DEF After

----------------------------------------------------------------------------

(* A statement writes its own bytes, all of them in pass 2.                *)
LEMMA WritesExtent ==
  ASSUME Types, Phases, NEW st \in Statement, Step(st), Fine, NEW c, Mirrors(c, st)
  PROVE  /\ Extent(c, st) \subseteq Address
         /\ \A a \in Address \ Extent(c, st) : mem'[a] = mem[a]
         /\ Pass1 => /\ covered' = covered \cup Extent(c, st)
                     /\ ~overlap' => ~overlap /\ Extent(c, st) \cap covered = {}
         /\ Pass2 => /\ UNCHANGED <<covered, overlap>>
                     /\ \A a \in Extent(c, st) : mem'[a].pass = 2
<1>1. CASE Lda(st) \/ Data(st)
  <2>1. Emitted(Width(c, st)) /\ Here(Width(c, st)) = Extent(c, st)
    BY <1>1, EmitsWidth DEF Here, Extent, Mirrors
  <2> QED BY <2>1 DEF Emitted
<1>2. CASE ~Lda(st) /\ ~Data(st)
  <2>1. UNCHANGED <<mem, covered, overlap>> /\ Width(c, st) = 0
    BY <1>2, EmitsNothing DEF Mirrors
  <2>2. Extent(c, st) = {}
    BY <2>1, TypeParts DEF Extent, Mirrors
  <2> QED BY <2>1, <2>2
<1> QED BY <1>1, <1>2

LEMMA GrowsOn ==
  ASSUME NEW old, NEW before, NEW after, Grows(old, before), Grows(before, after)
  PROVE  Grows(old, after)
BY DEF Grows

LEMMA KeptStep ==
  ASSUME Types, Phases, Kept, NEW st \in Statement, Step(st)
  PROVE  Kept'
<1>1. Grows(bind, bind') /\ Fetch(st)
  BY StepMoves, StepFetches DEF TableMoves
<1>2. CASE Pass1
  <2>1. /\ Len(trace') = Len(trace) + 1 /\ trace'[Len(trace) + 1] = Now
        /\ \A i \in 1 .. Len(trace) : trace'[i] = trace[i]
    BY <1>1, <1>2, Fetched, TypeParts DEF Pass1, Pass2
  <2>2. Now.bind = bind
    BY DEF Now
  <2>3. ASSUME NEW i \in 1 .. Len(trace') PROVE Grows(trace'[i].bind, bind')
    <3>1. i \in 1 .. Len(trace) \/ i = Len(trace) + 1
      BY <2>1, TypeParts
    <3>2. CASE i \in 1 .. Len(trace)
      BY <1>1, <2>1, <3>2, GrowsOn DEF Kept
    <3>3. CASE i = Len(trace) + 1
      BY <1>1, <2>1, <2>2, <3>3
    <3> QED BY <3>1, <3>2, <3>3
  <2> QED BY <2>3 DEF Kept
<1>3. CASE ~Pass1
  <2>1. trace' = trace
    BY <1>1, <1>3, Fetched
  <2> QED BY <1>1, <2>1, GrowsOn DEF Kept
<1> QED BY <1>2, <1>3

LEMMA PhasesStep ==
  ASSUME Types, Phases, NEW st \in Statement, Step(st)
  PROVE  /\ Phases'
         /\ Pass1' => Pass1
         /\ Pass2' => Pass2
         /\ status' # "done"
<1>1. status' \in {status, "failed"} /\ locked' = locked /\ Fetch(st)
  BY StepMoves, StepFetches, StepContext DEF TableMoves, ContextMoves
<1>2. Pass1 \/ Pass2
  BY <1>1 DEF Fetch
<1>3. Pass1 => pc' = Len(prog') + 1
  BY <1>1, Fetched, TypeParts DEF Phases, Pass1, Pass2
<1> QED BY <1>1, <1>2, <1>3 DEF Phases, Pass1, Pass2

LEMMA NotedStep ==
  ASSUME Types, Phases, Noted, NEW st \in Statement, Step(st)
  PROVE  Noted'
<1> SUFFICES ASSUME Pass1', NEW a \in Address, mem'[a].one \/ mem'[a].pass # 0
             PROVE  a \in covered'
  BY DEF Noted
<1>1. Pass1
  BY PhasesStep
<1>2. CASE UNCHANGED <<mem, covered>>
  BY <1>1, <1>2 DEF Noted
<1>3. ASSUME NEW size, Emitted(size)
      PROVE  a \in covered'
  <2>1. covered' = covered \cup Here(size)
    BY <1>1, <1>3 DEF Emitted
  <2>2. a \notin Here(size) => mem'[a] = mem[a]
    BY <1>3 DEF Emitted
  <2> QED BY <1>1, <2>1, <2>2 DEF Noted
<1>4. CASE Lda(st)
  BY <1>2, <1>3, <1>4, LdaShape DEF NoBytes
<1>5. CASE Data(st)
  BY <1>2, <1>3, <1>5, DataShape DEF NoBytes
<1>6. CASE ~Lda(st) /\ ~Data(st)
  <2>1. Now.skip = skip
    BY DEF Now
  <2>3. UNCHANGED <<mem, covered, overlap>>
    BY <1>6, <2>1, EmitsNothing
  <2> QED BY <1>2, <2>3
<1> QED BY <1>4, <1>5, <1>6

LEMMA ChainStep ==
  ASSUME Types, Phases, Noted, Chain, NEW st \in Statement, Step(st), Fine, ~overlap'
  PROVE  Chain'
<1>1. Fetch(st)
  BY StepFetches
<1>2. CASE Pass1
  <2> DEFINE n == Len(prog)
  <2>1. /\ Len(prog') = n + 1 /\ n \in Nat
        /\ \A i \in 1 .. n : prog'[i] = prog[i] /\ trace'[i] = trace[i]
        /\ prog'[n + 1] = st /\ trace'[n + 1] = Now
    BY <1>1, <1>2, Fetched, TypeParts DEF Pass1, Pass2
  <2>2. Accepted(Now, st) /\ After(Now, st, Now')
    BY <1>2, AfterNow
  <2> HIDE DEF n
  <2>3. \A i \in 1 .. Len(prog') : Accepted(trace'[i], prog'[i])
    <3> SUFFICES ASSUME NEW i \in 1 .. Len(prog') PROVE Accepted(trace'[i], prog'[i])
      OBVIOUS
    <3>1. i \in 1 .. n \/ i = n + 1
      BY <2>1
    <3> QED BY <2>1, <2>2, <3>1 DEF Chain, n
  <2>4. \A i \in 1 .. Len(prog') - 1 : After(trace'[i], prog'[i], trace'[i + 1])
    <3> SUFFICES ASSUME NEW i \in 1 .. Len(prog') - 1
                 PROVE  After(trace'[i], prog'[i], trace'[i + 1])
      OBVIOUS
    <3>1. CASE i \in 1 .. n - 1
      <4>1. i \in 1 .. n /\ i + 1 \in 1 .. n
        BY <2>1, <3>1
      <4> QED BY <2>1, <3>1, <4>1 DEF Chain, n
    <3>2. CASE i = n
      <4>1. n \in 1 .. n
        BY <2>1, <3>2
      <4>2. prog # << >>
        BY <4>1, TypeParts DEF n
      <4> QED BY <1>2, <2>1, <3>2, <4>1, <4>2 DEF Chain, n
    <3> QED BY <2>1, <3>1, <3>2
  <2>5. Blank(trace'[1])
    <3>1. CASE n = 0
      <4>1. prog = << >>
        BY <3>1, TypeParts DEF n
      <4> QED BY <1>2, <2>1, <3>1, <4>1 DEF Chain
    <3>2. CASE n > 0
      <4>1. 1 \in 1 .. n
        BY <2>1, <3>2
      <4> QED BY <2>1, <3>2, <4>1 DEF Chain, n
    <3> QED BY <2>1, <3>1, <3>2
  <2>6. prog' # << >> /\ After(trace'[Len(prog')], prog'[Len(prog')], Now')
    <3>1. prog' # << >>
      BY <2>1
    <3> QED BY <2>1, <2>2, <3>1
  <2> QED BY <2>3, <2>4, <2>5, <2>6 DEF Chain
<1>3. CASE ~Pass1
  <2>1. prog' = prog /\ trace' = trace /\ ~Pass1'
    BY <1>1, <1>3, Fetched, PhasesStep
  <2> QED BY <2>1 DEF Chain
<1> QED BY <1>2, <1>3

LEMMA ApartStep ==
  ASSUME Types, Phases, Noted, Apart, NEW st \in Statement, Step(st), Fine, ~overlap'
  PROVE  Apart'
<1>1. Fetch(st)
  BY StepFetches
<1>2. CASE Pass1
  <2> DEFINE n == Len(prog)
  <2>1. /\ Len(prog') = n + 1 /\ n \in Nat
        /\ \A i \in 1 .. n : prog'[i] = prog[i] /\ trace'[i] = trace[i]
        /\ prog'[n + 1] = st /\ trace'[n + 1] = Now
    BY <1>1, <1>2, Fetched, TypeParts DEF Pass1, Pass2
  <2>2. covered' = covered \cup Extent(Now, st) /\ Extent(Now, st) \cap covered = {}
    BY <1>2, MirrorsNow, WritesExtent
  <2> HIDE DEF n
  <2>3. \A i \in 1 .. n : Extent(trace'[i], prog'[i]) \subseteq covered
    BY <2>1 DEF Apart, n
  <2>4. Extent(trace'[n + 1], prog'[n + 1]) = Extent(Now, st)
    BY <2>1
  <2>5. ASSUME NEW i \in 1 .. Len(prog') PROVE Extent(trace'[i], prog'[i]) \subseteq covered'
    <3>1. i \in 1 .. n \/ i = n + 1
      BY <2>1
    <3> QED BY <2>2, <2>3, <2>4, <3>1
  <2>6. ASSUME NEW i \in 1 .. Len(prog'), NEW j \in 1 .. Len(prog'), i < j
        PROVE  Extent(trace'[i], prog'[i]) \cap Extent(trace'[j], prog'[j]) = {}
    <3>1. i \in 1 .. n /\ (j \in 1 .. n \/ j = n + 1)
      BY <2>1, <2>6
    <3>2. CASE j \in 1 .. n
      BY <2>1, <2>6, <3>1, <3>2 DEF Apart, n
    <3>3. CASE j = n + 1
      BY <2>2, <2>3, <2>4, <3>1, <3>3
    <3> QED BY <3>1, <3>2, <3>3
  <2> QED BY <2>5, <2>6 DEF Apart
<1>3. CASE ~Pass1
  <2>1. prog' = prog /\ trace' = trace /\ Pass2
    BY <1>1, <1>3, Fetched
  <2>2. covered' = covered
    <3>1. CASE Lda(st)
      BY <2>1, <3>1, LdaShape DEF Emitted, NoBytes
    <3>2. CASE Data(st)
      BY <2>1, <3>2, DataShape DEF Emitted, NoBytes
    <3>3. CASE ~Lda(st) /\ ~Data(st)
      <4>1. Now.skip = skip
        BY DEF Now
      <4> QED BY <3>3, <4>1, EmitsNothing
    <3> QED BY <3>1, <3>2, <3>3
  <2> QED BY <2>1, <2>2 DEF Apart
<1> QED BY <1>2, <1>3

----------------------------------------------------------------------------

(* Pass 2 against the trace.                                               *)
LEMMA DenotedIs ==
  ASSUME NEW c, NEW name
  PROVE  Denoted(c, name) = IF BoundIn(c, name) THEN {DenotesIn(c, name)} ELSE {}
BY DEF Denoted, KeyIn, BoundIn, DenotesIn

LEMMA SameNames ==
  ASSUME NEW st \in Statement, ~Switches(st), NEW name \in Refers(st)
  PROVE  /\ BoundIn(trace[pc], name) =>
              Table!Bound(name) /\ Table!Denotes(name) = DenotesIn(trace[pc], name)
         /\ st.op \in {"ifdef", "org"} => (BoundIn(trace[pc], name) <=> Table!Bound(name))
         /\ st.op = "set" /\ name = st.name =>
              Table!Denotes(name) = DenotesIn(trace[pc], name)
<1> DEFINE t == trace[pc]
<1>1. Denoted(Now, name) = IF Table!Bound(name) THEN {Table!Denotes(name)} ELSE {}
  BY DenotedIs, NowSees
<1>2. Denoted(t, name) = IF BoundIn(t, name) THEN {DenotesIn(t, name)} ELSE {}
  BY DenotedIs
<1>3. ~BoundIn(t, name) => DenotesIn(t, name) = <<0, name>>
  BY DEF BoundIn, DenotesIn
<1>4. ~Table!Bound(name) => Table!Denotes(name) = <<0, name>>
  BY DEF Table!Bound, Table!Denotes
<1>5. \/ Denoted(Now, name) = Denoted(t, name)
      \/ st.op \in {"lda", "db", "dc16"} /\ Denoted(t, name) = {}
      \/ st.op = "set" /\ name = st.name /\ Denoted(t, name) = {}
         /\ Denoted(Now, name) = {<<0, name>>}
  BY DEF Switches
<1> HIDE DEF t
<1>6. BoundIn(t, name) => Table!Bound(name) /\ Table!Denotes(name) = DenotesIn(t, name)
  BY <1>1, <1>2, <1>5
<1>7. ASSUME ~BoundIn(t, name), st.op \in {"ifdef", "org"} PROVE ~Table!Bound(name)
  <2>1. Denoted(Now, name) = {}
    BY <1>2, <1>5, <1>7
  <2> QED BY <1>1, <2>1
<1>8. ASSUME ~BoundIn(t, name), st.op = "set", name = st.name
      PROVE  Table!Denotes(name) = <<0, name>>
  <2>1. Denoted(Now, name) = {} \/ Denoted(Now, name) = {<<0, name>>}
    BY <1>2, <1>5, <1>8
  <2>2. CASE Table!Bound(name)
    BY <1>1, <2>1, <2>2
  <2>3. CASE ~Table!Bound(name)
    BY <1>4, <2>3
  <2> QED BY <2>2, <2>3
<1> QED BY <1>3, <1>6, <1>7, <1>8 DEF t

(* What the statement of pass 2 finds, when pass 1 had found it.           *)
LEMMA SameValues ==
  ASSUME Types, Phases, Kept, Replayed, Pass2, pc <= Len(prog), ~fault,
         NEW st \in Statement, ~Switches(st),
         st.op \in {"set", "org", "lda", "db", "dc16"},
         KnownIn(trace[pc], st.arg)
  PROVE  Known(st.arg) /\ Value(st.arg) = ValueIn(trace[pc], st.arg)
<1>1. CASE st.arg \in Address
  BY <1>1 DEF Known, Value, ValueIn
<1>2. CASE st.arg \notin Address
  <2>1. st.arg \in Refers(st) /\ BoundIn(trace[pc], st.arg)
    BY <1>2, StatementParts DEF Refers, KnownIn
  <2>2. Table!Bound(st.arg) /\ Table!Denotes(st.arg) = DenotesIn(trace[pc], st.arg)
    BY <2>1, SameNames
  <2>3. DenotesIn(trace[pc], st.arg) \in DOMAIN trace[pc].bind
    BY <2>1 DEF BoundIn
  <2>4. pc \in 1 .. Len(trace)
    BY TypeParts
  <2>5. Grows(trace[pc].bind, bind)
    BY <2>4 DEF Kept
  <2>6. bind[DenotesIn(trace[pc], st.arg)].address
          = trace[pc].bind[DenotesIn(trace[pc], st.arg)].address
    BY <2>3, <2>5 DEF Grows, Replayed
  <2> QED BY <1>2, <2>2, <2>6 DEF Known, Value, ValueIn
<1> QED BY <1>1, <1>2

LEMMA MirrorsTrace ==
  ASSUME Types, Phases, Kept, Chain, Marked, Replayed, Pass2,
         NEW st \in Statement, Step(st), ~switched'
  PROVE  /\ pc \in 1 .. Len(prog) /\ st = prog[pc] /\ ~fault
         /\ skip = 0 => ~Switches(st)
         /\ Mirrors(trace[pc], st)
<1>1. /\ pc \in 1 .. Len(prog) /\ pc <= Len(prog) /\ st = prog[pc] /\ ~fault
      /\ skip = 0 => ~Switches(st)
  <2>1. Fetch(st)
    BY StepFetches
  <2> QED BY <2>1, Fetched, TypeParts DEF Pass1, Pass2
<1>2. /\ trace[pc].address = address /\ trace[pc].current_scope = current_scope
      /\ trace[pc].skip = skip /\ trace[pc].ifdef_count = ifdef_count
  BY <1>1 DEF Replayed
<1>3. Accepted(trace[pc], st)
  BY <1>1 DEF Chain
<1>4. ASSUME skip = 0, st.op = "ifdef"
      PROVE  BoundIn(trace[pc], st.name) <=> Table!Bound(st.name)
  <2>1. st.name \in Refers(st)
    BY <1>4 DEF Refers
  <2> QED BY <1>1, <1>4, <2>1, SameNames
<1>5. ASSUME skip = 0, st.op = "org"
      PROVE  ValueIn(trace[pc], st.arg) = Value(st.arg)
  <2>1. KnownIn(trace[pc], st.arg)
    BY <1>2, <1>3, <1>5 DEF Accepted
  <2> QED BY <1>1, <1>5, <2>1, SameValues
<1>6. ASSUME skip = 0, st.op = "lda", Known(st.arg)
      PROVE  SizeOf(Known(st.arg), st.arg) = Width(trace[pc], st)
  <2>1. mem[address].one <=> ~KnownIn(trace[pc], st.arg)
    <3>1. pc \in Left
      BY <1>1 DEF Left
    <3> QED BY <1>1, <1>2, <1>6, <3>1 DEF Marked
  <2>2. CASE KnownIn(trace[pc], st.arg)
    <3>1. Value(st.arg) = ValueIn(trace[pc], st.arg)
      BY <1>1, <1>6, <2>2, SameValues
    <3>2. Value(st.arg) \in Int
      BY <1>6, ValueType, StatementParts, TypeParts DEF Address
    <3> QED BY <1>2, <1>6, <2>1, <2>2, <3>1, <3>2, TypeParts DEF SizeOf, Width
  <2>3. CASE ~KnownIn(trace[pc], st.arg)
    BY <1>2, <1>6, <2>1, <2>3 DEF SizeOf, Width
  <2> QED BY <2>2, <2>3
<1> QED BY <1>1, <1>2, <1>4, <1>5, <1>6 DEF Mirrors, Pass1, Pass2

(* In pass 2 only .set changes an address of the table.                    *)
LEMMA AddressesStay ==
  ASSUME Types, Phases, Pass2, NEW st \in Statement, Step(st), ~Set(st)
  PROVE  \A k \in DOMAIN bind : bind'[k].address = bind[k].address
<1>1. locked
  BY DEF Phases
<1>2. CASE Export(st)
  <2>1. bind' = bind \/ \E key : bind' = [bind EXCEPT ![key].export = TRUE]
    BY <1>2 DEF Export, table, Table!ExportSymbol
  <2> QED BY <2>1, SymbolsOf, TableTypes DEF Symbol
<1>3. CASE ~Export(st)
  <2>1. bind' = bind
    BY <1>1, <1>3
       DEF Step, Label, Func, Scope, Ends, Lda, Data, Org, Resb, Ifdef, Endif, Skipped,
           Segment, BigEndian, table, Table!Append, Table!ScopeStart, Table!ScopeEnd
  <2> QED BY <2>1
<1> QED BY <1>2, <1>3

LEMMA ReplayedStep ==
  ASSUME Types, Phases, Kept, Chain, Marked, Replayed, NEW st \in Statement, Step(st),
         Fine, ~switched'
  PROVE  Replayed'
<1> SUFFICES ASSUME Pass2', pc' <= Len(prog') PROVE Replayed'
  BY DEF Replayed
<1> DEFINE t == trace[pc]
           u == trace[pc + 1]
<1>1. Pass2 /\ Fetch(st)
  BY PhasesStep, StepFetches
<1>2. /\ pc \in 1 .. Len(prog) /\ st = prog[pc] /\ ~fault
      /\ skip = 0 => ~Switches(st)
      /\ Mirrors(t, st)
  BY <1>1, MirrorsTrace
<1>3. pc' = pc + 1 /\ prog' = prog /\ trace' = trace
  BY <1>1, Fetched DEF Pass1, Pass2
<1>4. pc \in 1 .. Len(prog) - 1 /\ pc + 1 \in 1 .. Len(trace)
  BY <1>2, <1>3, TypeParts
<1>5. After(t, st, u) /\ Accepted(t, st)
  BY <1>2, <1>4 DEF Chain
<1>6. Grows(u.bind, bind)
  BY <1>4 DEF Kept
<1> HIDE DEF t, u
<1>7. /\ address' = u.address /\ current_scope' = u.current_scope
      /\ skip' = u.skip /\ ifdef_count' = u.ifdef_count
  BY <1>2, <1>5, Follows DEF After
<1>8. t.skip = skip
  BY <1>2 DEF Mirrors
<1>9. \A k \in DOMAIN t.bind : t.bind[k].rw => bind[k].address = t.bind[k].address
  BY <1>1, <1>2 DEF Replayed, t
<1>10. ASSUME ~fault', NEW k \in DOMAIN u.bind, u.bind[k].rw
       PROVE  bind'[k].address = u.bind[k].address
  <2>1. k \in DOMAIN bind /\ bind[k].rw
    BY <1>6, <1>10 DEF Grows
  <2>2. CASE Set(st)
    <3>1. skip = 0 /\ st.op = "set" /\ Known(st.arg) /\ Table!Set(st.name, Value(st.arg))
      BY <2>2, FineRejectsNothing DEF Set, Read
    <3>2. Table!Denotes(st.name) = DenotesIn(t, st.name)
      <4>1. st.name \in Refers(st)
        BY <3>1 DEF Refers
      <4> QED BY <1>2, <3>1, <4>1, SameNames DEF t
    <3>3. Value(st.arg) = ValueIn(t, st.arg)
      <4>1. KnownIn(t, st.arg)
        BY <1>5, <1>8, <3>1 DEF Accepted
      <4> QED BY <1>1, <1>2, <3>1, <4>1, SameValues DEF t
    <3>4. IF k = Table!Denotes(st.name)
          THEN u.bind[k].address = Value(st.arg)
          ELSE k \in DOMAIN t.bind /\ t.bind[k].rw /\ u.bind[k].address = t.bind[k].address
      BY <1>5, <1>8, <1>10, <3>1, <3>2, <3>3 DEF After, NextVariables
    <3>5. Table!Bound(st.name)
      BY <1>1, <1>10, <3>1 DEF Table!Set, Phases
    <3>6. CASE /\ bind[Table!Denotes(st.name)].rw
               /\ bind' = [bind EXCEPT ![Table!Denotes(st.name)].address = Value(st.arg)]
      BY <1>9, <2>1, <3>4, <3>6, SymbolsOf, TableTypes DEF Symbol
    <3>7. CASE ~bind[Table!Denotes(st.name)].rw /\ UNCHANGED bind
      BY <1>9, <2>1, <3>4, <3>7
    <3> QED BY <3>1, <3>5, <3>6, <3>7 DEF Table!Set
  <2>3. CASE ~Set(st)
    <3>1. skip > 0 \/ st.op # "set"
      BY <2>3 DEF Step, Label, Func, Scope, Ends, Lda, Data, Set, Org, Resb, Ifdef, Endif,
                  Skipped, Export, Segment, BigEndian, Read
    <3>2. k \in DOMAIN t.bind /\ t.bind[k].rw /\ u.bind[k].address = t.bind[k].address
      BY <1>5, <1>8, <1>10, <3>1, TypeParts DEF After, NextVariables
    <3>3. bind'[k].address = bind[k].address
      BY <1>1, <2>1, <2>3, AddressesStay
    <3> QED BY <1>9, <3>2, <3>3
  <2> QED BY <2>2, <2>3
<1> QED BY <1>3, <1>7, <1>10 DEF Replayed, u

(* The first byte of an instruction is its own.                            *)
LEMMA FlagInExtent ==
  ASSUME Types, NEW i \in 1 .. Len(prog), trace[i].skip = 0, prog[i].op = "lda"
  PROVE  trace[i].address \in Address /\ trace[i].address \in Extent(trace[i], prog[i])
<1>1. trace[i] \in Context
  BY TypeParts
<1>2. trace[i].address \in Address
  BY <1>1 DEF Context
<1>3. trace[i].address \in Address /\ trace[i].address \in Nat
  BY <1>2, TypeParts DEF Address
<1>4. Width(trace[i], prog[i]) \in {2, 3}
  BY DEF Width
<1> QED BY <1>3, <1>4 DEF Extent

LEMMA OldFlags ==
  ASSUME Types, Apart, NEW j \in 1 .. Len(prog), NEW i \in 1 .. Len(prog), j # i,
         trace[i].skip = 0, prog[i].op = "lda"
  PROVE  trace[i].address \in Address \ Extent(trace[j], prog[j])
<1>1. trace[i].address \in Address /\ trace[i].address \in Extent(trace[i], prog[i])
  BY FlagInExtent
<1>2. i < j \/ j < i
  OBVIOUS
<1> QED BY <1>1, <1>2 DEF Apart

LEMMA MarkedStep ==
  ASSUME Types, Phases, Kept, Noted, Chain, Apart, Marked, Replayed,
         NEW st \in Statement, Step(st), Fine, ~switched', ~overlap'
  PROVE  Marked'
<1>1. Fetch(st)
  BY StepFetches
<1>2. CASE Pass1
  <2> DEFINE n == Len(prog)
  <2>1. /\ Len(prog') = n + 1 /\ n \in Nat
        /\ \A i \in 1 .. n : prog'[i] = prog[i] /\ trace'[i] = trace[i]
        /\ prog'[n + 1] = st /\ trace'[n + 1] = Now
    BY <1>1, <1>2, Fetched, TypeParts DEF Pass1, Pass2
  <2>2. Mirrors(Now, st)
    BY <1>2, MirrorsNow
  <2>3. /\ Extent(Now, st) \cap covered = {}
        /\ \A a \in Address \ Extent(Now, st) : mem'[a] = mem[a]
    BY <1>2, <2>2, WritesExtent
  <2> HIDE DEF n
  <2>4. ASSUME NEW i \in 1 .. n, trace[i].skip = 0, prog[i].op = "lda"
        PROVE  mem'[trace[i].address].one <=> ~KnownIn(trace[i], prog[i].arg)
    <3>1. trace[i].address \in Address /\ trace[i].address \in covered
      BY <2>1, <2>4, FlagInExtent DEF Apart, n
    <3>2. mem'[trace[i].address] = mem[trace[i].address]
      BY <2>3, <3>1
    <3>3. i \in Left
      BY <1>2, <2>4 DEF Left, n
    <3> QED BY <2>4, <3>2, <3>3 DEF Marked
  <2>5. ASSUME Now.skip = 0, st.op = "lda"
        PROVE  mem'[Now.address].one <=> ~KnownIn(Now, st.arg)
    <3>1. skip = 0 /\ Now.address = address
      BY <2>5 DEF Now
    <3>2. Lda(st)
      BY <2>5, <3>1 DEF Step, Label, Func, Scope, Ends, Lda, Data, Set, Org, Resb, Ifdef,
                        Endif, Skipped, Export, Segment, BigEndian, Read
    <3>3. /\ mem'[address].one <=> ~Known(st.arg) \/ mem[address].one
          /\ SizeOf(Known(st.arg), st.arg) \in {2, 3}
          /\ Emitted(SizeOf(Known(st.arg), st.arg))
      BY <1>2, <3>2, LdaShape, FineRejectsNothing
    <3>4. address \in Address /\ address \notin covered
      <4>1. address \in Here(SizeOf(Known(st.arg), st.arg))
        BY <3>3, TypeParts DEF Here
      <4> QED BY <1>2, <3>3, <4>1 DEF Emitted
    <3>5. ~mem[address].one
      BY <1>2, <3>4 DEF Noted
    <3> QED BY <3>1, <3>3, <3>5, NowSees
  <2>6. ASSUME NEW i \in 1 .. Len(prog'), trace'[i].skip = 0, prog'[i].op = "lda"
        PROVE  mem'[trace'[i].address].one <=> ~KnownIn(trace'[i], prog'[i].arg)
    <3>1. i \in 1 .. n \/ i = n + 1
      BY <2>1
    <3>2. CASE i \in 1 .. n
      BY <2>1, <2>4, <2>6, <3>2
    <3>3. CASE i = n + 1
      BY <2>1, <2>5, <2>6, <3>3
    <3> QED BY <3>1, <3>2, <3>3
  <2> QED BY <2>6 DEF Marked, Left
<1>3. CASE ~Pass1
  <2>1. Pass2 /\ pc' = pc + 1 /\ prog' = prog /\ trace' = trace /\ ~Pass1'
    BY <1>1, <1>3, Fetched, PhasesStep
  <2>2. pc \in 1 .. Len(prog) /\ st = prog[pc] /\ Mirrors(trace[pc], st)
    BY <2>1, MirrorsTrace
  <2>3. \A a \in Address \ Extent(trace[pc], prog[pc]) : mem'[a] = mem[a]
    BY <2>2, WritesExtent
  <2>4. ASSUME NEW i \in 1 .. Len(prog), i >= pc + 1, trace[i].skip = 0, prog[i].op = "lda"
        PROVE  mem'[trace[i].address].one <=> ~KnownIn(trace[i], prog[i].arg)
    <3>1. pc # i /\ i >= pc
      BY <2>2, <2>4
    <3>2. mem'[trace[i].address] = mem[trace[i].address]
      BY <2>2, <2>3, <2>4, <3>1, OldFlags
    <3>3. i \in Left
      BY <2>4, <3>1 DEF Left
    <3> QED BY <2>4, <3>2, <3>3 DEF Marked
  <2> QED BY <2>1, <2>4 DEF Marked, Left
<1> QED BY <1>2, <1>3

LEMMA OwnedStep ==
  ASSUME Types, Phases, Kept, Noted, Chain, Marked, Owned, Replayed,
         NEW st \in Statement, Step(st), Fine, ~switched', ~overlap'
  PROVE  Owned'
<1> SUFFICES ASSUME NEW a \in Address, mem'[a].pass = 1
             PROVE  \E i \in Left' : a \in Extent(trace'[i], prog'[i])
  BY DEF Owned
<1>1. Fetch(st)
  BY StepFetches
<1>2. CASE Pass1
  <2> DEFINE n == Len(prog)
  <2>1. /\ Len(prog') = n + 1 /\ n \in Nat
        /\ \A i \in 1 .. n : prog'[i] = prog[i] /\ trace'[i] = trace[i]
        /\ prog'[n + 1] = st /\ trace'[n + 1] = Now /\ pc' = pc + 1
    BY <1>1, <1>2, Fetched, TypeParts DEF Pass1, Pass2
  <2>2. \A b \in Address \ Extent(Now, st) : mem'[b] = mem[b]
    BY <1>2, MirrorsNow, WritesExtent
  <2>3. Pass1' \/ status' = "failed"
    BY <1>2, StepContext DEF ContextMoves, Pass1
  <2> HIDE DEF n
  <2>4. Left' = 1 .. n + 1
    <3>1. Pass1'
      BY <2>3 DEF Fine
    <3> QED BY <2>1, <3>1 DEF Left
  <2>5. CASE a \in Extent(Now, st)
    BY <2>1, <2>4, <2>5
  <2>6. CASE a \notin Extent(Now, st)
    <3>1. mem[a].pass = 1
      BY <2>2, <2>6
    <3>2. PICK i \in Left : a \in Extent(trace[i], prog[i])
      BY <3>1 DEF Owned
    <3>3. i \in 1 .. n /\ i \in 1 .. n + 1
      BY <2>1 DEF Left, n
    <3> QED BY <2>1, <2>4, <3>2, <3>3
  <2> QED BY <2>5, <2>6
<1>3. CASE ~Pass1
  <2>1. Pass2 /\ pc' = pc + 1 /\ prog' = prog /\ trace' = trace /\ ~Pass1'
    BY <1>1, <1>3, Fetched, PhasesStep
  <2>2. pc \in 1 .. Len(prog) /\ st = prog[pc] /\ Mirrors(trace[pc], st)
    BY <2>1, MirrorsTrace
  <2>3. /\ \A b \in Address \ Extent(trace[pc], prog[pc]) : mem'[b] = mem[b]
        /\ \A b \in Extent(trace[pc], prog[pc]) : mem'[b].pass = 2
    BY <2>1, <2>2, WritesExtent
  <2>4. a \notin Extent(trace[pc], prog[pc]) /\ mem[a].pass = 1
    BY <2>3
  <2>5. PICK i \in Left : a \in Extent(trace[i], prog[i])
    BY <2>4 DEF Owned
  <2>6. i \in 1 .. Len(prog) /\ i >= pc /\ i # pc
    BY <1>3, <2>4, <2>5 DEF Left
  <2>7. i \in Left'
    BY <2>1, <2>2, <2>6 DEF Left
  <2> QED BY <2>1, <2>5, <2>7
<1> QED BY <1>2, <1>3

----------------------------------------------------------------------------

LEMMA InitInv == Init => IInv
<1> SUFFICES ASSUME Init PROVE IInv
  OBVIOUS
<1>1. DOMAIN bind = {} /\ bind \in Bindings
  <2>1. DOMAIN bind = {}
    BY DEF Init, Table!Init
  <2>2. bind \in [{} -> Symbol]
    BY DEF Init, Table!Init
  <2> QED BY <2>1, <2>2 DEF Bindings
<1>2. Table!TypeOK
  <2>1. /\ locked = FALSE /\ debug = FALSE /\ in_scope = FALSE /\ fault = FALSE
        /\ current_scope = 0 /\ reply = Table!Ok
    BY DEF Init, Table!Init
  <2>2. 0 \in 0 .. MaxScope
    BY TwoPassAssumption
  <2> QED BY <1>1, <2>1, <2>2, Answers DEF Table!TypeOK, Table!Scope
<1>3. /\ mem \in [Address -> [one : BOOLEAN, pass : 0 .. 2]]
      /\ \A a \in Address : mem[a].one = FALSE /\ mem[a].pass = 0
  BY DEF Init
<1>4. prog = << >> /\ prog \in Seq(Statement) /\ Len(prog) = 0
      /\ trace = << >> /\ trace \in Seq(Context) /\ Len(trace) = 0
  BY DEF Init
<1>5. 0 \in Address /\ 1 \in 1 .. MaxStatements + 1 /\ Len(prog) <= MaxStatements
  BY <1>4, TwoPassAssumption DEF Address
<1>6. Types
  BY <1>1, <1>2, <1>3, <1>4, <1>5 DEF Init, Table!Init, Types, TypeOK
<1>7. Phases
  BY <1>4 DEF Init, Table!Init, Phases, Pass1, Pass2
<1>8. Kept /\ Noted
  BY <1>3, <1>4 DEF Kept, Noted
<1>9. Blank(Now)
  BY <1>1 DEF Init, Table!Init, Blank, Now
<1>10. Chain /\ Apart
  BY <1>4, <1>9 DEF Chain, Apart
<1>11. Left = {}
  BY <1>4 DEF Left
<1>12. Marked
  BY <1>11 DEF Marked
<1>13. Owned
  BY <1>3 DEF Owned
<1>14. Replayed
  BY <1>4 DEF Init, Replayed, Pass2
<1> QED BY <1>6, <1>7, <1>8, <1>10, <1>12, <1>13, <1>14 DEF IInv

LEMMA StepInv ==
  ASSUME IInv, NEW st \in Statement, Step(st)
  PROVE  IInv'
<1>1. Types /\ Phases /\ Kept /\ Noted
  BY DEF IInv
<1>2. Types' /\ Phases' /\ Kept' /\ Noted'
  BY <1>1, StepTypes, PhasesStep, KeptStep, NotedStep
<1>3. /\ status # "failed"
      /\ ~overlap' => ~overlap
      /\ ~survived' => ~survived
      /\ ~switched' => ~switched
  <2>1. Fetch(st) /\ ContextMoves
    BY <1>1, StepFetches, StepContext
  <2> QED BY <1>1, <2>1, Fetched DEF Fetch, ContextMoves, Pass1, Pass2
<1>4. ASSUME Running', ~overlap', ~survived'
      PROVE  Chain' /\ Apart'
  <2>1. Chain /\ Apart /\ Fine
    BY <1>3, <1>4 DEF IInv, Running, Fine
  <2> QED BY <1>1, <1>4, <2>1, ChainStep, ApartStep
<1>5. ASSUME Running', Regular'
      PROVE  Marked' /\ Owned' /\ Replayed'
  <2>1. Chain /\ Apart /\ Marked /\ Owned /\ Replayed /\ Fine /\ ~switched' /\ ~overlap'
    BY <1>3, <1>5 DEF IInv, Running, Regular, Fine
  <2> QED BY <1>1, <2>1, MarkedStep, OwnedStep, ReplayedStep
<1> QED BY <1>2, <1>4, <1>5 DEF IInv

LEMMA NextPassInv == ASSUME IInv, NextPass PROVE IInv'
<1>1. Types /\ Phases /\ Kept /\ Noted /\ Running
  BY DEF IInv, NextPass, Running, Pass1
<1>2. /\ Pass1 /\ status' = "pass2" /\ pc' = 1 /\ locked'
      /\ current_scope' = 0 /\ address' = 0 /\ ifdef_count' = 0 /\ skip' = 0
      /\ UNCHANGED <<bind, fault, mem, prog, trace, covered, overlap, switched, survived>>
  BY DEF NextPass, LockedInPass2, ScopeOfPass2, history
<1>3. Types'
  BY <1>1, NextPassTypes
<1>4. Phases' /\ Kept' /\ Noted' /\ Pass2' /\ ~Pass1'
  BY <1>1, <1>2 DEF Phases, Kept, Noted, Pass1, Pass2
<1>5. ASSUME ~overlap, ~survived PROVE Chain' /\ Apart'
  <2>1. Chain /\ Apart
    BY <1>1, <1>5 DEF IInv
  <2> QED BY <1>2, <1>4, <2>1 DEF Chain, Apart
<1>6. ASSUME Regular PROVE Marked' /\ Owned' /\ Replayed'
  <2>1. Chain /\ Marked /\ Owned
    BY <1>1, <1>6 DEF IInv, Regular
  <2>2. Left' = Left
    BY <1>2, <1>4 DEF Left
  <2>3. Marked' /\ Owned'
    BY <1>2, <2>1, <2>2 DEF Marked, Owned
  <2>4. Len(prog) > 0 => Blank(trace[1])
    BY <2>1 DEF Chain
  <2>5. Replayed'
    BY <1>1, <1>2, <2>4, TypeParts DEF Replayed, Blank
  <2> QED BY <2>3, <2>5
<1> QED BY <1>1, <1>2, <1>3, <1>4, <1>5, <1>6 DEF IInv, Regular

LEMMA FinishInv == ASSUME IInv, Finish PROVE IInv'
<1>1. Types /\ Phases /\ Kept /\ Noted /\ Running
  BY DEF IInv, Finish, Running, Pass2
<1>2. /\ Pass2 /\ ~Pass1 /\ pc > Len(prog) /\ status' = "done" /\ ~Pass1' /\ ~Pass2'
      /\ UNCHANGED <<bind, pc, mem, prog, trace, covered, overlap, switched, survived>>
  BY DEF Finish, table, history, Pass1, Pass2
<1>3. Types' /\ Phases' /\ Kept' /\ Noted'
  BY <1>1, <1>2, FinishTypes DEF Phases, Kept, Noted, Pass1, Pass2
<1>4. ASSUME ~overlap, ~survived PROVE Chain' /\ Apart'
  <2>1. Chain /\ Apart
    BY <1>1, <1>4 DEF IInv
  <2> QED BY <1>2, <2>1 DEF Chain, Apart
<1>5. ASSUME Regular PROVE Marked' /\ Owned' /\ Replayed'
  <2>1. Marked /\ Owned
    BY <1>1, <1>5 DEF IInv
  <2>2. Left' = Left
    BY <1>2 DEF Left
  <2> QED BY <1>2, <2>1, <2>2 DEF Marked, Owned, Replayed
<1> QED BY <1>1, <1>2, <1>3, <1>4, <1>5 DEF IInv, Regular

LEMMA StutterInv == ASSUME IInv, UNCHANGED vars PROVE IInv'
<1> USE DEF vars, table, context, history
<1>1. Types'
  BY DEF IInv, Types, TypeOK, Table!TypeOK
<1>2. Phases' /\ Kept' /\ Noted'
  BY DEF IInv, Phases, Kept, Noted, Pass1, Pass2
<1>3. Now' = Now
  BY DEF Now
<1>4. Chain => Chain'
  BY <1>3 DEF Chain, Pass1
<1>5. Apart => Apart'
  BY DEF Apart
<1>6. Left' = Left
  BY DEF Left, Pass1
<1>7. Marked /\ Owned /\ Replayed => Marked' /\ Owned' /\ Replayed'
  BY <1>6 DEF Marked, Owned, Replayed, Pass2
<1> QED BY <1>1, <1>2, <1>4, <1>5, <1>7 DEF IInv, Running, Regular

(* The invariant the theorems follow from.                                 *)
THEOREM Inductive == Spec => []IInv
<1>1. IInv /\ [Next]_vars => IInv'
  <2> SUFFICES ASSUME IInv, [Next]_vars PROVE IInv'
    OBVIOUS
  <2>1. CASE \E st \in Statement : Step(st)
    BY <2>1, StepInv
  <2>2. CASE NextPass
    BY <2>2, NextPassInv
  <2>3. CASE Finish
    BY <2>3, FinishInv
  <2>4. CASE UNCHANGED vars
    BY <2>4, StutterInv
  <2> QED BY <2>1, <2>2, <2>3, <2>4 DEF Next
<1> QED BY <1>1, InitInv, PTL DEF Spec

(* The variables keep their types.                                         *)
THEOREM TypeCorrect == Spec => []TypeOK
<1>1. IInv => TypeOK
  BY DEF IInv, Types
<1> QED BY <1>1, Inductive, PTL

(* Pass 2 reads every statement of a regular program at the address pass 1 *)
(* read it at: the two passes of main() agree on every label, whatever the *)
(* program, its length and its addresses.                                  *)
THEOREM PassesInPhase == Spec => []PhaseAgreement
<1>1. IInv => PhaseAgreement
  BY DEF IInv, Running, Replayed, PhaseAgreement, Pass2
<1> QED BY <1>1, Inductive, PTL

(* No byte of the finished image of a regular program was left there by    *)
(* pass 1.                                                                 *)
THEOREM NothingStale == Spec => []NoStaleBytes
<1>1. IInv => NoStaleBytes
  <2> SUFFICES ASSUME IInv, status = "done", Regular, NEW a \in Address
               PROVE  mem[a].pass # 1
    BY DEF NoStaleBytes
  <2>1. Types /\ pc > Len(prog) /\ ~Pass1 /\ Owned
    BY DEF IInv, Phases, Running, Pass1
  <2>2. Left = {}
    BY <2>1, TypeParts DEF Left
  <2> QED BY <2>1, <2>2 DEF Owned
<1> QED BY <1>1, Inductive, PTL

(* Pass 2 numbers the scopes of a regular program as pass 1 did.           *)
THEOREM ScopesAgree == Spec => []ScopesReplayed
<1>1. IInv => ScopesReplayed
  BY DEF IInv, Running, Replayed, ScopesReplayed, Pass2
<1> QED BY <1>1, Inductive, PTL

(* A number pass 1 has seen and let pass is let pass in pass 2.            *)
LEMMA LateRange ==
  ASSUME Types, Phases, Kept, Replayed, Pass2, pc <= Len(prog), ~fault,
         NEW st \in Statement, ~Switches(st), skip = 0, Accepted(trace[pc], st),
         trace[pc].skip = 0, st.op \in {"lda", "db", "dc16"}, TooLarge(st)
  PROVE  st.arg \in Name /\ Denoted(trace[pc], st.arg) = {}
<1>1. ~KnownIn(trace[pc], st.arg)
  <2>1. CASE KnownIn(trace[pc], st.arg)
    <3>1. Value(st.arg) = ValueIn(trace[pc], st.arg)
      BY <2>1, SameValues
    <3>2. ~(ValueIn(trace[pc], st.arg) > Largest(st.op))
      BY <2>1 DEF Accepted
    <3> QED BY <3>1, <3>2 DEF TooLarge
  <2> QED BY <2>1
<1>2. st.arg \in Name /\ ~BoundIn(trace[pc], st.arg)
  BY <1>1, StatementParts DEF KnownIn
<1> QED BY <1>2, DenotedIs

LEMMA NoLateError ==
  ASSUME IInv, NEW st \in Statement, Step(st),
         Pass2, status' = "failed", ~switched', ~overlap, ~survived
  PROVE  \/ prog[pc].op \in {"lda", "db", "dc16"} /\ ~Known(prog[pc].arg)
         \/ /\ prog[pc].op \in {"lda", "db", "dc16"} /\ TooLarge(prog[pc])
            /\ prog[pc].arg \in Name /\ Denoted(trace[pc], prog[pc].arg) = {}
         \/ prog[pc].op = "export"
         \/ prog[pc].op \in {"scope", "func"} /\ ~trace[pc].in_scope
         \/ segment = "bss" /\ trace[pc].segment = "code"
<1>1. Types /\ Phases /\ Kept /\ status # "failed" /\ ~(status' = status) /\ locked
  BY DEF IInv, Phases, Pass2
<1>2. ~switched
  BY <1>1, StepFetches, Fetched
<1>3. Chain /\ Marked /\ Replayed
  BY <1>1, <1>2 DEF IInv, Running, Regular
<1>4. /\ pc \in 1 .. Len(prog) /\ st = prog[pc] /\ ~fault
      /\ skip = 0 => ~Switches(st)
      /\ Mirrors(trace[pc], st)
  BY <1>1, <1>3, MirrorsTrace
<1>5. Accepted(trace[pc], st)
  BY <1>3, <1>4 DEF Chain
<1>6. trace[pc].skip = skip /\ trace[pc].ifdef_count = ifdef_count
  BY <1>4 DEF Mirrors
<1>7. ASSUME skip = 0, st.op \in {"lda", "db", "dc16"}, TooLarge(st)
      PROVE  st.arg \in Name /\ Denoted(trace[pc], st.arg) = {}
  <2>1. pc <= Len(prog) /\ trace[pc].skip = 0 /\ ~Switches(st) /\ ~fault
    BY <1>1, <1>4, <1>6, <1>7, TypeParts
  <2> QED BY <1>1, <1>3, <1>5, <1>7, <2>1, LateRange
<1>8. CASE Lda(st)
  <2>1. st.op = "lda" /\ skip = 0 /\ (~Known(st.arg) \/ TooLarge(st))
    BY <1>1, <1>8, LdaShape DEF Emitted, Refused
  <2> QED BY <1>4, <1>7, <2>1
<1>9. CASE Data(st)
  <2>1. /\ st.op \in {"db", "dc16"} /\ skip = 0
        /\ segment = "bss" \/ ~Known(st.arg) \/ TooLarge(st)
    BY <1>1, <1>9, DataShape DEF Emitted, Refused
  <2>2. trace[pc].segment = "code"
    BY <1>5, <1>6, <2>1 DEF Accepted
  <2> QED BY <1>4, <1>7, <2>1, <2>2
<1>10. CASE Label(st)
  <2>1. reply' = Table!Ok
    BY <1>1, <1>10 DEF Label, Table!Append
  <2>2. Table!Ok # Table!Failed
    BY DEF Table!Ok, Table!Failed, Table!Answer
  <2> QED BY <1>1, <1>10, <2>1, <2>2 DEF Label, Accept
<1>11. CASE Func(st) \/ Scope(st)
  <2>1. st.op \in {"scope", "func"} /\ skip = 0
    BY <1>11 DEF Func, Scope, Read
  <2>2. ~trace[pc].in_scope
    BY <1>5, <1>6, <2>1 DEF Accepted
  <2> QED BY <1>4, <2>1, <2>2
<1>12. CASE Set(st) \/ Org(st)
  <2>1. st.op \in {"set", "org"} /\ skip = 0
    BY <1>12 DEF Set, Org, Read
  <2>2. KnownIn(trace[pc], st.arg)
    BY <1>5, <1>6, <2>1 DEF Accepted
  <2>3. Known(st.arg)
    BY <1>1, <1>3, <1>4, <2>1, <2>2, SameValues
  <2> QED BY <1>1, <1>12, <2>3 DEF Set, Org, Accept
<1>13. CASE Endif(st)
  <2>1. st.op = "endif" /\ skip = 0
    BY <1>13 DEF Endif, Read
  <2>2. ifdef_count > 0 /\ ifdef_count # 0
    BY <1>1, <1>5, <1>6, <2>1, TypeParts DEF Accepted
  <2> QED BY <1>1, <1>13, <2>2 DEF Endif, Accept
<1>14. CASE Export(st)
  BY <1>4, <1>14 DEF Export, Read
<1>15. CASE Ends(st) \/ Resb(st) \/ Ifdef(st) \/ Skipped(st) \/ Segment(st) \/ BigEndian(st)
  BY <1>1, <1>15 DEF Ends, Resb, Ifdef, Skipped, Segment, BigEndian, Accept
<1> QED
  BY <1>8, <1>9, <1>10, <1>11, <1>12, <1>13, <1>14, <1>15 DEF Step

(* A regular program that got through pass 1 fails in pass 2 only for the  *)
(* five reasons LateErrors lists, the range of a forward reference among   *)
(* them: every other error is reported in pass 1.                          *)
THEOREM OnlyLateErrors == Spec => LateErrors
<1> DEFINE Late == Pass2 /\ status' = "failed" /\ ~switched' /\ ~overlap /\ ~survived =>
                     \/ prog[pc].op \in {"lda", "db", "dc16"} /\ ~Known(prog[pc].arg)
                     \/ /\ prog[pc].op \in {"lda", "db", "dc16"} /\ TooLarge(prog[pc])
                        /\ prog[pc].arg \in Name /\ Denoted(trace[pc], prog[pc].arg) = {}
                     \/ prog[pc].op = "export"
                     \/ prog[pc].op \in {"scope", "func"} /\ ~trace[pc].in_scope
                     \/ segment = "bss" /\ trace[pc].segment = "code"
<1>1. IInv /\ [Next]_vars => [Late]_vars
  <2> SUFFICES ASSUME IInv, Next PROVE Late
    OBVIOUS
  <2>1. CASE \E st \in Statement : Step(st)
    BY <2>1, NoLateError
  <2>2. CASE NextPass \/ Finish
    BY <2>2 DEF NextPass, Finish
  <2> QED BY <2>1, <2>2 DEF Next
<1>2. Spec => [][Late]_vars
  BY <1>1, Inductive, PTL DEF Spec
<1> QED BY <1>2 DEF LateErrors
============================================================================
