------------------------------ MODULE Symbols ------------------------------
(***************************************************************************)
(* class Symbols (common/Symbols.h, common/Symbols.cpp) over the memory    *)
(* pools of common/MemoryPool.cpp.  An entry is appended to the first pool *)
(* with room for it, changed in place afterwards and never removed; find() *)
(* scans the pools in order.  SymbolTable.tla states what the class        *)
(* promises, and Table below maps this module to it.                       *)
(***************************************************************************)
EXTENDS Integers, Sequences, FiniteSets, TLC

CONSTANTS
  Name,        \* the identifiers a program uses
  NameLen,     \* strlen(name) + 1
  MaxNameLen,  \* 255, what fits Entry::len
  HeaderSize,  \* sizeof(Entry)
  PoolSize,    \* SYMBOLS_HEAP_SIZE
  ScopeSize,   \* 2^16, the values of Entry::scope
  Address,     \* the values of a symbol
  MaxScope,    \* bound: the scopes one pass opens
  MaxEntries   \* bound: the entries all pools hold

ASSUME SymbolsAssumption ==
  /\ NameLen \in [Name -> Nat \ {0}]
  /\ MaxNameLen \in Nat
  /\ HeaderSize \in Nat
  /\ PoolSize \in Nat
  /\ MaxNameLen + HeaderSize < PoolSize
  /\ ScopeSize \in Nat \ {0}
  /\ Address \subseteq Nat
  /\ 0 \in Address
  /\ MaxScope \in Nat
  /\ MaxEntries \in Nat

VARIABLES
  pools,          \* memory_pool and its next chain
  locked, in_scope, debug, current_scope,
  reply,          \* return code, and the address lookup() stored
  fault           \* set() followed a null pointer

vars == <<pools, locked, in_scope, debug, current_scope, reply, fault>>

Entry == [name : Name, scope : 0 .. ScopeSize - 1, address : Address,
          rw : BOOLEAN, export : BOOLEAN]
Pool == [ptr : 0 .. PoolSize - 1, entries : Seq(Entry)]
Answer(code, address) == [code |-> code, address |-> address]
Ok == Answer(0, 0)
Failed == Answer(-1, 0)

(* The shape of the state; used bytes never reach the end of a pool. *)
TypeOK ==
  /\ pools \in Seq(Pool)
  /\ locked \in BOOLEAN
  /\ in_scope \in BOOLEAN
  /\ debug \in BOOLEAN
  /\ current_scope \in 0 .. MaxScope
  /\ reply \in [code : {0, -1}, address : Address]
  /\ fault \in BOOLEAN

----------------------------------------------------------------------------

(* An entry is addressed by its pool and its place in the pool. *)
Positions == UNION {{p} \X DOMAIN pools[p].entries : p \in DOMAIN pools}
At(pos) == pools[pos[1]].entries[pos[2]]
Before(x, y) == x[1] < y[1] \/ (x[1] = y[1] /\ x[2] < y[2])
First(S) == CHOOSE x \in S : \A y \in S \ {x} : Before(x, y)

(* The entries of a scope that carry a name, as a scan meets them. *)
Matches(scope, name) ==
  {pos \in Positions : At(pos).scope = scope /\ At(pos).name = name}

(* Fault: the global scope is scanned first. *)
Find_GlobalFirst(name) ==
  LET global == Matches(0, name)
      found == IF global = {} /\ in_scope THEN Matches(current_scope, name)
                                          ELSE global
  IN  IF found = {} THEN {} ELSE {First(found)}

(* The positions find(name) may return: at most the first one. *)
Find(name) ==
  LET local == IF in_scope THEN Matches(current_scope, name) ELSE {}
      found == IF local # {} THEN local ELSE Matches(0, name)
  IN  IF found = {} THEN {} ELSE {First(found)}

EntrySize(name) == NameLen[name] + HeaderSize

(* The first pool with room, or the number of the pool to allocate. *)
PoolFor(name) ==
  LET fits == {p \in DOMAIN pools : pools[p].ptr + EntrySize(name) < PoolSize}
  IN  IF fits = {} THEN Len(pools) + 1
      ELSE CHOOSE p \in fits : \A q \in fits : p <= q

EmptyPool == [ptr |-> 0, entries |-> << >>]

Advance(pool, e) == pool.ptr + EntrySize(e.name)

(* The pools with one more entry. *)
WithEntry(e) ==
  LET p == PoolFor(e.name)
      old == IF p \in DOMAIN pools THEN pools[p] ELSE EmptyPool
      new == [ptr |-> Advance(old, e),
              entries |-> Append(old.entries, e)]
  IN  IF p \in DOMAIN pools THEN [pools EXCEPT ![p] = new]
                            ELSE Append(pools, new)

(* An entry is changed where it lies. *)
WithAddress(pos, address) ==
  [pools EXCEPT ![pos[1]].entries[pos[2]].address = address]

NewEntry(name, scope, address, rw) ==
  [name |-> name, scope |-> scope, address |-> address,
   rw |-> rw, export |-> FALSE]

ScopeHere == IF in_scope THEN current_scope % ScopeSize ELSE 0

(* Fault: a second global label is only refused when no scope was opened. *)
Clash_ScopeOnly(name) ==
  \E pos \in Find(name) : At(pos).scope = current_scope

(* append() refuses a name its own scope already has. *)
Clash(name) ==
  \E pos \in Find(name) : ~in_scope \/ At(pos).scope = current_scope

HasRoom == Cardinality(Positions) < MaxEntries

Control == <<locked, in_scope, debug, current_scope>>

Init ==
  /\ pools = << >>
  /\ locked = FALSE
  /\ in_scope = FALSE
  /\ debug = FALSE
  /\ current_scope = 0
  /\ reply = Ok
  /\ fault = FALSE

AppendSymbol(name, address) ==
  /\ ~fault
  /\ \/ /\ locked
        /\ reply' = Ok
        /\ UNCHANGED pools
     \/ /\ ~locked /\ debug
        /\ \E pos \in Find(name) : pools' = WithAddress(pos, address)
        /\ reply' = Ok
     \/ /\ ~locked
        /\ \/ ~debug /\ Clash(name)
           \/ ~(debug /\ Find(name) # {}) /\ NameLen[name] > MaxNameLen
        /\ reply' = Failed
        /\ UNCHANGED pools
     \/ /\ ~locked /\ ~(debug /\ Find(name) # {}) /\ ~Clash(name)
        /\ NameLen[name] <= MaxNameLen /\ HasRoom
        /\ pools' = WithEntry(NewEntry(name, ScopeHere, address, FALSE))
        /\ reply' = Ok
  /\ UNCHANGED <<Control, fault>>

(* Fault: .set writes labels too. *)
Writable_Any(pos) == TRUE

Writable(pos) == At(pos).rw

(* find() meets the entry append() has just added: unless the number of the *)
(* scope was cut to 16 bits.                                                *)
FoundAgain == ScopeHere \in {0, current_scope}

(* The entry append() adds is found again, moved to scope 0 and marked. *)
SetSymbol(name, address) ==
  /\ ~fault
  /\ \/ /\ \E pos \in Find(name) :
             \/ /\ Writable(pos)
                /\ pools' = WithAddress(pos, address)
                /\ reply' = Ok
             \/ /\ ~Writable(pos)
                /\ reply' = Failed
                /\ UNCHANGED pools
        /\ UNCHANGED fault
     \/ /\ Find(name) = {} /\ ~locked
        /\ \/ /\ NameLen[name] > MaxNameLen
              /\ reply' = Failed
              /\ UNCHANGED pools
           \/ /\ NameLen[name] <= MaxNameLen /\ HasRoom /\ FoundAgain
              /\ pools' = WithEntry(NewEntry(name, 0, address, TRUE))
              /\ reply' = Ok
        /\ UNCHANGED fault
     \/ /\ Find(name) = {} /\ ~locked
        /\ NameLen[name] <= MaxNameLen /\ HasRoom /\ ~FoundAgain
        /\ pools' = WithEntry(NewEntry(name, ScopeHere, address, FALSE))
        /\ fault' = TRUE
        /\ UNCHANGED reply
     \/ /\ Find(name) = {} /\ locked
        /\ fault' = TRUE
        /\ UNCHANGED <<pools, reply>>
  /\ UNCHANGED Control

(* Fault: a local symbol is exported. *)
Exportable_Any(pos) == TRUE

Exportable(pos) == At(pos).scope = 0

ExportSymbol(name) ==
  /\ ~fault
  /\ \/ \E pos \in Find(name) :
          /\ Exportable(pos)
          /\ pools' = [pools EXCEPT ![pos[1]].entries[pos[2]].export = TRUE]
          /\ reply' = Ok
     \/ /\ \A pos \in Find(name) : ~Exportable(pos)
        /\ reply' = Failed
        /\ UNCHANGED pools
  /\ UNCHANGED <<Control, fault>>

Lookup(name) ==
  /\ ~fault
  /\ \/ \E pos \in Find(name) : reply' = Answer(0, At(pos).address)
     \/ Find(name) = {} /\ reply' = Failed
  /\ UNCHANGED <<pools, Control, fault>>

ScopeStart ==
  /\ ~fault
  /\ \/ /\ in_scope
        /\ reply' = Failed
        /\ UNCHANGED Control
     \/ /\ ~in_scope /\ current_scope < MaxScope
        /\ in_scope' = TRUE
        /\ current_scope' = current_scope + 1
        /\ reply' = Ok
        /\ UNCHANGED <<locked, debug>>
  /\ UNCHANGED <<pools, fault>>

ScopeEnd ==
  /\ ~fault
  /\ in_scope' = FALSE
  /\ UNCHANGED <<pools, locked, debug, current_scope, reply, fault>>

(* main() calls Lock and ScopeReset between the passes. *)
Lock ==
  /\ ~fault
  /\ locked' = TRUE
  /\ UNCHANGED <<pools, in_scope, debug, current_scope, reply, fault>>

ScopeReset ==
  /\ ~fault
  /\ current_scope' = 0
  /\ UNCHANGED <<pools, locked, in_scope, debug, reply, fault>>

(* Called by tests/symbol_address before its second pass. *)
SetDebug ==
  /\ ~fault
  /\ debug' = TRUE
  /\ UNCHANGED <<pools, locked, in_scope, current_scope, reply, fault>>

Next ==
  \/ \E name \in Name, address \in Address :
       AppendSymbol(name, address) \/ SetSymbol(name, address)
  \/ \E name \in Name : ExportSymbol(name) \/ Lookup(name)
  \/ ScopeStart \/ ScopeEnd \/ ScopeReset
  \/ Lock \/ SetDebug

Spec == Init /\ [][Next]_vars

----------------------------------------------------------------------------

(* A scope holds a name at most once, over all the pools: the scan order   *)
(* of find() cannot decide what a name means (Symbols.cpp:98-116,161).     *)
UniqueKeys ==
  \A x, y \in Positions :
    At(x).scope = At(y).scope /\ At(x).name = At(y).name => x = y

(* What .set may write and what .export may publish is global: neither     *)
(* survives as a local symbol of the scope it was written in               *)
(* (Symbols.cpp:168-213).                                                  *)
SharedIsGlobal ==
  \A pos \in Positions : At(pos).rw \/ At(pos).export => At(pos).scope = 0

(* A label keeps its address for good: no call moves or drops an entry,    *)
(* and only .set symbols change (or, under set_debug, re-appended ones);   *)
(* after lock() nothing is added either (Symbols.cpp:98,109,186).          *)
LabelsStay ==
  [][/\ Positions \subseteq Positions'
     /\ \A pos \in Positions :
          /\ At(pos)'.name = At(pos).name
          /\ At(pos)'.scope = At(pos).scope
          /\ ~At(pos).rw /\ ~(debug /\ ~locked)
               => At(pos)'.address = At(pos).address
     /\ locked => Positions' = Positions]_vars

----------------------------------------------------------------------------

(* The map to the abstract table: each key is bound to its first entry. *)
Keys == {<<At(pos).scope, At(pos).name>> : pos \in Positions}
Binding ==
  [k \in Keys |->
     LET e == At(First(Matches(k[1], k[2])))
     IN  [address |-> e.address, rw |-> e.rw, export |-> e.export]]

Table == INSTANCE SymbolTable WITH
           bind <- Binding,
           TooLong <- {name \in Name : NameLen[name] > MaxNameLen}

(* Scanning pools of byte records does what the scoped map promises. *)
ImplementsTable == Table!Spec
============================================================================
