---------------------------- MODULE SymbolTable ----------------------------
(***************************************************************************)
(* What the symbol table of naken_asm promises to the assembler: a partial *)
(* function from (scope, name) to a symbol.  Scope 0 is the global scope;  *)
(* a name used inside a local scope denotes the local symbol when there is *)
(* one and the global symbol otherwise.  The module abstracts              *)
(* common/Symbols.h and common/Symbols.cpp from the byte pools in which    *)
(* the entries live; Symbols.tla is the detailed module and refines this   *)
(* one.                                                                    *)
(***************************************************************************)
EXTENDS Integers

CONSTANTS
  Name,       \* the identifiers a program uses
  TooLong,    \* the identifiers append() refuses (more than 255 bytes)
  Address,    \* the values of a symbol, 0 among them
  MaxScope    \* bound: the scopes one pass opens

VARIABLES
  bind,           \* the symbols, by <<scope, name>>
  locked,         \* no symbol may be added: pass 2
  debug,          \* append() overwrites: only tests/symbol_address sets it
  in_scope,       \* between .scope/.func and .ends/.endf
  current_scope,  \* the number of the last scope opened
  reply,          \* what the last call returned: its code, and an address
  fault           \* set() followed a null pointer

vars == <<bind, locked, debug, in_scope, current_scope, reply, fault>>

Scope == 0 .. MaxScope
Key == Scope \X Name
Symbol == [address : Address, rw : BOOLEAN, export : BOOLEAN]
Answer(code, address) == [code |-> code, address |-> address]
Ok == Answer(0, 0)
Failed == Answer(-1, 0)

TypeOK ==
  /\ DOMAIN bind \subseteq Key
  /\ \A k \in DOMAIN bind : bind[k] \in Symbol
  /\ locked \in BOOLEAN
  /\ debug \in BOOLEAN
  /\ in_scope \in BOOLEAN
  /\ current_scope \in Scope
  /\ reply \in [code : {0, -1}, address : Address]
  /\ fault \in BOOLEAN

----------------------------------------------------------------------------

(* The symbol the name denotes here, bound or not. *)
Denotes(name) ==
  IF in_scope /\ <<current_scope, name>> \in DOMAIN bind
  THEN <<current_scope, name>>
  ELSE <<0, name>>

Bound(name) == Denotes(name) \in DOMAIN bind

(* The scope a label defined here belongs to. *)
ScopeHere == IF in_scope THEN current_scope ELSE 0

(* A label may be defined unless its own scope already has it. *)
Clash(name) == Bound(name) /\ (~in_scope \/ Denotes(name)[1] = current_scope)

NewSymbol(address, rw) == [address |-> address, rw |-> rw, export |-> FALSE]

(* The table with a binding that may be new. *)
WithBinding(key, symbol) ==
  [k \in DOMAIN bind \cup {key} |-> IF k = key THEN symbol ELSE bind[k]]

(* The table after append() of a name that may be new here. *)
WithLabel(name, address) ==
  WithBinding(<<ScopeHere, name>>, NewSymbol(address, FALSE))

Init ==
  /\ bind = << >>
  /\ locked = FALSE
  /\ debug = FALSE
  /\ in_scope = FALSE
  /\ current_scope = 0
  /\ reply = Ok
  /\ fault = FALSE

Control == <<locked, debug, in_scope, current_scope>>

Append(name, address) ==
  /\ ~fault
  /\ \/ /\ locked
        /\ reply' = Ok
        /\ UNCHANGED bind
     \/ /\ ~locked /\ Bound(name) /\ debug
        /\ bind' = [bind EXCEPT ![Denotes(name)].address = address]
        /\ reply' = Ok
     \/ /\ ~locked
        /\ \/ ~debug /\ Clash(name)
           \/ ~(debug /\ Bound(name)) /\ name \in TooLong
        /\ reply' = Failed
        /\ UNCHANGED bind
     \/ /\ ~locked /\ ~(debug /\ Bound(name)) /\ ~Clash(name)
        /\ name \notin TooLong
        /\ bind' = WithLabel(name, address)
        /\ reply' = Ok
  /\ UNCHANGED <<Control, fault>>

(* .set creates a global, writable symbol or changes a writable one. *)
Set(name, address) ==
  /\ ~fault
  /\ \/ /\ Bound(name)
        /\ \/ /\ bind[Denotes(name)].rw
              /\ bind' = [bind EXCEPT ![Denotes(name)].address = address]
              /\ reply' = Ok
           \/ /\ ~bind[Denotes(name)].rw
              /\ reply' = Failed
              /\ UNCHANGED bind
        /\ UNCHANGED fault
     \/ /\ ~Bound(name) /\ ~locked
        /\ \/ /\ name \in TooLong
              /\ reply' = Failed
              /\ UNCHANGED bind
           \/ /\ name \notin TooLong
              /\ bind' = WithBinding(<<0, name>>, NewSymbol(address, TRUE))
              /\ reply' = Ok
        /\ UNCHANGED fault
     \/ /\ ~Bound(name) /\ locked
        /\ fault' = TRUE
        /\ UNCHANGED <<bind, reply>>
  /\ UNCHANGED Control

ExportSymbol(name) ==
  /\ ~fault
  /\ \/ /\ Bound(name) /\ Denotes(name)[1] = 0
        /\ bind' = [bind EXCEPT ![Denotes(name)].export = TRUE]
        /\ reply' = Ok
     \/ /\ ~(Bound(name) /\ Denotes(name)[1] = 0)
        /\ reply' = Failed
        /\ UNCHANGED bind
  /\ UNCHANGED <<Control, fault>>

Lookup(name) ==
  /\ ~fault
  /\ reply' = IF Bound(name) THEN Answer(0, bind[Denotes(name)].address)
                             ELSE Failed
  /\ UNCHANGED <<bind, Control, fault>>

ScopeStart ==
  /\ ~fault
  /\ \/ /\ in_scope
        /\ reply' = Failed
        /\ UNCHANGED Control
     \/ /\ ~in_scope /\ current_scope < MaxScope
        /\ in_scope' = TRUE
        /\ current_scope' = current_scope + 1
        /\ reply' = Ok
        /\ UNCHANGED <<locked, debug>>
  /\ UNCHANGED <<bind, fault>>

ScopeEnd ==
  /\ ~fault
  /\ in_scope' = FALSE
  /\ UNCHANGED <<bind, locked, debug, current_scope, reply, fault>>

(* main() calls Lock and ScopeReset between the passes. *)
Lock ==
  /\ ~fault
  /\ locked' = TRUE
  /\ UNCHANGED <<bind, debug, in_scope, current_scope, reply, fault>>

ScopeReset ==
  /\ ~fault
  /\ current_scope' = 0
  /\ UNCHANGED <<bind, locked, debug, in_scope, reply, fault>>

SetDebug ==
  /\ ~fault
  /\ debug' = TRUE
  /\ UNCHANGED <<bind, locked, in_scope, current_scope, reply, fault>>

Next ==
  \/ \E name \in Name, address \in Address :
       Append(name, address) \/ Set(name, address)
  \/ \E name \in Name : ExportSymbol(name) \/ Lookup(name)
  \/ ScopeStart \/ ScopeEnd \/ ScopeReset
  \/ Lock \/ SetDebug

Spec == Init /\ [][Next]_vars
============================================================================
