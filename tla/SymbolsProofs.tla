--------------------------- MODULE SymbolsProofs ---------------------------
(***************************************************************************)
(* Proofs about Symbols: the table keeps its shape, and as long as no more *)
(* scopes are opened than Entry::scope can number, a scope holds a name    *)
(* once.                                                                   *)
(***************************************************************************)
EXTENDS Symbols, TLAPS, WellFoundedInduction

NatLess == {p \in Nat \X Nat : p[1] < p[2]}

LEMMA NatMin ==
  ASSUME NEW S, S \subseteq Nat, S # {}
  PROVE  \E x \in S : \A y \in S : x <= y
<1>1. OpToRel(<, Nat) = NatLess
  BY DEF OpToRel, NatLess
<1>2. IsWellFoundedOn(NatLess, Nat)
  BY <1>1, NatLessThanWellFounded
<1>3. PICK x \in S : \A y \in S : ~(<<y, x>> \in NatLess)
  BY <1>2, WFMin
<1>4. \A y \in S : x <= y
  <2>1. SUFFICES ASSUME NEW y \in S PROVE x <= y
    OBVIOUS
  <2>2. x \in Nat /\ y \in Nat
    OBVIOUS
  <2>3. ~(y < x)
    <3>1. y < x => <<y, x>> \in NatLess
      BY <2>2 DEF NatLess
    <3> QED
      BY <3>1, <1>3
  <2> QED
    BY <2>2, <2>3
<1> QED
  BY <1>4

----------------------------------------------------------------------------

LEMMA PositionShape ==
  ASSUME pools \in Seq(Pool), NEW pos
  PROVE  pos \in Positions <=>
           \E p \in DOMAIN pools : \E i \in DOMAIN pools[p].entries :
             pos = <<p, i>>
BY DEF Positions

LEMMA PositionType ==
  ASSUME pools \in Seq(Pool), NEW pos \in Positions
  PROVE  /\ pos = <<pos[1], pos[2]>>
         /\ pos[1] \in DOMAIN pools /\ pos[1] \in Nat
         /\ pools[pos[1]] \in Pool
         /\ pos[2] \in DOMAIN pools[pos[1]].entries /\ pos[2] \in Nat
         /\ At(pos) \in Entry
<1>1. PICK p \in DOMAIN pools : \E i \in DOMAIN pools[p].entries : pos = <<p, i>>
  BY PositionShape
<1>2. PICK i \in DOMAIN pools[p].entries : pos = <<p, i>>
  BY <1>1
<1>3. pools[p] \in Pool /\ p \in Nat
  OBVIOUS
<1>4. pools[p].entries \in Seq(Entry)
  BY <1>3 DEF Pool
<1>5. pools[p].entries[i] \in Entry /\ i \in Nat
  BY <1>4
<1> QED
  BY <1>2, <1>3, <1>4, <1>5 DEF At

(* A nonempty set of positions has a first one. *)
LEMMA FirstIn ==
  ASSUME pools \in Seq(Pool), NEW S, S \subseteq Positions, S # {}
  PROVE  First(S) \in S
<1> DEFINE ps == {x[1] : x \in S}
<1>1. ps \subseteq Nat /\ ps # {}
  BY PositionType
<1>2. PICK p \in ps : \A q \in ps : p <= q
  BY <1>1, NatMin
<1> DEFINE is == {x[2] : x \in {y \in S : y[1] = p}}
<1>3. is \subseteq Nat /\ is # {}
  BY PositionType
<1>4. PICK i \in is : \A j \in is : i <= j
  BY <1>3, NatMin
<1>5. PICK x \in S : x[1] = p /\ x[2] = i
  OBVIOUS
<1>6. ASSUME NEW y \in S \ {x}
      PROVE  Before(x, y)
  <2>1. y = <<y[1], y[2]>> /\ x = <<x[1], x[2]>>
    BY PositionType
  <2>2. x[1] \in Nat /\ y[1] \in Nat /\ x[2] \in Nat /\ y[2] \in Nat
    BY PositionType
  <2>3. x[1] <= y[1]
    BY <1>2, <1>5
  <2>4. x[1] = y[1] => x[2] <= y[2]
    BY <1>4, <1>5
  <2>5. x[1] # y[1] \/ x[2] # y[2]
    BY <2>1
  <2> HIDE DEF ps, is
  <2> QED
    BY <2>2, <2>3, <2>4, <2>5 DEF Before
<1> QED
  BY <1>5, <1>6 DEF First

(* find() returns the place of an entry that carries the name.             *)
LEMMA FindResult ==
  ASSUME pools \in Seq(Pool), NEW name, NEW pos \in Find(name)
  PROVE  /\ pos \in Positions
         /\ Find(name) = {pos}
         /\ At(pos).name = name
         /\ At(pos).scope = 0 \/ (in_scope /\ At(pos).scope = current_scope)
<1> DEFINE local == IF in_scope THEN Matches(current_scope, name) ELSE {}
           found == IF local # {} THEN local ELSE Matches(0, name)
<1>1. found # {} /\ Find(name) = {First(found)}
  BY DEF Find
<1>2. found \subseteq Positions
  BY DEF Matches
<1>3. First(found) \in found
  <2> HIDE DEF found
  <2> QED
    BY <1>1, <1>2, FirstIn
<1> QED
  BY <1>1, <1>2, <1>3 DEF Matches

(* No match in the scope at hand nor in the global one: find() fails.      *)
LEMMA FindNothing ==
  ASSUME NEW name, Find(name) = {}
  PROVE  /\ Matches(0, name) = {}
         /\ in_scope => Matches(current_scope, name) = {}
BY DEF Find

LEMMA ChangeType ==
  ASSUME pools \in Seq(Pool), NEW pos \in Positions,
         NEW e \in Entry
  PROVE  [pools EXCEPT ![pos[1]].entries[pos[2]] = e] \in Seq(Pool)
<1>1. pos[1] \in DOMAIN pools /\ pools[pos[1]] \in Pool
  BY PositionType
<1>2. pos[2] \in DOMAIN pools[pos[1]].entries
  BY PositionType
<1> DEFINE es == [pools[pos[1]].entries EXCEPT ![pos[2]] = e]
<1>3. es \in Seq(Entry)
  BY <1>1, <1>2 DEF Pool
<1>4. [pools[pos[1]] EXCEPT !.entries = es] \in Pool
  BY <1>1, <1>3 DEF Pool
<1> QED
  BY <1>1, <1>4

LEMMA WithAddressType ==
  ASSUME pools \in Seq(Pool), NEW pos \in Positions, NEW address \in Address
  PROVE  WithAddress(pos, address) \in Seq(Pool)
<1>1. At(pos) \in Entry
  BY PositionType
<1>2. [At(pos) EXCEPT !.address = address] \in Entry
  BY <1>1 DEF Entry
<1> QED
  BY <1>2, ChangeType DEF WithAddress, At

LEMMA WithExportType ==
  ASSUME pools \in Seq(Pool), NEW pos \in Positions
  PROVE  [pools EXCEPT ![pos[1]].entries[pos[2]].export = TRUE] \in Seq(Pool)
<1>1. At(pos) \in Entry
  BY PositionType
<1>2. [At(pos) EXCEPT !.export = TRUE] \in Entry
  BY <1>1 DEF Entry
<1> QED
  BY <1>2, ChangeType DEF At

(* The pool chosen for an entry has room for it, if it is not a new one.   *)
LEMMA PoolForResult ==
  ASSUME pools \in Seq(Pool), NEW name
  PROVE  \/ PoolFor(name) = Len(pools) + 1
         \/ /\ PoolFor(name) \in DOMAIN pools
            /\ pools[PoolFor(name)].ptr + EntrySize(name) < PoolSize
<1> DEFINE fits == {p \in DOMAIN pools : pools[p].ptr + EntrySize(name) < PoolSize}
<1>1. CASE fits = {}
  BY <1>1 DEF PoolFor
<1>2. CASE fits # {}
  <2>1. fits \subseteq Nat
    OBVIOUS
  <2>2. \E p \in fits : \A q \in fits : p <= q
    <3> HIDE DEF fits
    <3> QED
      BY <1>2, <2>1, NatMin
  <2>3. PoolFor(name) \in fits
    BY <1>2, <2>2 DEF PoolFor
  <2> QED
    BY <2>3
<1> QED
  BY <1>1, <1>2

LEMMA WithEntryType ==
  ASSUME pools \in Seq(Pool), NEW e \in Entry, NameLen[e.name] <= MaxNameLen
  PROVE  WithEntry(e) \in Seq(Pool)
<1> DEFINE p == PoolFor(e.name)
           old == IF p \in DOMAIN pools THEN pools[p] ELSE EmptyPool
           new == [ptr |-> Advance(old, e), entries |-> Append(old.entries, e)]
<1>1. EntrySize(e.name) \in Nat /\ EntrySize(e.name) < PoolSize
  BY SymbolsAssumption DEF EntrySize, Entry
<1>2. old.ptr \in Nat /\ old.ptr + EntrySize(e.name) < PoolSize
  <2>1. CASE p \in DOMAIN pools
    <3>1. pools[p].ptr + EntrySize(e.name) < PoolSize
      BY <2>1, PoolForResult
    <3> QED
      <4>1. pools[p] \in Pool /\ old = pools[p]
        BY <2>1
      <4>2. old.ptr \in Nat
        BY <4>1 DEF Pool
      <4> QED
        BY <2>1, <3>1, <4>2
  <2>2. CASE p \notin DOMAIN pools
    BY <2>2, <1>1 DEF EmptyPool
  <2> QED
    BY <2>1, <2>2
<1>3. old.entries \in Seq(Entry)
  <2>1. CASE p \in DOMAIN pools
    <3>1. pools[p] \in Pool /\ old = pools[p]
      BY <2>1
    <3> QED
      BY <3>1 DEF Pool
  <2>2. CASE p \notin DOMAIN pools
    <3>1. old = EmptyPool
      BY <2>2
    <3>2. EmptyPool.entries \in Seq(Entry)
      BY DEF EmptyPool
    <3> HIDE DEF old
    <3> QED
      BY <3>1, <3>2
  <2> QED
    BY <2>1, <2>2
<1>4. new \in Pool
  BY SMTT(30), <1>1, <1>2, <1>3, SymbolsAssumption DEF Pool, Advance
<1>5. WithEntry(e) = IF p \in DOMAIN pools THEN [pools EXCEPT ![p] = new]
                                           ELSE Append(pools, new)
  BY DEF WithEntry
<1> HIDE DEF p, new
<1> QED
  BY <1>4, <1>5

----------------------------------------------------------------------------

(* Replacing an entry keeps all places and all other entries.              *)
LEMMA ChangeKeeps ==
  ASSUME pools \in Seq(Pool), NEW pos \in Positions, NEW e \in Entry,
         pools' = [pools EXCEPT ![pos[1]].entries[pos[2]] = e]
  PROVE  /\ Positions' = Positions
         /\ At(pos)' = e
         /\ \A x \in Positions \ {pos} : At(x)' = At(x)
<1>1. pos[1] \in DOMAIN pools /\ pools[pos[1]] \in Pool
  BY PositionType
<1>2. pos[2] \in DOMAIN pools[pos[1]].entries
  BY PositionType
<1>3. DOMAIN pools' = DOMAIN pools
  OBVIOUS
<1>4. ASSUME NEW p \in DOMAIN pools
      PROVE  DOMAIN pools'[p].entries = DOMAIN pools[p].entries
  <2>1. pools[p] \in Pool
    OBVIOUS
  <2> QED
    BY <2>1 DEF Pool
<1>5. Positions' = Positions
  BY <1>3, <1>4 DEF Positions
<1>6. At(pos)' = e
  BY <1>1, <1>2 DEF At, Pool
<1>7. ASSUME NEW x \in Positions \ {pos}
      PROVE  At(x)' = At(x)
  <2>1. /\ x = <<x[1], x[2]>> /\ pos = <<pos[1], pos[2]>>
        /\ x[1] \in DOMAIN pools /\ x[2] \in DOMAIN pools[x[1]].entries
    BY PositionType
  <2>2. x[1] # pos[1] \/ x[2] # pos[2]
    BY <2>1
  <2> QED
    BY <1>1, <1>2, <2>1, <2>2 DEF At, Pool
<1> QED
  BY <1>5, <1>6, <1>7

LEMMA WithAddressKeeps ==
  ASSUME pools \in Seq(Pool), NEW pos \in Positions, NEW address \in Address,
         pools' = WithAddress(pos, address)
  PROVE  /\ Positions' = Positions
         /\ At(pos)' = [At(pos) EXCEPT !.address = address]
         /\ \A x \in Positions \ {pos} : At(x)' = At(x)
<1>1. At(pos) \in Entry
  BY PositionType
<1>2. [At(pos) EXCEPT !.address = address] \in Entry
  BY <1>1 DEF Entry
<1>3. pools' = [pools EXCEPT ![pos[1]].entries[pos[2]] =
                               [At(pos) EXCEPT !.address = address]]
  BY DEF WithAddress, At
<1> QED
  BY <1>2, <1>3, ChangeKeeps

LEMMA WithExportKeeps ==
  ASSUME pools \in Seq(Pool), NEW pos \in Positions,
         pools' = [pools EXCEPT ![pos[1]].entries[pos[2]].export = TRUE]
  PROVE  /\ Positions' = Positions
         /\ At(pos)' = [At(pos) EXCEPT !.export = TRUE]
         /\ \A x \in Positions \ {pos} : At(x)' = At(x)
<1>1. At(pos) \in Entry
  BY PositionType
<1>2. [At(pos) EXCEPT !.export = TRUE] \in Entry
  BY <1>1 DEF Entry
<1>3. pools' = [pools EXCEPT ![pos[1]].entries[pos[2]] =
                               [At(pos) EXCEPT !.export = TRUE]]
  BY DEF At
<1> QED
  BY <1>2, <1>3, ChangeKeeps

(* Adding an entry takes one new place and keeps all entries.              *)
LEMMA WithEntryKeeps ==
  ASSUME pools \in Seq(Pool), NEW e \in Entry, pools' = WithEntry(e)
  PROVE  \E new : /\ new \notin Positions
                  /\ Positions' = Positions \cup {new}
                  /\ At(new)' = e
                  /\ \A x \in Positions : At(x)' = At(x)
<1>1. PICK p : p = PoolFor(e.name)
  OBVIOUS
<1> DEFINE old == IF p \in DOMAIN pools THEN pools[p] ELSE EmptyPool
           pool == [ptr |-> Advance(old, e), entries |-> Append(old.entries, e)]
<1>2. pools' = IF p \in DOMAIN pools THEN [pools EXCEPT ![p] = pool]
                                     ELSE Append(pools, pool)
  BY <1>1 DEF WithEntry
<1>3. CASE p \in DOMAIN pools
  <2>1. old = pools[p] /\ old \in Pool /\ p \in Nat
    BY <1>3
  <2>2. old.entries \in Seq(Entry)
    BY <2>1 DEF Pool
  <2>n. PICK n : n = Len(old.entries) + 1
    OBVIOUS
  <2> DEFINE new == <<p, n>>
  <2>3. /\ pool.entries[n] = e
        /\ DOMAIN pool.entries = DOMAIN old.entries \cup {n}
        /\ n \notin DOMAIN old.entries
        /\ \A i \in DOMAIN old.entries : pool.entries[i] = old.entries[i]
    BY <2>2, <2>n
  <2>4. pools' = [pools EXCEPT ![p] = pool]
    BY <1>2, <1>3
  <2> HIDE DEF pool, old
  <2>5. DOMAIN pools' = DOMAIN pools /\ pools'[p] = pool
    BY <2>4, <1>3
  <2>6. \A q \in DOMAIN pools \ {p} : pools'[q] = pools[q]
    BY <2>4
  <2>7. new \notin Positions
    BY <2>1, <2>3 DEF Positions
  <2>8. Positions' = Positions \cup {new}
    <3>1. ASSUME NEW x \in Positions' PROVE x \in Positions \cup {new}
      <4>1. PICK q \in DOMAIN pools : \E i \in DOMAIN pools'[q].entries : x = <<q, i>>
        BY <2>5 DEF Positions
      <4>2. PICK i \in DOMAIN pools'[q].entries : x = <<q, i>>
        BY <4>1
      <4> QED
        BY <4>2, <2>1, <2>3, <2>5, <2>6 DEF Positions
    <3>2. ASSUME NEW x \in Positions PROVE x \in Positions'
      <4>1. PICK q \in DOMAIN pools : \E i \in DOMAIN pools[q].entries : x = <<q, i>>
        BY DEF Positions
      <4>2. PICK i \in DOMAIN pools[q].entries : x = <<q, i>>
        BY <4>1
      <4>3. i \in DOMAIN pools'[q].entries
        BY <2>1, <2>3, <2>5, <2>6
      <4> QED
        BY <4>2, <4>3, <2>5 DEF Positions
    <3>3. new \in Positions'
      BY <2>3, <2>5, <1>3 DEF Positions
    <3> QED
      BY <3>1, <3>2, <3>3
  <2>9. At(new)' = e
    BY <2>3, <2>5 DEF At
  <2>10. ASSUME NEW x \in Positions PROVE At(x)' = At(x)
    <3>1. x[1] \in DOMAIN pools /\ x[2] \in DOMAIN pools[x[1]].entries
      BY PositionType
    <3> QED
      BY <3>1, <2>1, <2>3, <2>5, <2>6 DEF At
  <2> QED
    BY <2>7, <2>8, <2>9, <2>10
<1>4. CASE p \notin DOMAIN pools
  <2>1. p = Len(pools) + 1
    BY <1>1, <1>4, PoolForResult
  <2>2. old = EmptyPool
    BY <1>4
  <2>3. pools' = Append(pools, pool)
    BY <1>2, <1>4
  <2>0. EmptyPool.entries = << >>
    BY DEF EmptyPool
  <2>4. pool.entries = <<e>>
    <3> HIDE DEF old
    <3> QED
      BY <2>2, <2>0
  <2> DEFINE new == <<p, 1>>
  <2> HIDE DEF pool, old
  <2>5. DOMAIN pools' = DOMAIN pools \cup {p} /\ pools'[p] = pool
    BY <2>1, <2>3
  <2>6. \A q \in DOMAIN pools : pools'[q] = pools[q]
    BY <2>3
  <2>7. new \notin Positions
    BY <1>4 DEF Positions
  <2>8. Positions' = Positions \cup {new}
    <3>0. DOMAIN pool.entries = {1}
      BY <2>4
    <3>1. ASSUME NEW x \in Positions' PROVE x \in Positions \cup {new}
      <4>1. PICK q \in DOMAIN pools' : \E i \in DOMAIN pools'[q].entries : x = <<q, i>>
        BY DEF Positions
      <4>2. PICK i \in DOMAIN pools'[q].entries : x = <<q, i>>
        BY <4>1
      <4> QED
        BY <4>2, <3>0, <2>5, <2>6 DEF Positions
    <3>2. ASSUME NEW x \in Positions PROVE x \in Positions'
      BY <2>5, <2>6 DEF Positions
    <3>3. new \in Positions'
      BY <3>0, <2>5 DEF Positions
    <3> QED
      BY <3>1, <3>2, <3>3
  <2>9. At(new)' = e
    BY <2>4, <2>5 DEF At
  <2>10. ASSUME NEW x \in Positions PROVE At(x)' = At(x)
    <3>1. x[1] \in DOMAIN pools
      BY PositionType
    <3> QED
      BY <3>1, <2>6 DEF At
  <2> QED
    BY <2>7, <2>8, <2>9, <2>10
<1> QED
  BY <1>3, <1>4

----------------------------------------------------------------------------

LEMMA TypeInit == Init => TypeOK
<1> SUFFICES ASSUME Init PROVE TypeOK
  OBVIOUS
<1>1. Ok \in [code : {0, -1}, address : Address]
  BY SymbolsAssumption DEF Ok, Answer
<1>2. pools \in Seq(Pool)
  BY DEF Init
<1>3. current_scope \in 0 .. MaxScope
  BY SymbolsAssumption DEF Init
<1> QED
  BY <1>1, <1>2, <1>3 DEF Init, TypeOK

LEMMA TypeStep == TypeOK /\ [Next]_vars => TypeOK'
<1> SUFFICES ASSUME TypeOK, [Next]_vars
             PROVE  TypeOK'
  OBVIOUS
<1> USE SymbolsAssumption
<1>1. Ok \in [code : {0, -1}, address : Address] /\ Failed \in [code : {0, -1}, address : Address]
  BY DEF Ok, Failed, Answer
<1>2. ASSUME NEW name \in Name, NEW address \in Address,
             AppendSymbol(name, address)
      PROVE  TypeOK'
  <2>1. ASSUME NEW pos \in Find(name)
        PROVE  WithAddress(pos, address) \in Seq(Pool)
    BY <2>1, FindResult, WithAddressType DEF TypeOK
  <2>2. ScopeHere \in 0 .. ScopeSize - 1
    BY DEF ScopeHere, TypeOK
  <2>3. NewEntry(name, ScopeHere, address, FALSE) \in Entry
    BY <2>2 DEF NewEntry, Entry
  <2>4. NameLen[name] <= MaxNameLen =>
          WithEntry(NewEntry(name, ScopeHere, address, FALSE)) \in Seq(Pool)
    BY <2>3, WithEntryType DEF TypeOK, NewEntry
  <2>5. pools' \in Seq(Pool)
    BY <1>2, <2>1, <2>4 DEF AppendSymbol, TypeOK
  <2> QED
    BY <1>2, <1>1, <2>5 DEF AppendSymbol, TypeOK, Control
<1>3. ASSUME NEW name \in Name, NEW address \in Address,
             SetSymbol(name, address)
      PROVE  TypeOK'
  <2>1. ASSUME NEW pos \in Find(name)
        PROVE  WithAddress(pos, address) \in Seq(Pool)
    BY <2>1, FindResult, WithAddressType DEF TypeOK
  <2>2. ScopeHere \in 0 .. ScopeSize - 1
    BY DEF ScopeHere, TypeOK
  <2>3. /\ NewEntry(name, 0, address, TRUE) \in Entry
        /\ NewEntry(name, ScopeHere, address, FALSE) \in Entry
    BY <2>2 DEF NewEntry, Entry
  <2>4. NameLen[name] <= MaxNameLen =>
          /\ WithEntry(NewEntry(name, 0, address, TRUE)) \in Seq(Pool)
          /\ WithEntry(NewEntry(name, ScopeHere, address, FALSE)) \in Seq(Pool)
    BY <2>3, WithEntryType DEF TypeOK, NewEntry
  <2>5. pools' \in Seq(Pool)
    BY <1>3, <2>1, <2>4 DEF SetSymbol, TypeOK
  <2> QED
    BY <1>3, <1>1, <2>5 DEF SetSymbol, TypeOK, Control
<1>4. ASSUME NEW name \in Name, ExportSymbol(name)
      PROVE  TypeOK'
  <2>1. ASSUME NEW pos \in Find(name)
        PROVE  [pools EXCEPT ![pos[1]].entries[pos[2]].export = TRUE] \in Seq(Pool)
    BY <2>1, FindResult, WithExportType DEF TypeOK
  <2> QED
    BY <1>4, <1>1, <2>1 DEF ExportSymbol, TypeOK, Control
<1>5. ASSUME NEW name \in Name, Lookup(name)
      PROVE  TypeOK'
  <2>1. ASSUME NEW pos \in Find(name)
        PROVE  Answer(0, At(pos).address) \in [code : {0, -1}, address : Address]
    <3>1. At(pos) \in Entry
      BY <2>1, FindResult, PositionType DEF TypeOK
    <3> QED
      BY <3>1 DEF Entry, Answer
  <2> QED
    BY <1>5, <1>1, <2>1 DEF Lookup, TypeOK, Control
<1>6. CASE ScopeStart
  <2>1. current_scope' \in 0 .. MaxScope
    BY <1>6 DEF ScopeStart, TypeOK, Control
  <2>2. reply' \in [code : {0, -1}, address : Address]
    BY <1>6, <1>1 DEF ScopeStart
  <2>3. in_scope' \in BOOLEAN
    BY <1>6 DEF ScopeStart, TypeOK, Control
  <2> QED
    BY <1>6, <2>1, <2>2, <2>3 DEF ScopeStart, TypeOK, Control
<1>7. CASE ScopeEnd
  BY <1>7 DEF ScopeEnd, TypeOK
<1>8. CASE ScopeReset
  <2>1. current_scope' \in 0 .. MaxScope
    BY <1>8 DEF ScopeReset
  <2> QED
    BY <1>8, <2>1 DEF ScopeReset, TypeOK
<1>9. CASE Lock
  BY <1>9 DEF Lock, TypeOK
<1>10. CASE SetDebug
  BY <1>10 DEF SetDebug, TypeOK
<1>11. CASE UNCHANGED vars
  BY <1>11 DEF vars, TypeOK
<1> QED
  BY <1>2, <1>3, <1>4, <1>5, <1>6, <1>7, <1>11, <1>8, <1>9, <1>10 DEF Next

(* No call of the class leaves the table misshapen or lets the used bytes  *)
(* of a pool reach its end (Symbols.cpp:88-263, MemoryPool.cpp:18-39).     *)
THEOREM TypeCorrect == Spec => []TypeOK
<1>1. Init => TypeOK
  BY TypeInit
<1>2. TypeOK /\ [Next]_vars => TypeOK'
  BY TypeStep
<1> QED
  BY <1>1, <1>2, PTL DEF Spec

----------------------------------------------------------------------------

(* What a step does to the table: nothing, replace one entry, or add one.  *)
Replaced(pos, e) ==
  /\ pos \in Positions
  /\ Positions' = Positions
  /\ At(pos)' = e
  /\ \A x \in Positions \ {pos} : At(x)' = At(x)

Added(new, e) ==
  /\ new \notin Positions
  /\ Positions' = Positions \cup {new}
  /\ At(new)' = e
  /\ \A x \in Positions : At(x)' = At(x)

(* The scope a label is looked for in before it is added. *)
LocalScope == IF in_scope THEN current_scope ELSE 0

LEMMA AppendEffect ==
  ASSUME TypeOK, NEW name \in Name, NEW address \in Address,
         AppendSymbol(name, address)
  PROVE  \/ pools' = pools
         \/ /\ debug /\ ~locked
            /\ \E pos \in Positions :
                 Replaced(pos, [At(pos) EXCEPT !.address = address])
         \/ /\ ~locked
            /\ Matches(LocalScope, name) = {}
            /\ \E new : Added(new, NewEntry(name, ScopeHere, address, FALSE))
<1>1. pools \in Seq(Pool)
  BY DEF TypeOK
<1>2. ASSUME ~locked, debug, NEW pos \in Find(name),
             pools' = WithAddress(pos, address)
      PROVE  /\ pos \in Positions
             /\ Replaced(pos, [At(pos) EXCEPT !.address = address])
  BY <1>1, <1>2, FindResult, WithAddressKeeps DEF Replaced
<1>3. ASSUME ~Clash(name)
      PROVE  Matches(LocalScope, name) = {}
  <2>1. CASE Find(name) = {}
    BY <2>1, FindNothing DEF LocalScope
  <2>2. CASE Find(name) # {}
    <3>1. PICK pos \in Find(name) : TRUE
      BY <2>2
    <3>2. in_scope /\ At(pos).scope # current_scope
      BY <1>3, <3>1 DEF Clash
    <3>3. Find(name) = {pos}
      BY <1>1, <3>1, FindResult
    <3>4. ASSUME Matches(current_scope, name) # {} PROVE FALSE
      <4>1. Find(name) = {First(Matches(current_scope, name))}
        BY <3>2, <3>4 DEF Find
      <4>2. First(Matches(current_scope, name)) \in Matches(current_scope, name)
        BY <1>1, <3>4, FirstIn DEF Matches
      <4> QED
        BY <3>2, <3>3, <4>1, <4>2 DEF Matches
    <3> QED
      BY <3>2, <3>4 DEF LocalScope
  <2> QED
    BY <2>1, <2>2
<1>4. NewEntry(name, ScopeHere, address, FALSE) \in Entry
  <2>1. ScopeHere \in 0 .. ScopeSize - 1
    BY SymbolsAssumption DEF ScopeHere, TypeOK
  <2> QED
    BY <2>1 DEF NewEntry, Entry
<1>5. ASSUME pools' = WithEntry(NewEntry(name, ScopeHere, address, FALSE))
      PROVE  \E new : Added(new, NewEntry(name, ScopeHere, address, FALSE))
  BY <1>1, <1>4, <1>5, WithEntryKeeps DEF Added
<1> QED
  BY <1>2, <1>3, <1>5 DEF AppendSymbol

LEMMA SetEffect ==
  ASSUME TypeOK, NEW name \in Name, NEW address \in Address,
         SetSymbol(name, address)
  PROVE  \/ pools' = pools
         \/ \E pos \in Positions :
              /\ At(pos).rw
              /\ Replaced(pos, [At(pos) EXCEPT !.address = address])
         \/ /\ ~locked
            /\ Matches(0, name) = {}
            /\ \E new : Added(new, NewEntry(name, 0, address, TRUE))
         \/ /\ ~locked
            /\ Matches(LocalScope, name) = {}
            /\ \E new : Added(new, NewEntry(name, ScopeHere, address, FALSE))
<1>1. pools \in Seq(Pool)
  BY DEF TypeOK
<1>2. ASSUME NEW pos \in Find(name), Writable(pos),
             pools' = WithAddress(pos, address)
      PROVE  /\ pos \in Positions /\ At(pos).rw
             /\ Replaced(pos, [At(pos) EXCEPT !.address = address])
  BY <1>1, <1>2, FindResult, WithAddressKeeps DEF Replaced, Writable
<1>3. NewEntry(name, 0, address, TRUE) \in Entry
  BY SymbolsAssumption DEF NewEntry, Entry
<1>4. ASSUME pools' = WithEntry(NewEntry(name, 0, address, TRUE))
      PROVE  \E new : Added(new, NewEntry(name, 0, address, TRUE))
  BY <1>1, <1>3, <1>4, WithEntryKeeps DEF Added
<1>5. NewEntry(name, ScopeHere, address, FALSE) \in Entry
  <2>1. ScopeHere \in 0 .. ScopeSize - 1
    BY SymbolsAssumption DEF ScopeHere, TypeOK
  <2> QED
    BY <2>1 DEF NewEntry, Entry
<1>6. ASSUME pools' = WithEntry(NewEntry(name, ScopeHere, address, FALSE))
      PROVE  \E new : Added(new, NewEntry(name, ScopeHere, address, FALSE))
  BY <1>1, <1>5, <1>6, WithEntryKeeps DEF Added
<1>7. Find(name) = {} => Matches(0, name) = {} /\ Matches(LocalScope, name) = {}
  BY FindNothing DEF LocalScope
<1> QED
  BY <1>2, <1>4, <1>6, <1>7 DEF SetSymbol

LEMMA ExportEffect ==
  ASSUME TypeOK, NEW name \in Name, ExportSymbol(name)
  PROVE  \/ pools' = pools
         \/ \E pos \in Positions :
              /\ At(pos).scope = 0
              /\ Replaced(pos, [At(pos) EXCEPT !.export = TRUE])
<1>1. pools \in Seq(Pool)
  BY DEF TypeOK
<1>2. ASSUME NEW pos \in Find(name), Exportable(pos),
             pools' = [pools EXCEPT ![pos[1]].entries[pos[2]].export = TRUE]
      PROVE  /\ pos \in Positions /\ At(pos).scope = 0
             /\ Replaced(pos, [At(pos) EXCEPT !.export = TRUE])
  BY <1>1, <1>2, FindResult, WithExportKeeps DEF Replaced, Exportable
<1> QED
  BY <1>2 DEF ExportSymbol

LEMMA OtherEffect ==
  ASSUME \/ \E name \in Name : Lookup(name)
         \/ ScopeStart \/ ScopeEnd \/ ScopeReset \/ Lock \/ SetDebug
         \/ UNCHANGED vars
  PROVE  pools' = pools
BY DEF Lookup, ScopeStart, ScopeEnd, ScopeReset, Lock, SetDebug, vars

(* Every step, with what the entry it replaces or adds looks like.         *)
LEMMA StepEffect ==
  ASSUME TypeOK, [Next]_vars
  PROVE  \/ pools' = pools
         \/ \E pos \in Positions : \E address \in Address :
              /\ At(pos).rw \/ (debug /\ ~locked)
              /\ Replaced(pos, [At(pos) EXCEPT !.address = address])
         \/ \E pos \in Positions :
              /\ At(pos).scope = 0
              /\ Replaced(pos, [At(pos) EXCEPT !.export = TRUE])
         \/ /\ ~locked
            /\ \E new : \E name \in Name, address \in Address :
                 \/ /\ Matches(LocalScope, name) = {}
                    /\ Added(new, NewEntry(name, ScopeHere, address, FALSE))
                 \/ /\ Matches(0, name) = {}
                    /\ Added(new, NewEntry(name, 0, address, TRUE))
<1>1. ASSUME NEW name \in Name, NEW address \in Address
      PROVE  AppendSymbol(name, address) =>
               \/ pools' = pools
               \/ /\ debug /\ ~locked
                  /\ \E pos \in Positions :
                       Replaced(pos, [At(pos) EXCEPT !.address = address])
               \/ /\ ~locked
                  /\ Matches(LocalScope, name) = {}
                  /\ \E new : Added(new, NewEntry(name, ScopeHere, address, FALSE))
  BY AppendEffect
<1>2. ASSUME NEW name \in Name, NEW address \in Address
      PROVE  SetSymbol(name, address) =>
               \/ pools' = pools
               \/ \E pos \in Positions :
                    /\ At(pos).rw
                    /\ Replaced(pos, [At(pos) EXCEPT !.address = address])
               \/ /\ ~locked
                  /\ Matches(0, name) = {}
                  /\ \E new : Added(new, NewEntry(name, 0, address, TRUE))
               \/ /\ ~locked
                  /\ Matches(LocalScope, name) = {}
                  /\ \E new : Added(new, NewEntry(name, ScopeHere, address, FALSE))
  BY SetEffect
<1>3. ASSUME NEW name \in Name
      PROVE  ExportSymbol(name) =>
               \/ pools' = pools
               \/ \E pos \in Positions :
                    /\ At(pos).scope = 0
                    /\ Replaced(pos, [At(pos) EXCEPT !.export = TRUE])
  BY ExportEffect
<1> QED
  BY <1>1, <1>2, <1>3, OtherEffect DEF Next

----------------------------------------------------------------------------

(* Entry::scope can number every scope a pass opens. *)
ScopesFit == MaxScope < ScopeSize

LEMMA UniqueStep ==
  ASSUME ScopesFit, TypeOK, UniqueKeys, [Next]_vars
  PROVE  UniqueKeys'
<1>1. ASSUME pools' = pools
      PROVE  UniqueKeys'
  <2>1. Positions' = Positions
    BY <1>1 DEF Positions
  <2>2. \A x : At(x)' = At(x)
    BY <1>1 DEF At
  <2> QED
    BY <2>1, <2>2 DEF UniqueKeys
<1>2. ASSUME NEW pos \in Positions, NEW address \in Address,
             Replaced(pos, [At(pos) EXCEPT !.address = address])
      PROVE  UniqueKeys'
  <2>1. At(pos) \in Entry
    BY PositionType DEF TypeOK
  <2>2. \A x \in Positions : At(x)'.scope = At(x).scope /\ At(x)'.name = At(x).name
    BY <1>2, <2>1 DEF Replaced, Entry
  <2>3. Positions' = Positions
    BY <1>2 DEF Replaced
  <2> QED
    BY <2>2, <2>3 DEF UniqueKeys
<1>3. ASSUME NEW pos \in Positions,
             Replaced(pos, [At(pos) EXCEPT !.export = TRUE])
      PROVE  UniqueKeys'
  <2>1. At(pos) \in Entry
    BY PositionType DEF TypeOK
  <2>2. \A x \in Positions : At(x)'.scope = At(x).scope /\ At(x)'.name = At(x).name
    BY <1>3, <2>1 DEF Replaced, Entry
  <2>3. Positions' = Positions
    BY <1>3 DEF Replaced
  <2> QED
    BY <2>2, <2>3 DEF UniqueKeys
<1>4. ASSUME NEW new, NEW name, NEW scope, NEW address, NEW rw,
             Matches(scope, name) = {},
             Added(new, NewEntry(name, scope, address, rw))
      PROVE  UniqueKeys'
  <2>1. \A x \in Positions : ~(At(x).scope = scope /\ At(x).name = name)
    BY <1>4 DEF Matches
  <2>2. At(new)'.scope = scope /\ At(new)'.name = name
    BY <1>4 DEF Added, NewEntry
  <2> QED
    BY <1>4, <2>1, <2>2 DEF Added, UniqueKeys
<1>5. ScopeHere = LocalScope
  BY SMTT(30), SymbolsAssumption DEF ScopesFit, ScopeHere, LocalScope, TypeOK
<1> QED
  BY <1>1, <1>2, <1>3, <1>4, <1>5, StepEffect

(* No sequence of labels, .set, scopes and passes puts a name into a scope *)
(* twice (Symbols.cpp:98-116,168-184), as long as the program opens fewer  *)
(* scopes than Entry::scope can number.                                    *)
THEOREM KeysUnique == ASSUME ScopesFit PROVE Spec => []UniqueKeys
<1>1. Init => TypeOK /\ UniqueKeys
  BY TypeInit DEF Init, UniqueKeys, Positions
<1>2. TypeOK /\ UniqueKeys /\ [Next]_vars => (TypeOK /\ UniqueKeys)'
  BY TypeStep, UniqueStep
<1> QED
  BY <1>1, <1>2, PTL DEF Spec

LEMMA SharedStep ==
  ASSUME TypeOK, SharedIsGlobal, [Next]_vars
  PROVE  SharedIsGlobal'
<1>1. ASSUME pools' = pools
      PROVE  SharedIsGlobal'
  BY <1>1 DEF SharedIsGlobal, Positions, At
<1>2. ASSUME NEW pos \in Positions, NEW address \in Address,
             Replaced(pos, [At(pos) EXCEPT !.address = address])
      PROVE  SharedIsGlobal'
  <2>1. At(pos) \in Entry
    BY PositionType DEF TypeOK
  <2> QED
    BY <1>2, <2>1 DEF Replaced, Entry, SharedIsGlobal
<1>3. ASSUME NEW pos \in Positions, At(pos).scope = 0,
             Replaced(pos, [At(pos) EXCEPT !.export = TRUE])
      PROVE  SharedIsGlobal'
  <2>1. At(pos) \in Entry
    BY PositionType DEF TypeOK
  <2> QED
    BY <1>3, <2>1 DEF Replaced, Entry, SharedIsGlobal
<1>4. ASSUME NEW new, NEW name, NEW address,
             \/ Added(new, NewEntry(name, ScopeHere, address, FALSE))
             \/ Added(new, NewEntry(name, 0, address, TRUE))
      PROVE  SharedIsGlobal'
  BY <1>4 DEF Added, NewEntry, SharedIsGlobal
<1> QED
  BY <1>1, <1>2, <1>3, <1>4, StepEffect

(* What .set writes and what .export publishes is never a local symbol     *)
(* (Symbols.cpp:168-213).                                                  *)
THEOREM SharedAreGlobal == Spec => []SharedIsGlobal
<1>1. Init => TypeOK /\ SharedIsGlobal
  BY TypeInit DEF Init, SharedIsGlobal, Positions
<1>2. TypeOK /\ SharedIsGlobal /\ [Next]_vars => (TypeOK /\ SharedIsGlobal)'
  BY TypeStep, SharedStep
<1> QED
  BY <1>1, <1>2, PTL DEF Spec

(* The body of LabelsStay: what a step does to the entries there are. *)
LabelsKept ==
  /\ Positions \subseteq Positions'
  /\ \A pos \in Positions :
       /\ At(pos)'.name = At(pos).name
       /\ At(pos)'.scope = At(pos).scope
       /\ ~At(pos).rw /\ ~(debug /\ ~locked)
            => At(pos)'.address = At(pos).address
  /\ locked => Positions' = Positions

LEMMA LabelsStep ==
  ASSUME TypeOK, [Next]_vars
  PROVE  LabelsKept
<1>1. ASSUME pools' = pools
      PROVE  LabelsKept
  BY <1>1 DEF LabelsKept, Positions, At
<1>2. ASSUME NEW pos \in Positions, NEW address \in Address,
             At(pos).rw \/ (debug /\ ~locked),
             Replaced(pos, [At(pos) EXCEPT !.address = address])
      PROVE  LabelsKept
  <2>1. At(pos) \in Entry
    BY PositionType DEF TypeOK
  <2>2. At(pos)'.name = At(pos).name /\ At(pos)'.scope = At(pos).scope
    BY <1>2, <2>1 DEF Replaced, Entry
  <2> QED
    BY <1>2, <2>2 DEF Replaced, LabelsKept
<1>3. ASSUME NEW pos \in Positions,
             Replaced(pos, [At(pos) EXCEPT !.export = TRUE])
      PROVE  LabelsKept
  <2>1. At(pos) \in Entry
    BY PositionType DEF TypeOK
  <2>2. /\ At(pos)'.name = At(pos).name /\ At(pos)'.scope = At(pos).scope
        /\ At(pos)'.address = At(pos).address
    BY <1>3, <2>1 DEF Replaced, Entry
  <2> QED
    BY <1>3, <2>2 DEF Replaced, LabelsKept
<1>4. ASSUME NEW new, NEW e, ~locked, Added(new, e)
      PROVE  LabelsKept
  BY <1>4 DEF Added, LabelsKept
<1> QED
  BY <1>1, <1>2, <1>3, <1>4, StepEffect

(* No call drops, moves or renames a symbol; the address of a label is     *)
(* fixed when it is defined; after lock() the table only changes by .set   *)
(* of its own symbols (Symbols.cpp:98,109,186).                            *)
THEOREM LabelsFixed == Spec => LabelsStay
<1>1. Init => TypeOK
  BY TypeInit
<1>2. TypeOK /\ [Next]_vars => TypeOK'
  BY TypeStep
<1>3. TypeOK /\ [Next]_vars => [LabelsKept]_vars
  BY LabelsStep
<1> QED
  BY <1>1, <1>2, <1>3, PTL DEF Spec, LabelsStay, LabelsKept

----------------------------------------------------------------------------

(* The pools implement the table of SymbolTable: what an entry stands for. *)
KeyOf(e) == <<e.scope, e.name>>
Value(e) == [address |-> e.address, rw |-> e.rw, export |-> e.export]

(* With unique keys the first entry of a key is its only one. *)
BindingFacts ==
  /\ DOMAIN Binding = {KeyOf(At(pos)) : pos \in Positions}
  /\ Binding = [k \in DOMAIN Binding |-> Binding[k]]
  /\ \A pos \in Positions : Binding[KeyOf(At(pos))] = Value(At(pos))

LEMMA BindingMeaning == TypeOK /\ UniqueKeys => BindingFacts
<1> SUFFICES ASSUME TypeOK, UniqueKeys PROVE BindingFacts
  OBVIOUS
<1>1. Keys = {KeyOf(At(pos)) : pos \in Positions}
  BY DEF Keys, KeyOf
<1>2. Binding = [k \in Keys |-> Value(At(First(Matches(k[1], k[2]))))]
  BY DEF Binding, Value
<1>3. ASSUME NEW pos \in Positions
      PROVE  Binding[KeyOf(At(pos))] = Value(At(pos))
  <2> DEFINE S == Matches(At(pos).scope, At(pos).name)
  <2>1. pos \in S /\ S \subseteq Positions
    BY DEF Matches
  <2>2. First(S) \in S
    BY <2>1, FirstIn DEF TypeOK
  <2>3. \A x \in S : x = pos
    BY <2>1 DEF Matches, UniqueKeys
  <2>4. First(S) = pos
    BY <2>2, <2>3
  <2>5. KeyOf(At(pos)) \in Keys
    BY <1>1
  <2>6. KeyOf(At(pos))[1] = At(pos).scope /\ KeyOf(At(pos))[2] = At(pos).name
    BY DEF KeyOf
  <2> HIDE DEF S
  <2>7. S = Matches(KeyOf(At(pos))[1], KeyOf(At(pos))[2])
    BY <2>6 DEF S
  <2> QED
    BY <1>2, <2>4, <2>5, <2>7
<1> QED
  BY <1>1, <1>2, <1>3 DEF BindingFacts

LEMMA BindingKept ==
  ASSUME pools' = pools
  PROVE  Binding' = Binding
BY DEF Binding, Keys, Positions, Matches, At, First

LEMMA BindingReplaced ==
  ASSUME BindingFacts, BindingFacts',
         NEW pos, NEW e, Replaced(pos, e), KeyOf(e) = KeyOf(At(pos))
  PROVE  Binding' = [Binding EXCEPT ![KeyOf(At(pos))] = Value(e)]
<1>1. \A x \in Positions : KeyOf(At(x)') = KeyOf(At(x))
  BY DEF Replaced
<1>2. DOMAIN Binding' = DOMAIN Binding
  BY <1>1 DEF BindingFacts, Replaced, KeyOf
<1>3. ASSUME NEW k \in DOMAIN Binding
      PROVE  Binding'[k] = [Binding EXCEPT ![KeyOf(At(pos))] = Value(e)][k]
  <2>1. PICK x \in Positions : k = KeyOf(At(x))
    BY DEF BindingFacts
  <2>2. Binding'[KeyOf(At(x)')] = Value(At(x)')
    BY DEF BindingFacts, Replaced, KeyOf, Value
  <2>3. CASE x = pos
    BY <1>1, <2>1, <2>2, <2>3 DEF Replaced
  <2>4. CASE k = KeyOf(At(pos))
    <3>1. Binding'[KeyOf(At(pos)')] = Value(At(pos)')
      BY DEF BindingFacts, Replaced, KeyOf, Value
    <3> QED
      BY <1>1, <2>4, <3>1 DEF Replaced
  <2>5. CASE k # KeyOf(At(pos))
    <3>1. x # pos
      BY <2>1, <2>5
    <3>2. At(x)' = At(x)
      BY <3>1 DEF Replaced
    <3>3. Binding[k] = Value(At(x))
      BY <2>1 DEF BindingFacts
    <3> QED
      BY <2>1, <2>2, <2>5, <3>2, <3>3
  <2> QED
    BY <2>4, <2>5
<1> QED
  BY <1>2, <1>3 DEF BindingFacts

LEMMA BindingAdded ==
  ASSUME BindingFacts, BindingFacts',
         NEW new, NEW e, Added(new, e)
  PROVE  Binding' = Table!WithBinding(KeyOf(e), Value(e))
<1> DEFINE f == Table!WithBinding(KeyOf(e), Value(e))
<1>1. /\ DOMAIN f = {KeyOf(e)} \cup DOMAIN Binding
      /\ f = [k \in DOMAIN f |-> f[k]]
      /\ f[KeyOf(e)] = Value(e)
      /\ \A k \in DOMAIN Binding \ {KeyOf(e)} : f[k] = Binding[k]
  BY DEF Table!WithBinding
<1> HIDE DEF f
<1>2. DOMAIN Binding' = DOMAIN f
  BY <1>1 DEF BindingFacts, Added, KeyOf
<1>3. ASSUME NEW k \in DOMAIN f
      PROVE  Binding'[k] = f[k]
  <2>1. CASE k = KeyOf(e)
    <3>1. Binding'[KeyOf(At(new)')] = Value(At(new)')
      BY DEF BindingFacts, Added, KeyOf, Value
    <3> QED
      BY <1>1, <2>1, <3>1 DEF Added
  <2>2. CASE k # KeyOf(e)
    <3>1. PICK x \in Positions : k = KeyOf(At(x))
      BY <1>1, <2>2 DEF BindingFacts
    <3>2. At(x)' = At(x) /\ x \in Positions'
      BY <3>1 DEF Added
    <3>3. Binding'[KeyOf(At(x)')] = Value(At(x)')
      BY <3>2 DEF BindingFacts, KeyOf, Value
    <3>4. Binding[k] = Value(At(x))
      BY <3>1 DEF BindingFacts
    <3> QED
      BY <1>1, <2>2, <3>1, <3>2, <3>3, <3>4
  <2> QED
    BY <2>1, <2>2
<1>4. Binding' = [k \in DOMAIN Binding' |-> Binding'[k]]
  BY DEF BindingFacts
<1>5. Binding' = f
  BY <1>1, <1>2, <1>3, <1>4
<1> QED
  BY <1>5 DEF f

(* The table binds a name just when find() finds an entry, to that entry. *)
LEMMA FindDenotes ==
  ASSUME pools \in Seq(Pool), NEW name, NEW pos \in Find(name)
  PROVE  /\ Table!Bound(name)
         /\ Table!Denotes(name) = KeyOf(At(pos))
         /\ Table!Denotes(name)[1] = At(pos).scope
<1> DEFINE local == IF in_scope THEN Matches(current_scope, name) ELSE {}
           found == IF local # {} THEN local ELSE Matches(0, name)
<1>1. found # {} /\ pos = First(found)
  BY DEF Find
<1>2. found \subseteq Positions
  BY DEF Matches
<1>3. pos \in found
  <2> HIDE DEF found
  <2> QED
    BY <1>1, <1>2, FirstIn
<1>4. KeyOf(At(pos)) \in DOMAIN Binding
  BY <1>2, <1>3 DEF Binding, Keys, KeyOf
<1>5. Table!Denotes(name) = KeyOf(At(pos))
  <2>1. CASE local # {}
    BY <1>3, <1>4, <2>1 DEF Table!Denotes, KeyOf, Matches
  <2>2. CASE local = {}
    <3>1. in_scope => <<current_scope, name>> \notin DOMAIN Binding
      BY <2>2 DEF Binding, Keys, Matches
    <3> QED
      BY <1>3, <2>2, <3>1 DEF Table!Denotes, KeyOf, Matches
  <2> QED
    BY <2>1, <2>2
<1> QED
  BY <1>4, <1>5 DEF Table!Bound, KeyOf

LEMMA FindUnbound ==
  ASSUME NEW name, Find(name) = {}
  PROVE  ~Table!Bound(name)
BY FindNothing DEF Table!Bound, Table!Denotes, Binding, Keys, Matches

----------------------------------------------------------------------------

(* The refinement, one lemma for each call. *)
LEMMA ScopesAgree == ScopesFit /\ TypeOK => ScopeHere = Table!ScopeHere
BY SymbolsAssumption DEF ScopesFit, TypeOK, ScopeHere, Table!ScopeHere

LEMMA ClashesAgree ==
  ASSUME pools \in Seq(Pool), NEW name
  PROVE  Clash(name) <=> Table!Clash(name)
<1>1. CASE Find(name) = {}
  BY <1>1, FindUnbound DEF Clash, Table!Clash
<1>2. CASE Find(name) # {}
  <2>1. PICK pos \in Find(name) : TRUE
    BY <1>2
  <2>2. Find(name) = {pos}
    BY <2>1, FindResult
  <2> QED
    BY <2>1, <2>2, FindDenotes DEF Clash, Table!Clash
<1> QED
  BY <1>1, <1>2

LEMMA AddressChanged ==
  ASSUME TypeOK, BindingFacts, BindingFacts', NEW name, NEW address \in Address,
         NEW pos \in Find(name), pools' = WithAddress(pos, address)
  PROVE  Binding' = [Binding EXCEPT ![Table!Denotes(name)].address = address]
<1> DEFINE e == [At(pos) EXCEPT !.address = address]
<1>1. pos \in Positions
  BY FindResult DEF TypeOK
<1>2. At(pos) \in Entry
  BY <1>1, PositionType DEF TypeOK
<1>3. Replaced(pos, e)
  BY <1>1, WithAddressKeeps DEF Replaced, TypeOK
<1>4. KeyOf(e) = KeyOf(At(pos)) /\ Value(e) = [Value(At(pos)) EXCEPT !.address = address]
  BY <1>2 DEF KeyOf, Value, Entry
<1> HIDE DEF e
<1>5. Binding' = [Binding EXCEPT ![KeyOf(At(pos))] = Value(e)]
  BY <1>3, <1>4, BindingReplaced
<1>6. Binding[KeyOf(At(pos))] = Value(At(pos))
  BY <1>1 DEF BindingFacts
<1> QED
  BY <1>4, <1>5, <1>6, FindDenotes DEF TypeOK

LEMMA TableAppend ==
  ASSUME ScopesFit, TypeOK, BindingFacts, BindingFacts',
         NEW name \in Name, NEW address \in Address, AppendSymbol(name, address)
  PROVE  Table!Append(name, address)
<1>1. UNCHANGED Table!Control /\ UNCHANGED fault /\ ~fault
  BY DEF AppendSymbol, Control, Table!Control
<1>2. CASE locked /\ reply' = Ok /\ UNCHANGED pools
  <2>1. Binding' = Binding
    BY <1>2, BindingKept
  <2> QED
    BY <1>1, <1>2, <2>1 DEF Table!Append, Ok, Answer, Table!Ok, Table!Answer
<1>3. CASE /\ ~locked /\ debug
           /\ \E pos \in Find(name) : pools' = WithAddress(pos, address)
           /\ reply' = Ok
  <2>1. PICK pos \in Find(name) : pools' = WithAddress(pos, address)
    BY <1>3
  <2>2. Binding' = [Binding EXCEPT ![Table!Denotes(name)].address = address]
    BY <2>1, AddressChanged
  <2>3. Table!Bound(name)
    BY FindDenotes DEF TypeOK
  <2> QED
    BY <1>1, <1>3, <2>2, <2>3 DEF Table!Append, Ok, Answer, Table!Ok, Table!Answer
<1>4. CASE /\ ~locked
           /\ \/ ~debug /\ Clash(name)
              \/ ~(debug /\ Find(name) # {}) /\ NameLen[name] > MaxNameLen
           /\ reply' = Failed
           /\ UNCHANGED pools
  <2>1. Binding' = Binding
    BY <1>4, BindingKept
  <2>2. Clash(name) => Table!Clash(name)
    BY ClashesAgree DEF TypeOK
  <2>3. Find(name) = {} => ~Table!Bound(name)
    BY FindUnbound
  <2> QED
    BY <1>1, <1>4, <2>1, <2>2, <2>3
    DEF Table!Append, Failed, Answer, Table!Failed, Table!Answer
<1>5. CASE /\ ~locked /\ ~(debug /\ Find(name) # {}) /\ ~Clash(name)
           /\ NameLen[name] <= MaxNameLen
           /\ pools' = WithEntry(NewEntry(name, ScopeHere, address, FALSE))
           /\ reply' = Ok
  <2> DEFINE e == NewEntry(name, ScopeHere, address, FALSE)
  <2>1. e \in Entry
    <3>1. ScopeHere \in 0 .. ScopeSize - 1
      BY SymbolsAssumption DEF ScopeHere, TypeOK
    <3> QED
      BY <3>1 DEF NewEntry, Entry
  <2>2. PICK new : Added(new, e)
    <3> HIDE DEF e
    <3>1. pools' = WithEntry(e)
      BY <1>5 DEF e
    <3> QED
      BY <2>1, <3>1, WithEntryKeeps DEF Added, TypeOK
  <2>3. Binding' = Table!WithBinding(KeyOf(e), Value(e))
    <3> HIDE DEF e
    <3> QED
      BY <2>2, BindingAdded
  <2>4. KeyOf(e) = <<Table!ScopeHere, name>> /\ Value(e) = Table!NewSymbol(address, FALSE)
    BY ScopesAgree DEF KeyOf, Value, NewEntry, Table!NewSymbol
  <2>5. Binding' = Table!WithLabel(name, address)
    <3> HIDE DEF e
    <3> QED
      BY <2>3, <2>4 DEF Table!WithLabel
  <2>6. ~Table!Clash(name)
    BY <1>5, ClashesAgree DEF TypeOK
  <2>7. ~(debug /\ Table!Bound(name))
    <3>1. CASE Find(name) = {}
      BY <3>1, FindUnbound
    <3>2. CASE ~debug
      BY <3>2
    <3> QED
      BY <1>5, <3>1, <3>2
  <2>8. ~(NameLen[name] > MaxNameLen)
    BY <1>5, SymbolsAssumption
  <2> QED
    BY <1>1, <1>5, <2>5, <2>6, <2>7, <2>8
    DEF Table!Append, Ok, Answer, Table!Ok, Table!Answer
<1> QED
  BY <1>2, <1>3, <1>4, <1>5 DEF AppendSymbol

LEMMA TableSet ==
  ASSUME ScopesFit, TypeOK, BindingFacts, BindingFacts',
         NEW name \in Name, NEW address \in Address, SetSymbol(name, address)
  PROVE  Table!Set(name, address)
<1>1. UNCHANGED Table!Control /\ ~fault
  BY DEF SetSymbol, Control, Table!Control
<1>2. ASSUME NEW pos \in Find(name), UNCHANGED fault,
             \/ /\ Writable(pos)
                /\ pools' = WithAddress(pos, address)
                /\ reply' = Ok
             \/ /\ ~Writable(pos)
                /\ reply' = Failed
                /\ UNCHANGED pools
      PROVE  Table!Set(name, address)
  <2>1. Table!Bound(name) /\ Table!Denotes(name) = KeyOf(At(pos))
    BY FindDenotes DEF TypeOK
  <2>2. pos \in Positions
    BY FindResult DEF TypeOK
  <2>3. Binding[Table!Denotes(name)].rw = At(pos).rw
    <3>1. Binding[KeyOf(At(pos))] = Value(At(pos))
      BY <2>2 DEF BindingFacts
    <3> QED
      BY <2>1, <3>1 DEF Value
  <2>4. CASE Writable(pos)
    <3>1. pools' = WithAddress(pos, address) /\ reply' = Ok
      BY <1>2, <2>4
    <3>2. Binding' = [Binding EXCEPT ![Table!Denotes(name)].address = address]
      BY <3>1, AddressChanged
    <3> QED
      BY <1>1, <1>2, <2>1, <2>3, <2>4, <3>1, <3>2
      DEF Writable, Table!Set, Ok, Answer, Table!Ok, Table!Answer
  <2>5. CASE ~Writable(pos)
    <3>1. Binding' = Binding
      BY <1>2, <2>5, BindingKept
    <3> QED
      BY <1>1, <1>2, <2>1, <2>3, <2>5, <3>1
      DEF Writable, Table!Set, Failed, Answer, Table!Failed, Table!Answer
  <2> QED
    BY <2>4, <2>5
<1>3. ASSUME Find(name) = {}, ~locked, UNCHANGED fault,
             NameLen[name] > MaxNameLen, reply' = Failed, UNCHANGED pools
      PROVE  Table!Set(name, address)
  BY <1>1, <1>3, FindUnbound, BindingKept
  DEF Table!Set, Failed, Answer, Table!Failed, Table!Answer
<1>4. ASSUME Find(name) = {}, ~locked, UNCHANGED fault,
             NameLen[name] <= MaxNameLen,
             pools' = WithEntry(NewEntry(name, 0, address, TRUE)), reply' = Ok
      PROVE  Table!Set(name, address)
  <2> DEFINE e == NewEntry(name, 0, address, TRUE)
  <2>1. e \in Entry
    BY SymbolsAssumption DEF NewEntry, Entry
  <2>2. KeyOf(e) = <<0, name>> /\ Value(e) = Table!NewSymbol(address, TRUE)
    BY DEF KeyOf, Value, NewEntry, Table!NewSymbol
  <2>3. pools' = WithEntry(e)
    BY <1>4
  <2> HIDE DEF e
  <2>4. PICK new : Added(new, e)
    BY <2>1, <2>3, WithEntryKeeps DEF Added, TypeOK
  <2>5. Binding' = Table!WithBinding(<<0, name>>, Table!NewSymbol(address, TRUE))
    BY <2>2, <2>4, BindingAdded
  <2>6. ~(NameLen[name] > MaxNameLen)
    BY <1>4, SymbolsAssumption
  <2> QED
    BY <1>1, <1>4, <2>5, <2>6, FindUnbound
    DEF Table!Set, Ok, Answer, Table!Ok, Table!Answer
<1>5. ASSUME Find(name) = {}, locked, fault' = TRUE, UNCHANGED <<pools, reply>>
      PROVE  Table!Set(name, address)
  BY <1>1, <1>5, FindUnbound, BindingKept DEF Table!Set
<1>6. FoundAgain
  BY SymbolsAssumption DEF ScopesFit, TypeOK, ScopeHere, FoundAgain
<1> QED
  BY <1>2, <1>3, <1>4, <1>5, <1>6 DEF SetSymbol

LEMMA ExportOf ==
  ASSUME NEW e \in Entry, NEW export \in BOOLEAN
  PROVE  /\ KeyOf([e EXCEPT !.export = export]) = KeyOf(e)
         /\ Value([e EXCEPT !.export = export]) = [Value(e) EXCEPT !.export = export]
BY DEF KeyOf, Value, Entry

LEMMA TableExport ==
  ASSUME TypeOK, BindingFacts, BindingFacts', NEW name \in Name, ExportSymbol(name)
  PROVE  Table!ExportSymbol(name)
<1>1. UNCHANGED Table!Control /\ UNCHANGED fault /\ ~fault
  BY DEF ExportSymbol, Control, Table!Control
<1>2. ASSUME NEW pos \in Find(name), Exportable(pos), reply' = Ok,
             pools' = [pools EXCEPT ![pos[1]].entries[pos[2]].export = TRUE]
      PROVE  Table!ExportSymbol(name)
  <2> DEFINE e == [At(pos) EXCEPT !.export = TRUE]
  <2>1. Table!Bound(name) /\ Table!Denotes(name) = KeyOf(At(pos))
        /\ Table!Denotes(name)[1] = 0
    BY <1>2, FindDenotes DEF TypeOK, Exportable
  <2>2. pos \in Positions
    BY FindResult DEF TypeOK
  <2>3. At(pos) \in Entry
    BY <2>2, PositionType DEF TypeOK
  <2>4. Replaced(pos, e)
    BY <1>2, <2>2, WithExportKeeps DEF Replaced, TypeOK
  <2>5. KeyOf(e) = KeyOf(At(pos)) /\ Value(e) = [Value(At(pos)) EXCEPT !.export = TRUE]
    BY <2>3, ExportOf
  <2> HIDE DEF e
  <2>6. Binding' = [Binding EXCEPT ![KeyOf(At(pos))] = Value(e)]
    BY <2>4, <2>5, BindingReplaced
  <2>7. Binding[KeyOf(At(pos))] = Value(At(pos))
    BY <2>2 DEF BindingFacts
  <2>8. Binding' = [Binding EXCEPT ![Table!Denotes(name)].export = TRUE]
    BY <2>1, <2>5, <2>6, <2>7
  <2> QED
    BY <1>1, <1>2, <2>1, <2>8 DEF Table!ExportSymbol, Ok, Answer, Table!Ok, Table!Answer
<1>3. ASSUME \A pos \in Find(name) : ~Exportable(pos), reply' = Failed, UNCHANGED pools
      PROVE  Table!ExportSymbol(name)
  <2>1. ~(Table!Bound(name) /\ Table!Denotes(name)[1] = 0)
    <3>1. CASE Find(name) = {}
      BY <3>1, FindUnbound
    <3>2. CASE Find(name) # {}
      BY <1>3, <3>2, FindDenotes DEF TypeOK, Exportable
    <3> QED
      BY <3>1, <3>2
  <2> QED
    BY <1>1, <1>3, <2>1, BindingKept
    DEF Table!ExportSymbol, Failed, Answer, Table!Failed, Table!Answer
<1> QED
  BY <1>2, <1>3 DEF ExportSymbol

LEMMA TableLookup ==
  ASSUME TypeOK, BindingFacts, NEW name \in Name, Lookup(name)
  PROVE  Table!Lookup(name)
<1>1. UNCHANGED Table!Control /\ UNCHANGED fault /\ ~fault /\ Binding' = Binding
  BY BindingKept DEF Lookup, Control, Table!Control
<1>2. ASSUME NEW pos \in Find(name), reply' = Answer(0, At(pos).address)
      PROVE  Table!Lookup(name)
  <2>1. Table!Bound(name) /\ Table!Denotes(name) = KeyOf(At(pos))
    BY FindDenotes DEF TypeOK
  <2>2. Binding[Table!Denotes(name)].address = At(pos).address
    <3>1. Binding[KeyOf(At(pos))] = Value(At(pos))
      BY FindResult DEF BindingFacts, TypeOK
    <3> QED
      BY <2>1, <3>1 DEF Value
  <2> QED
    BY <1>1, <1>2, <2>1, <2>2 DEF Table!Lookup, Answer, Table!Answer
<1>3. ASSUME Find(name) = {}, reply' = Failed
      PROVE  Table!Lookup(name)
  BY <1>1, <1>3, FindUnbound DEF Table!Lookup, Failed, Answer, Table!Failed, Table!Answer
<1> QED
  BY <1>2, <1>3 DEF Lookup

LEMMA TableNext ==
  ASSUME ScopesFit, TypeOK, BindingFacts, BindingFacts', [Next]_vars
  PROVE  [Table!Next]_Table!vars
<1>1. ASSUME NEW name \in Name, NEW address \in Address,
             AppendSymbol(name, address) \/ SetSymbol(name, address)
      PROVE  Table!Next
  BY <1>1, TableAppend, TableSet DEF Table!Next
<1>2. ASSUME NEW name \in Name, ExportSymbol(name) \/ Lookup(name)
      PROVE  Table!Next
  BY <1>2, TableExport, TableLookup DEF Table!Next
<1>3. CASE ScopeStart \/ ScopeEnd \/ ScopeReset \/ Lock \/ SetDebug
  <2>1. Binding' = Binding
    BY <1>3, OtherEffect, BindingKept
  <2>2. CASE ScopeStart
    BY <2>1, <2>2 DEF ScopeStart, Table!ScopeStart, Table!Next, Control, Table!Control,
                      Ok, Failed, Answer, Table!Ok, Table!Failed, Table!Answer
  <2>3. CASE ScopeEnd \/ ScopeReset
    BY <2>1, <2>3 DEF ScopeEnd, ScopeReset, Table!ScopeEnd, Table!ScopeReset, Table!Next
  <2>4. CASE Lock \/ SetDebug
    BY <2>1, <2>4 DEF Lock, SetDebug, Table!Lock, Table!SetDebug, Table!Next
  <2> QED
    BY <1>3, <2>2, <2>3, <2>4
<1>4. CASE UNCHANGED vars
  <2>1. Binding' = Binding
    BY <1>4, BindingKept DEF vars
  <2> QED
    BY <1>4, <2>1 DEF vars, Table!vars
<1> QED
  BY <1>1, <1>2, <1>3, <1>4 DEF Next

LEMMA TableInit == Init => Table!Init
<1> SUFFICES ASSUME Init PROVE Table!Init
  OBVIOUS
<1>1. Positions = {}
  BY DEF Init, Positions
<1>2. Keys = {}
  BY <1>1 DEF Keys
<1>3. Binding = << >>
  BY <1>2 DEF Binding
<1> QED
  BY <1>3 DEF Init, Table!Init, Ok, Answer, Table!Ok, Table!Answer

(* The scan of pools of byte records does what the scoped map promises,    *)
(* replies included (Symbols.cpp:45-263), as long as the program opens     *)
(* fewer scopes than Entry::scope can number.                              *)
THEOREM TableImplemented == ASSUME ScopesFit PROVE Spec => ImplementsTable
<1>1. Init => TypeOK /\ UniqueKeys
  BY TypeInit DEF Init, UniqueKeys, Positions
<1>2. TypeOK /\ UniqueKeys /\ [Next]_vars => (TypeOK /\ UniqueKeys)'
  BY TypeStep, UniqueStep
<1>3. TypeOK /\ BindingFacts /\ BindingFacts' /\ [Next]_vars => [Table!Next]_Table!vars
  BY TableNext
<1> QED
  BY <1>1, <1>2, <1>3, BindingMeaning, TableInit, PTL
  DEF Spec, ImplementsTable, Table!Spec
============================================================================
