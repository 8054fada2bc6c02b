---------------------------- MODULE MachineProofs ---------------------------
(***************************************************************************)
(* Theorems about the machine a program is assembled for: first the memory *)
(* image (Memory.tla), then the simulators (Simulator.tla).                *)
(*                                                                         *)
(* The memory.  A page starts at a multiple of its size, so it             *)
(* holds exactly the addresses whose PageBase it starts at.  Therefore at  *)
(* most one page holds an address, whichever of the scans looks for it,    *)
(* and below the last page, where the sums of 32 and of 64 bits agree, a   *)
(* write changes one cell of what is read: the pages are a flat memory.    *)
(***************************************************************************)
EXTENDS Memory, Simulator, TLAPS

LEMMA DivBound ==
  ASSUME NEW a \in Nat, NEW p \in Nat \ {0}
  PROVE  /\ a \div p \in Nat
         /\ (a \div p) * p <= a
         /\ a < (a \div p) * p + p
OBVIOUS

LEMMA DivOf ==
  ASSUME NEW q \in Nat, NEW p \in Nat \ {0}
  PROVE  (q * p) \div p = q
OBVIOUS

LEMMA MultipleUnique ==
  ASSUME NEW q \in Nat, NEW r \in Nat, NEW p \in Nat \ {0}, NEW a \in Nat,
         q * p <= a, a < q * p + p, r * p <= a, a < r * p + p
  PROVE  q = r
<1>1. ~(q < r)
  <2>1. SUFFICES ASSUME q < r PROVE FALSE
    OBVIOUS
  <2>2. q + 1 <= r
    BY <2>1
  <2>3. (q + 1) * p <= r * p
    BY <2>2
  <2>4. (q + 1) * p = q * p + p
    OBVIOUS
  <2> QED
    BY <2>3, <2>4
<1>2. ~(r < q)
  <2>1. SUFFICES ASSUME r < q PROVE FALSE
    OBVIOUS
  <2>2. r + 1 <= q
    BY <2>1
  <2>3. (r + 1) * p <= q * p
    BY <2>2
  <2>4. (r + 1) * p = r * p + p
    OBVIOUS
  <2> QED
    BY <2>3, <2>4
<1> QED
  BY <1>1, <1>2

Cell == 0 .. Space - 1

LEMMA PageBaseFacts ==
  ASSUME NEW a \in Cell
  PROVE  /\ PageBase(a) \in Cell /\ PageBase(a) <= a /\ a < PageBase(a) + PageSize
         /\ PageBase(a) + PageSize <= Space
         /\ PageBase(PageBase(a)) = PageBase(a)
<1> DEFINE q == a \div PageSize
           n == Space \div PageSize
<1>1. /\ PageSize \in Nat \ {0} /\ Space \in Nat \ {0} /\ a \in Nat /\ a < Space
      /\ Space % PageSize = 0
  BY MemoryAssumption DEF Cell
<1>2. q \in Nat /\ q * PageSize <= a /\ a < q * PageSize + PageSize
  BY <1>1, DivBound
<1>3. n \in Nat /\ Space = n * PageSize
  BY <1>1
<1>4. (q * PageSize) \div PageSize = q
  BY <1>1, <1>2, DivOf
<1>5. PageBase(a) = q * PageSize
  BY DEF PageBase
<1> HIDE DEF q, n
<1>6. q + 1 <= n
  <2>1. SUFFICES ASSUME n <= q PROVE FALSE
    BY <1>2, <1>3
  <2>2. n * PageSize <= q * PageSize
    BY <1>1, <1>2, <1>3, <2>1
  <2> QED
    BY <1>1, <1>2, <1>3, <2>2
<1>7. (q + 1) * PageSize <= n * PageSize /\ (q + 1) * PageSize = q * PageSize + PageSize
  BY <1>1, <1>2, <1>3, <1>6
<1>8. q * PageSize \in Nat
  BY <1>1, <1>2
<1>9. PageBase(PageBase(a)) = PageBase(a)
  BY <1>4, <1>5 DEF PageBase
<1> QED
  BY <1>1, <1>2, <1>3, <1>5, <1>7, <1>8, <1>9 DEF Cell

(* A page holds the addresses of its base, with ends of 64 bits. *)
LEMMA HeldByBase ==
  ASSUME NEW c \in Cell, PageBase(c) = c, NEW a \in Cell
  PROVE  c <= a /\ a < c + PageSize <=> c = PageBase(a)
<1>1. /\ PageSize \in Nat \ {0} /\ a \in Nat /\ c \in Nat
  BY MemoryAssumption DEF Cell
<1>2. c = PageBase(a) => c <= a /\ a < c + PageSize
  BY PageBaseFacts
<1>3. ASSUME c <= a, a < c + PageSize
      PROVE  c = PageBase(a)
  <2> DEFINE q == c \div PageSize
             r == a \div PageSize
  <2>1. q \in Nat /\ r \in Nat /\ r * PageSize <= a /\ a < r * PageSize + PageSize
    BY <1>1, DivBound
  <2>2. c = q * PageSize /\ PageBase(a) = r * PageSize
    BY DEF PageBase
  <2> HIDE DEF q, r
  <2>3. q * PageSize <= a /\ a < q * PageSize + PageSize
    BY <1>3, <2>2
  <2>4. q = r
    BY <1>1, <2>1, <2>3, MultipleUnique
  <2> QED
    BY <2>2, <2>4
<1> QED
  BY <1>2, <1>3

LEMMA InPageFacts ==
  ASSUME NEW page \in Page, PageBase(page.address) = page.address, NEW a \in Cell
  PROVE  /\ InPage64(page, a) <=> page.address = PageBase(a)
         /\ InPage32(page, a) <=> page.address = PageBase(a)
                                    /\ PageBase(a) + PageSize # Space
<1> DEFINE c == page.address
<1>1. c \in Cell
  BY DEF Page, Cell
<1>2. c <= a /\ a < c + PageSize <=> c = PageBase(a)
  BY <1>1, HeldByBase
<1>3. c + PageSize <= Space
  BY <1>1, PageBaseFacts
<1>4. /\ PageSize \in Nat \ {0} /\ Space \in Nat \ {0} /\ a \in Nat /\ c \in Nat
      /\ PageBase(a) \in Nat
  BY <1>1, MemoryAssumption, PageBaseFacts DEF Cell
<1>5. InPage64(page, a) <=> c <= a /\ a < c + PageSize
  BY DEF InPage64
<1>6. CASE c + PageSize = Space
  <2>1. (c + PageSize) % Space = 0
    BY <1>4, <1>6
  <2>2. ~InPage32(page, a)
    BY <1>4, <2>1 DEF InPage32
  <2>3. c = PageBase(a) => PageBase(a) + PageSize = Space
    BY <1>6
  <2> QED
    BY <1>2, <1>5, <2>2, <2>3
<1>7. CASE c + PageSize < Space
  <2>1. (c + PageSize) % Space = c + PageSize
    BY <1>4, <1>7
  <2>2. InPage32(page, a) <=> c <= a /\ a < c + PageSize
    BY <2>1 DEF InPage32
  <2>3. c = PageBase(a) => PageBase(a) + PageSize # Space
    BY <1>4, <1>7
  <2> QED
    BY <1>2, <1>5, <2>2, <2>3
<1> QED
  BY <1>3, <1>4, <1>6, <1>7

----------------------------------------------------------------------------

Covers(page) ==
  \A o \in Offset : page.bin[o] # 0 => page.offset_min <= o /\ o <= page.offset_max

Sound(page) == page \in Page /\ PageBase(page.address) = page.address /\ Covers(page)

(* Every page starts at a multiple of its size. *)
IInv ==
  /\ TypeOK
  /\ \A p \in DOMAIN pages : Sound(pages[p])
  /\ PagesDisjoint

LEMMA AddressInCell == \A a \in Address : a \in Cell
BY MemoryAssumption DEF Cell

LEMMA NewPageSound ==
  ASSUME NEW a \in Cell
  PROVE  Sound(NewPage(a)) /\ NewPage(a).address = PageBase(a)
<1>1. PageBase(a) \in 0 .. Space - 1 /\ PageBase(PageBase(a)) = PageBase(a)
  BY PageBaseFacts DEF Cell
<1>2. 0 \in Byte /\ 0 \in Offset /\ PageSize \in 0 .. PageSize
  BY MemoryAssumption DEF Offset
<1>3. [o \in Offset |-> 0] \in [Offset -> Byte]
  BY <1>2
<1>4. NewPage(a) \in Page
  BY <1>1, <1>2, <1>3 DEF NewPage, Page
<1>5. \A o \in Offset : NewPage(a).bin[o] = 0
  BY DEF NewPage
<1> QED
  BY <1>1, <1>4, <1>5 DEF Sound, Covers, NewPage

(* What set_data() and set_debug() do to a page. *)
LEMMA WithDataSound ==
  ASSUME NEW page, Sound(page), NEW a \in Cell, page.address = PageBase(a),
         NEW byte \in Byte
  PROVE  /\ Sound(WithData(page, a, byte))
         /\ WithData(page, a, byte).address = page.address
         /\ WithData(page, a, byte).bin = [page.bin EXCEPT ![a - PageBase(a)] = byte]
         /\ WithData(page, a, byte).debug_line = page.debug_line
<1> DEFINE o == a - PageBase(a)
           new == WithData(page, a, byte)
<1>1. o \in Offset
  BY PageBaseFacts, MemoryAssumption DEF Cell, Offset
<1>2. /\ page.address \in 0 .. Space - 1 /\ page.bin \in [Offset -> Byte]
      /\ page.debug_line \in [Offset -> Line \cup {-1}]
      /\ page.offset_min \in 0 .. PageSize /\ page.offset_max \in Offset
      /\ page \in Page
  BY DEF Sound, Page
<1>3. new = [address |-> page.address, bin |-> [page.bin EXCEPT ![o] = byte],
             debug_line |-> page.debug_line,
             offset_min |-> Lower(page, o), offset_max |-> Higher(page, o)]
  BY <1>2 DEF WithData, Stretched, Page
<1>4. Lower(page, o) \in 0 .. PageSize /\ Higher(page, o) \in Offset
  BY <1>1, <1>2, MemoryAssumption DEF Lower, Higher, Offset
<1>5. [page.bin EXCEPT ![o] = byte] \in [Offset -> Byte]
  BY <1>1, <1>2
<1> HIDE DEF o, new
<1>6. new \in Page
  BY <1>2, <1>3, <1>4, <1>5 DEF Page
<1>7. Covers(new)
  <2> SUFFICES ASSUME NEW x \in Offset, new.bin[x] # 0
               PROVE  new.offset_min <= x /\ x <= new.offset_max
    BY DEF Covers
  <2>1. new.offset_min = Lower(page, o) /\ new.offset_max = Higher(page, o)
    BY <1>3
  <2>2. x = o \/ page.bin[x] # 0
    BY <1>2, <1>3
  <2>3. page.bin[x] # 0 => page.offset_min <= x /\ x <= page.offset_max
    BY DEF Sound, Covers
  <2> QED
    BY <1>1, <1>2, <2>1, <2>2, <2>3, MemoryAssumption DEF Lower, Higher, Offset
<1> QED
  BY <1>3, <1>6, <1>7 DEF Sound, new, o

LEMMA WithDebugSound ==
  ASSUME NEW page, Sound(page), NEW a \in Cell, page.address = PageBase(a),
         NEW line \in Line
  PROVE  /\ Sound(WithDebug(page, a, line))
         /\ WithDebug(page, a, line).address = page.address
         /\ WithDebug(page, a, line).bin = page.bin
         /\ WithDebug(page, a, line).debug_line
              = [page.debug_line EXCEPT ![a - PageBase(a)] = line]
<1> DEFINE o == a - PageBase(a)
           new == WithDebug(page, a, line)
<1>1. o \in Offset
  BY PageBaseFacts, MemoryAssumption DEF Cell, Offset
<1>2. /\ page.address \in 0 .. Space - 1 /\ page.bin \in [Offset -> Byte]
      /\ page.debug_line \in [Offset -> Line \cup {-1}]
      /\ page.offset_min \in 0 .. PageSize /\ page.offset_max \in Offset
      /\ page \in Page
  BY DEF Sound, Page
<1>3. new = [address |-> page.address, bin |-> page.bin,
             debug_line |-> [page.debug_line EXCEPT ![o] = line],
             offset_min |-> Lower(page, o), offset_max |-> Higher(page, o)]
  BY <1>2 DEF WithDebug, Stretched, Page
<1>4. Lower(page, o) \in 0 .. PageSize /\ Higher(page, o) \in Offset
  BY <1>1, <1>2, MemoryAssumption DEF Lower, Higher, Offset
<1>5. [page.debug_line EXCEPT ![o] = line] \in [Offset -> Line \cup {-1}]
  BY <1>1, <1>2
<1> HIDE DEF o, new
<1>6. new \in Page
  BY <1>2, <1>3, <1>4, <1>5 DEF Page
<1>7. Covers(new)
  <2> SUFFICES ASSUME NEW x \in Offset, new.bin[x] # 0
               PROVE  new.offset_min <= x /\ x <= new.offset_max
    BY DEF Covers
  <2>1. new.offset_min = Lower(page, o) /\ new.offset_max = Higher(page, o)
    BY <1>3
  <2>2. page.bin[x] # 0
    BY <1>3
  <2>3. page.offset_min <= x /\ x <= page.offset_max
    BY <2>2 DEF Sound, Covers
  <2> QED
    BY <1>1, <1>2, <2>1, <2>3, MemoryAssumption DEF Lower, Higher, Offset
<1> QED
  BY <1>3, <1>6, <1>7 DEF Sound, new, o

LEMMA ClearedSound ==
  ASSUME NEW page, Sound(page)
  PROVE  /\ Sound(Cleared(page))
         /\ Cleared(page).address = page.address
         /\ Cleared(page).debug_line = page.debug_line
         /\ \A o \in Offset : Cleared(page).bin[o] = 0
<1>1. /\ page.address \in 0 .. Space - 1
      /\ page.debug_line \in [Offset -> Line \cup {-1}]
      /\ page \in Page
  BY DEF Sound, Page
<1>2. Cleared(page) = [address |-> page.address, bin |-> [o \in Offset |-> 0],
                       debug_line |-> page.debug_line,
                       offset_min |-> PageSize, offset_max |-> 0]
  BY <1>1 DEF Cleared, Page
<1>3. 0 \in Byte /\ 0 \in Offset /\ PageSize \in 0 .. PageSize
  BY MemoryAssumption DEF Offset
<1>4. Cleared(page) \in Page
  BY <1>1, <1>2, <1>3 DEF Page
<1> QED
  BY <1>2, <1>4 DEF Sound, Covers

----------------------------------------------------------------------------

(* The pages that hold an address: one at most. *)
Holding(a) == {p \in DOMAIN pages : pages[p].address = PageBase(a)}
OnLastPage(a) == PageBase(a) + PageSize = Space

LEMMA HoldingFacts ==
  ASSUME IInv, NEW a \in Cell
  PROVE  /\ Holding64(a) = Holding(a)
         /\ Holding32(a) = IF OnLastPage(a) THEN {} ELSE Holding(a)
<1>1. \A p \in DOMAIN pages :
        /\ InPage64(pages[p], a) <=> pages[p].address = PageBase(a)
        /\ InPage32(pages[p], a) <=> /\ pages[p].address = PageBase(a)
                                     /\ PageBase(a) + PageSize # Space
  BY InPageFacts DEF IInv, Sound
<1> QED
  BY <1>1 DEF Holding, Holding64, Holding32, OnLastPage

LEMMA FirstOfHolding ==
  ASSUME IInv, NEW a \in Cell, NEW p \in Holding(a)
  PROVE  Holding(a) = {p} /\ FirstOf(Holding(a)) = p
<1>1. Holding(a) = {p}
  BY DEF Holding, IInv, PagesDisjoint
<1>2. p \in Nat
  BY DEF Holding, IInv, TypeOK
<1>3. \A x \in {p} : (\A y \in {p} : x <= y) <=> x = p
  BY <1>2
<1>4. FirstOf({p}) = p
  BY <1>2, <1>3 DEF FirstOf
<1> QED
  BY <1>1, <1>4

(* write() allocates without end just for the last page. *)
LEMMA EndlessFacts ==
  ASSUME IInv, NEW a \in Cell
  PROVE  Endless(a) <=> OnLastPage(a)
<1>1. InPage32(NewPage(a), a) <=> ~OnLastPage(a)
  BY NewPageSound, InPageFacts DEF Sound, OnLastPage
<1>2. OnLastPage(a) => Holding32(a) = {}
  BY HoldingFacts
<1> QED
  BY <1>1, <1>2 DEF Endless

(* The page a write changes, as it was before. *)
Before(a) == IF Holding(a) = {} THEN NewPage(a) ELSE pages[FirstOf(Holding(a))]

LEMMA BeforeFacts ==
  ASSUME IInv, NEW a \in Cell
  PROVE  /\ Sound(Before(a)) /\ Before(a).address = PageBase(a)
         /\ Extended(Holding(a), a)[Found(Holding(a))] = Before(a)
<1>1. pages \in Seq(Page)
  BY DEF IInv, TypeOK
<1>2. CASE Holding(a) = {}
  <2>1. Before(a) = NewPage(a)
    BY <1>2 DEF Before
  <2>2. NewPage(a) \in Page
    BY NewPageSound DEF Sound
  <2>3. Append(pages, NewPage(a))[Len(pages) + 1] = NewPage(a)
    BY <1>1, <2>2
  <2> QED
    BY <1>2, <2>1, <2>3, NewPageSound DEF Extended, Found
<1>3. CASE Holding(a) # {}
  <2>1. PICK p \in Holding(a) : TRUE
    BY <1>3
  <2>2. FirstOf(Holding(a)) = p
    BY FirstOfHolding
  <2>3. p \in DOMAIN pages /\ pages[p].address = PageBase(a) /\ Sound(pages[p])
    BY DEF Holding, IInv
  <2> QED
    BY <1>3, <2>2, <2>3 DEF Before, Extended, Found
<1> QED
  BY <1>2, <1>3

(* A write changes one page, which it may have to append. *)
Changed(a, new) ==
  \E n \in DOMAIN pages' :
    /\ pages'[n] = new
    /\ DOMAIN pages \subseteq DOMAIN pages'
    /\ \A p \in DOMAIN pages' \ {n} : /\ p \in DOMAIN pages
                                      /\ pages'[p] = pages[p]
                                      /\ pages[p].address # PageBase(a)
    /\ Before(a) = IF n \in DOMAIN pages THEN pages[n] ELSE NewPage(a)

LEMMA Replace ==
  ASSUME NEW S, NEW s \in Seq(S), NEW n \in DOMAIN s, NEW v \in S
  PROVE  /\ [s EXCEPT ![n] = v] \in Seq(S)
         /\ DOMAIN [s EXCEPT ![n] = v] = DOMAIN s
         /\ [s EXCEPT ![n] = v][n] = v
         /\ \A p \in DOMAIN s \ {n} : [s EXCEPT ![n] = v][p] = s[p]
OBVIOUS

LEMMA WriteEffect ==
  ASSUME IInv, NEW a \in Cell, NEW new \in Page,
         pages' = [Extended(Holding(a), a) EXCEPT ![Found(Holding(a))] = new]
  PROVE  pages' \in Seq(Page) /\ Changed(a, new)
<1>1. pages \in Seq(Page) /\ Len(pages) \in Nat /\ DOMAIN pages = 1 .. Len(pages)
  BY DEF IInv, TypeOK
<1>2. CASE Holding(a) = {}
  <2> DEFINE n == Len(pages) + 1
             longer == Append(pages, NewPage(a))
  <2>1. NewPage(a) \in Page
    BY NewPageSound DEF Sound
  <2>2. /\ longer \in Seq(Page) /\ Len(longer) = n
        /\ \A p \in DOMAIN pages : p \in DOMAIN longer /\ longer[p] = pages[p]
    BY <1>1, <2>1
  <2>3. pages' = [longer EXCEPT ![n] = new]
    BY <1>2 DEF Extended, Found
  <2>4. n \in DOMAIN longer /\ \A p \in DOMAIN longer : p = n \/ p \in DOMAIN pages
    BY <1>1, <2>2
  <2> HIDE DEF longer
  <2>5. pages' \in Seq(Page) /\ DOMAIN pages' = DOMAIN longer
    <3> HIDE DEF n
    <3>1. /\ [longer EXCEPT ![n] = new] \in Seq(Page)
          /\ DOMAIN [longer EXCEPT ![n] = new] = DOMAIN longer
      BY <2>2, <2>4, Replace
    <3> QED
      BY <2>3, <3>1
  <2>6. n \notin DOMAIN pages
    BY <1>1
  <2> HIDE DEF n
  <2>7. pages'[n] = new /\ \A p \in DOMAIN longer \ {n} : pages'[p] = longer[p]
    BY <2>3, <2>4
  <2>8. \A p \in DOMAIN pages : pages[p].address # PageBase(a)
    BY <1>2 DEF Holding
  <2>9. Before(a) = NewPage(a)
    BY <1>2 DEF Before
  <2> QED
    BY <2>2, <2>4, <2>5, <2>6, <2>7, <2>8, <2>9 DEF Changed
<1>3. CASE Holding(a) # {}
  <2>1. PICK n \in Holding(a) : TRUE
    BY <1>3
  <2>2. FirstOf(Holding(a)) = n /\ Holding(a) = {n}
    BY FirstOfHolding
  <2>3. n \in DOMAIN pages
    BY DEF Holding
  <2>4. pages' = [pages EXCEPT ![n] = new]
    BY <1>3, <2>2 DEF Extended, Found
  <2>5. pages' \in Seq(Page) /\ DOMAIN pages' = DOMAIN pages /\ pages'[n] = new
    <3>1. /\ [pages EXCEPT ![n] = new] \in Seq(Page)
          /\ DOMAIN [pages EXCEPT ![n] = new] = DOMAIN pages
          /\ [pages EXCEPT ![n] = new][n] = new
      BY <1>1, <2>3, Replace
    <3> QED
      BY <2>4, <3>1
  <2>6. \A p \in DOMAIN pages \ {n} : pages'[p] = pages[p] /\ pages[p].address # PageBase(a)
    BY <2>2, <2>4 DEF Holding
  <2>7. Before(a) = pages[n]
    BY <1>3, <2>2 DEF Before
  <2> QED
    BY <2>3, <2>5, <2>6, <2>7 DEF Changed
<1> QED
  BY <1>2, <1>3

LEMMA ChangedSound ==
  ASSUME IInv, NEW a \in Cell, NEW new, Sound(new), new.address = PageBase(a),
         Changed(a, new)
  PROVE  (\A p \in DOMAIN pages : Sound(pages[p]))' /\ PagesDisjoint'
<1>1. PICK n \in DOMAIN pages' :
        /\ pages'[n] = new
        /\ \A p \in DOMAIN pages' \ {n} : /\ p \in DOMAIN pages
                                          /\ pages'[p] = pages[p]
                                          /\ pages[p].address # PageBase(a)
  BY DEF Changed
<1>2. \A p \in DOMAIN pages' : Sound(pages'[p])
  BY <1>1 DEF IInv
<1>3. \A p, q \in DOMAIN pages' : pages'[p].address = pages'[q].address => p = q
  <2> TAKE p, q \in DOMAIN pages'
  <2>1. CASE p # n /\ q # n
    BY <1>1, <2>1 DEF IInv, PagesDisjoint
  <2>2. CASE p = n \/ q = n
    BY <1>1, <2>2
  <2> QED
    BY <2>1, <2>2
<1>4. (\A p \in DOMAIN pages : Sound(pages[p]))'
  BY <1>2 DEF Sound, Covers, Page, Offset, PageBase
<1> QED
  BY <1>3, <1>4 DEF PagesDisjoint

----------------------------------------------------------------------------

(* What each of the writing calls does. *)
LEMMA Write8Effect ==
  ASSUME IInv, NEW a \in Cell, NEW byte \in Byte, Write8(a, byte)
  PROVE  LET new == WithData(Before(a), a, byte)
         IN  /\ Sound(new) /\ new.address = PageBase(a)
             /\ pages' \in Seq(Page) /\ Changed(a, new)
<1> DEFINE new == WithData(Before(a), a, byte)
<1>1. Sound(new) /\ new.address = PageBase(a)
  BY BeforeFacts, WithDataSound
<1>2. pages' = [Extended(Holding(a), a) EXCEPT ![Found(Holding(a))] = new]
  BY HoldingFacts, BeforeFacts DEF Write8
<1>3. new \in Page
  BY <1>1 DEF Sound
<1> HIDE DEF new
<1>4. pages' \in Seq(Page) /\ Changed(a, new)
  BY <1>2, <1>3, WriteEffect
<1> QED
  BY <1>1, <1>4 DEF new

LEMMA WriteCallEffect ==
  ASSUME IInv, NEW a \in Cell, NEW byte \in Byte, NEW line \in Line,
         Write(a, byte, line), ~OnLastPage(a)
  PROVE  LET new == WithDebug(WithData(Before(a), a, byte), a, line)
         IN  /\ Sound(new) /\ new.address = PageBase(a)
             /\ pages' \in Seq(Page) /\ Changed(a, new)
<1> DEFINE data == WithData(Before(a), a, byte)
           new == WithDebug(data, a, line)
<1>1. Sound(data) /\ data.address = PageBase(a)
  BY BeforeFacts, WithDataSound
<1>2. Sound(new) /\ new.address = PageBase(a)
  BY <1>1, WithDebugSound
<1>3. ~Hang(a)
  BY EndlessFacts DEF Hang
<1>4. pages' = [Extended(Holding(a), a) EXCEPT ![Found(Holding(a))] = new]
  BY <1>3, HoldingFacts, BeforeFacts DEF Write
<1>5. new \in Page
  BY <1>2 DEF Sound
<1> HIDE DEF new
<1>6. pages' \in Seq(Page) /\ Changed(a, new)
  BY <1>4, <1>5, WriteEffect
<1> QED
  BY <1>2, <1>6 DEF new

LEMMA WriteDebugEffect ==
  ASSUME IInv, NEW a \in Cell, NEW line \in Line,
         WriteDebug(a, line), ~OnLastPage(a)
  PROVE  LET new == WithDebug(Before(a), a, line)
         IN  /\ Sound(new) /\ new.address = PageBase(a)
             /\ pages' \in Seq(Page) /\ Changed(a, new)
<1> DEFINE new == WithDebug(Before(a), a, line)
<1>1. Sound(new) /\ new.address = PageBase(a)
  BY BeforeFacts, WithDebugSound
<1>2. ~Hang(a)
  BY EndlessFacts DEF Hang
<1>3. pages' = [Extended(Holding(a), a) EXCEPT ![Found(Holding(a))] = new]
  BY <1>2, HoldingFacts, BeforeFacts DEF WriteDebug
<1>4. new \in Page
  BY <1>1 DEF Sound
<1> HIDE DEF new
<1>5. pages' \in Seq(Page) /\ Changed(a, new)
  BY <1>3, <1>4, WriteEffect
<1> QED
  BY <1>1, <1>5 DEF new

(* clear() keeps the pages and their places. *)
LEMMA ClearEffect ==
  ASSUME IInv, Clear
  PROVE  /\ pages' \in Seq(Page) /\ DOMAIN pages' = DOMAIN pages
         /\ \A p \in DOMAIN pages : pages'[p] = Cleared(pages[p])
<1>1. pages \in Seq(Page) /\ Len(pages) \in Nat /\ DOMAIN pages = 1 .. Len(pages)
  BY DEF IInv, TypeOK
<1>2. pages' = [p \in 1 .. Len(pages) |-> Cleared(pages[p])]
  BY <1>1 DEF Clear
<1>3. \A p \in 1 .. Len(pages) : Cleared(pages[p]) \in Page
  BY <1>1, ClearedSound DEF IInv, Sound
<1>4. pages' \in [1 .. Len(pages) -> Page]
  BY <1>2, <1>3
<1>5. pages' \in Seq(Page)
  BY <1>1, <1>4
<1> QED
  BY <1>1, <1>2, <1>5

(* The invariant when one page changed. *)
LEMMA ChangedInv ==
  ASSUME IInv, NEW a \in Cell, NEW new, Sound(new), new.address = PageBase(a),
         Changed(a, new), pages' \in Seq(Page),
         low_address' \in Cell, high_address' \in Cell, hung' \in BOOLEAN
  PROVE  IInv'
BY ChangedSound DEF IInv, TypeOK, Cell, Page, Offset

(* The invariant when the pages did not change. *)
LEMMA UnchangedInv ==
  ASSUME IInv, pages' = pages,
         low_address' \in Cell, high_address' \in Cell, hung' \in BOOLEAN
  PROVE  IInv'
<1>1. TypeOK'
  BY DEF IInv, TypeOK, Cell, Page, Offset
<1>2. (\A p \in DOMAIN pages : Sound(pages[p]))'
  BY DEF IInv, Sound, Covers, Page, Offset, PageBase
<1> QED
  BY <1>1, <1>2 DEF IInv, PagesDisjoint

LEMMA CoverType ==
  ASSUME IInv, NEW a \in Cell, Cover(a)
  PROVE  low_address' \in Cell /\ high_address' \in Cell
BY DEF Cover, IInv, TypeOK, Cell

LEMMA InitInv == Init => IInv
<1> SUFFICES ASSUME Init PROVE IInv
  OBVIOUS
<1>1. pages = << >> /\ pages \in Seq(Page) /\ DOMAIN pages = {}
  BY DEF Init
<1>2. Space - 1 \in 0 .. Space - 1 /\ 0 \in 0 .. Space - 1
  BY MemoryAssumption
<1>3. TypeOK
  BY <1>1, <1>2 DEF Init, TypeOK
<1> QED
  BY <1>1, <1>3 DEF IInv, PagesDisjoint

LEMMA NextInv == IInv /\ [Next]_vars => IInv'
<1> SUFFICES ASSUME IInv, [Next]_vars PROVE IInv'
  OBVIOUS
<1>1. low_address \in Cell /\ high_address \in Cell /\ hung \in BOOLEAN
  BY DEF IInv, TypeOK, Cell
<1>2. ASSUME NEW a \in Address, NEW byte \in Byte, Write8(a, byte)
      PROVE  IInv'
  <2>1. a \in Cell
    BY AddressInCell
  <2>2. low_address' \in Cell /\ high_address' \in Cell /\ hung' = hung
    BY <1>2, <2>1, CoverType DEF Write8
  <2> QED
    BY <1>1, <1>2, <2>1, <2>2, Write8Effect, ChangedInv
<1>3. ASSUME NEW a \in Address, NEW byte \in Byte, NEW line \in Line,
             Write(a, byte, line)
      PROVE  IInv'
  <2>1. a \in Cell
    BY AddressInCell
  <2>2. CASE OnLastPage(a)
    <3>1. Hang(a)
      BY <1>3, <2>1, <2>2, EndlessFacts DEF Write
    <3> QED
      BY <1>1, <3>1, UnchangedInv DEF Hang
  <2>3. CASE ~OnLastPage(a)
    <3>1. Cover(a) /\ hung' = hung
      BY <1>3, <2>1, <2>3, EndlessFacts DEF Write, Hang
    <3>2. low_address' \in Cell /\ high_address' \in Cell
      BY <2>1, <3>1, CoverType
    <3> QED
      BY <1>1, <1>3, <2>1, <2>3, <3>1, <3>2, WriteCallEffect, ChangedInv
  <2> QED
    BY <2>2, <2>3
<1>4. ASSUME NEW a \in Address, NEW line \in Line, WriteDebug(a, line)
      PROVE  IInv'
  <2>1. a \in Cell
    BY AddressInCell
  <2>2. CASE OnLastPage(a)
    <3>1. Hang(a)
      BY <1>4, <2>1, <2>2, EndlessFacts DEF WriteDebug
    <3> QED
      BY <1>1, <3>1, UnchangedInv DEF Hang
  <2>3. CASE ~OnLastPage(a)
    <3>1. UNCHANGED <<low_address, high_address, hung>>
      BY <1>4, <2>1, <2>3, EndlessFacts DEF WriteDebug, Hang
    <3> QED
      BY <1>1, <1>4, <2>1, <2>3, <3>1, WriteDebugEffect, ChangedInv
  <2> QED
    BY <2>2, <2>3
<1>5. ASSUME NEW a \in Address, SetLowAddress(a) \/ SetHighAddress(a)
      PROVE  IInv'
  <2>1. a \in Cell
    BY AddressInCell
  <2> QED
    BY <1>1, <1>5, <2>1, UnchangedInv DEF SetLowAddress, SetHighAddress
<1>6. CASE Clear
  <2>1. /\ pages' \in Seq(Page) /\ DOMAIN pages' = DOMAIN pages
        /\ \A p \in DOMAIN pages : pages'[p] = Cleared(pages[p])
    BY <1>6, ClearEffect
  <2>2. \A p \in DOMAIN pages : /\ Sound(pages'[p])
                                /\ pages'[p].address = pages[p].address
    BY <2>1, ClearedSound DEF IInv
  <2>3. (\A p \in DOMAIN pages : Sound(pages[p]))'
    BY <2>1, <2>2 DEF Sound, Covers, Page, Offset, PageBase
  <2>4. PagesDisjoint'
    BY <2>1, <2>2 DEF IInv, PagesDisjoint
  <2>5. TypeOK'
    BY <1>1, <1>6, <2>1 DEF Clear, TypeOK, Cell, Page, Offset
  <2> QED
    BY <2>3, <2>4, <2>5 DEF IInv
<1>7. CASE UNCHANGED vars
  BY <1>1, <1>7, UnchangedInv DEF vars
<1> QED
  BY <1>2, <1>3, <1>4, <1>5, <1>6, <1>7 DEF Next

(* All fields keep their types: pages are pages, and the output range lies *)
(* in the address space (Memory.cpp:158-294).                              *)
THEOREM TypeCorrect == Spec => []TypeOK
<1>1. IInv => TypeOK
  BY DEF IInv
<1> QED
  BY InitInv, NextInv, <1>1, PTL DEF Spec

(* However write8(), write() and write_debug() are mixed, no address is in *)
(* two pages (Memory.cpp:158-187,238-294), for every size of page.         *)
THEOREM NoPageTwice == Spec => []PagesDisjoint
<1>1. IInv => PagesDisjoint
  BY DEF IInv
<1> QED
  BY InitInv, NextInv, <1>1, PTL DEF Spec

(* Every byte that is not 0 lies in the extent of its page                 *)
(* (MemoryPage.h:53-71).                                                   *)
THEOREM ExtentsCover == Spec => []ExtentCovers
<1>1. IInv => ExtentCovers
  BY DEF IInv, Sound, Covers, ExtentCovers
<1> QED
  BY InitInv, NextInv, <1>1, PTL DEF Spec

----------------------------------------------------------------------------

(* Programs stay below the last page of the address space. *)
BelowLastPage == Address \subseteq 0 .. Space - PageSize - 1

LEMMA NotOnLastPage ==
  ASSUME BelowLastPage, NEW a \in Address
  PROVE  a \in Cell /\ ~OnLastPage(a)
<1>1. a \in Cell
  BY AddressInCell
<1>2. /\ PageBase(a) \in Nat /\ PageBase(a) <= a /\ a \in 0 .. Space - PageSize - 1
      /\ Space \in Nat /\ PageSize \in Nat
  BY <1>1, PageBaseFacts, MemoryAssumption DEF BelowLastPage, Cell
<1>3. PageBase(a) + PageSize # Space
  BY <1>2
<1> QED
  BY <1>1, <1>3 DEF OnLastPage

(* Below the last page every write ends (Memory.cpp:238-294). *)
THEOREM NeverHangs == ASSUME BelowLastPage PROVE Spec => []EveryAddressWritable
<1>1. Init => EveryAddressWritable
  BY DEF Init, EveryAddressWritable
<1>2. IInv /\ EveryAddressWritable /\ [Next]_vars => EveryAddressWritable'
  <2> SUFFICES ASSUME IInv, EveryAddressWritable, [Next]_vars
               PROVE  EveryAddressWritable'
    OBVIOUS
  <2>1. \A a \in Address : ~Hang(a)
    BY NotOnLastPage, EndlessFacts DEF Hang
  <2> QED
    BY <2>1 DEF EveryAddressWritable, Next, vars, Write8, Write, WriteDebug,
                Clear, SetLowAddress, SetHighAddress
<1> QED
  BY InitInv, NextInv, <1>1, <1>2, PTL DEF Spec

(* What is read: the cell of the page that holds the address. *)
Reads(b) ==
  /\ \A p \in DOMAIN pages :
       pages[p].address = PageBase(b) =>
         /\ Read(b) = pages[p].bin[b - PageBase(b)]
         /\ ReadDebug(b) = pages[p].debug_line[b - PageBase(b)]
  /\ (\A p \in DOMAIN pages : pages[p].address # PageBase(b)) =>
       Read(b) = 0 /\ ReadDebug(b) = -1
AllRead == \A b \in Cell : ~OnLastPage(b) => Reads(b)

LEMMA ReadMeaning == IInv => AllRead
<1> SUFFICES ASSUME IInv, NEW b \in Cell, ~OnLastPage(b) PROVE Reads(b)
  BY DEF AllRead
<1>1. Holding32(b) = Holding(b)
  BY HoldingFacts
<1>2. ASSUME NEW p \in DOMAIN pages, pages[p].address = PageBase(b)
      PROVE  /\ Read(b) = pages[p].bin[b - PageBase(b)]
             /\ ReadDebug(b) = pages[p].debug_line[b - PageBase(b)]
  <2>1. p \in Holding(b)
    BY <1>2 DEF Holding
  <2>2. FirstOf(Holding(b)) = p /\ Holding(b) # {}
    BY <2>1, FirstOfHolding
  <2> QED
    BY <1>1, <1>2, <2>2 DEF Read, ReadDebug
<1>3. ASSUME \A p \in DOMAIN pages : pages[p].address # PageBase(b)
      PROVE  Read(b) = 0 /\ ReadDebug(b) = -1
  <2>1. Holding(b) = {}
    BY <1>3 DEF Holding
  <2> QED
    BY <1>1, <2>1 DEF Read, ReadDebug
<1> QED
  BY <1>2, <1>3 DEF Reads

(* A change of a page changes what is read from it, and nothing else. *)
LEMMA ReadAfter ==
  ASSUME IInv, AllRead, AllRead', NEW a \in Cell, NEW new, new.address = PageBase(a),
         Changed(a, new), NEW b \in Cell, ~OnLastPage(b)
  PROVE  /\ PageBase(b) = PageBase(a) =>
              /\ Read(b)' = new.bin[b - PageBase(b)]
              /\ ReadDebug(b)' = new.debug_line[b - PageBase(b)]
              /\ Read(b) = Before(a).bin[b - PageBase(b)]
              /\ ReadDebug(b) = Before(a).debug_line[b - PageBase(b)]
         /\ PageBase(b) # PageBase(a) =>
              Read(b)' = Read(b) /\ ReadDebug(b)' = ReadDebug(b)
<1>1. PICK n \in DOMAIN pages' :
        /\ pages'[n] = new
        /\ DOMAIN pages \subseteq DOMAIN pages'
        /\ \A p \in DOMAIN pages' \ {n} : /\ p \in DOMAIN pages
                                          /\ pages'[p] = pages[p]
                                          /\ pages[p].address # PageBase(a)
        /\ Before(a) = IF n \in DOMAIN pages THEN pages[n] ELSE NewPage(a)
  BY DEF Changed
<1>2. Reads(b)
  BY DEF AllRead
<1>3. /\ \A p \in DOMAIN pages' :
           pages'[p].address = PageBase(b) =>
             /\ Read(b)' = pages'[p].bin[b - PageBase(b)]
             /\ ReadDebug(b)' = pages'[p].debug_line[b - PageBase(b)]
      /\ (\A p \in DOMAIN pages' : pages'[p].address # PageBase(b)) =>
           Read(b)' = 0 /\ ReadDebug(b)' = -1
  BY DEF AllRead, Reads, Cell, OnLastPage, PageBase
<1>4. CASE PageBase(b) = PageBase(a)
  <2>1. /\ Read(b)' = new.bin[b - PageBase(b)]
        /\ ReadDebug(b)' = new.debug_line[b - PageBase(b)]
    BY <1>1, <1>3, <1>4
  <2>2. CASE n \in DOMAIN pages
    <3>1. Before(a) = pages[n] /\ pages[n].address = PageBase(b)
      BY <1>1, <1>4, <2>2, BeforeFacts
    <3> QED
      BY <1>2, <1>4, <2>1, <2>2, <3>1 DEF Reads
  <2>3. CASE n \notin DOMAIN pages
    <3>1. Read(b) = 0 /\ ReadDebug(b) = -1
      BY <1>1, <1>2, <1>4, <2>3 DEF Reads
    <3>2. b - PageBase(b) \in Offset
      BY PageBaseFacts, MemoryAssumption DEF Cell, Offset
    <3>3. /\ Before(a).bin[b - PageBase(b)] = 0
          /\ Before(a).debug_line[b - PageBase(b)] = -1
      BY <1>1, <2>3, <3>2 DEF NewPage
    <3> QED
      BY <1>4, <2>1, <3>1, <3>3
  <2> QED
    BY <2>2, <2>3
<1>5. CASE PageBase(b) # PageBase(a)
  <2>1. CASE \E p \in DOMAIN pages : pages[p].address = PageBase(b)
    <3>1. PICK p \in DOMAIN pages : pages[p].address = PageBase(b)
      BY <2>1
    <3>2. p # n
      <4>1. SUFFICES ASSUME p = n PROVE FALSE
        OBVIOUS
      <4>2. Before(a) = pages[n]
        BY <1>1, <3>1, <4>1
      <4> QED
        BY <1>5, <3>1, <4>1, <4>2, BeforeFacts
    <3>3. p \in DOMAIN pages' /\ pages'[p] = pages[p]
      BY <1>1, <3>1, <3>2
    <3> QED
      BY <1>2, <1>3, <1>5, <3>1, <3>3 DEF Reads
  <2>2. CASE \A p \in DOMAIN pages : pages[p].address # PageBase(b)
    <3>1. \A p \in DOMAIN pages' : pages'[p].address # PageBase(b)
      BY <1>1, <1>5, <2>2
    <3> QED
      BY <1>2, <1>3, <1>5, <2>2, <3>1 DEF Reads
  <2> QED
    BY <2>1, <2>2
<1> QED
  BY <1>4, <1>5

----------------------------------------------------------------------------

(* The flat memory that the pages stand for. *)
Data == [a \in Address |-> Read(a)]
Debug == [a \in Address |-> ReadDebug(a)]

(* Two addresses of a page are the same when their offsets are. *)
LEMMA SameOffset ==
  ASSUME NEW a \in Cell, NEW b \in Cell, PageBase(b) = PageBase(a)
  PROVE  /\ b - PageBase(b) \in Offset
         /\ b - PageBase(b) = a - PageBase(a) <=> b = a
<1>1. /\ PageBase(b) \in Nat /\ b \in Nat /\ a \in Nat /\ PageSize \in Nat
      /\ PageBase(b) <= b /\ b < PageBase(b) + PageSize
  BY PageBaseFacts, MemoryAssumption DEF Cell
<1> QED
  BY <1>1 DEF Offset

LEMMA DataAfter ==
  ASSUME BelowLastPage, IInv, AllRead, AllRead', NEW a \in Address, NEW new,
         new.address = PageBase(a), Changed(a, new)
  PROVE  /\ \A byte : new.bin = [Before(a).bin EXCEPT ![a - PageBase(a)] = byte]
                        => Data' = [Data EXCEPT ![a] = byte]
         /\ new.bin = Before(a).bin => Data' = Data
<1>1. a \in Cell
  BY AddressInCell
<1>2. ASSUME NEW byte, new.bin = [Before(a).bin EXCEPT ![a - PageBase(a)] = byte],
             NEW b \in Address
      PROVE  Read(b)' = IF b = a THEN byte ELSE Read(b)
  <2>1. b \in Cell /\ ~OnLastPage(b)
    BY NotOnLastPage
  <2>2. CASE PageBase(b) = PageBase(a)
    <3>1. /\ Read(b)' = new.bin[b - PageBase(b)]
          /\ Read(b) = Before(a).bin[b - PageBase(b)]
      BY <1>1, <2>1, <2>2, ReadAfter
    <3>2. DOMAIN Before(a).bin = Offset
      BY <1>1, BeforeFacts DEF Sound, Page
    <3>3. /\ b - PageBase(b) \in Offset
          /\ b - PageBase(b) = a - PageBase(a) <=> b = a
      BY <1>1, <2>1, <2>2, SameOffset
    <3> QED
      BY <1>2, <3>1, <3>2, <3>3
  <2>3. CASE PageBase(b) # PageBase(a)
    <3>1. Read(b)' = Read(b)
      BY <1>1, <2>1, <2>3, ReadAfter
    <3> QED
      BY <2>3, <3>1
  <2> QED
    BY <2>2, <2>3
<1>3. ASSUME new.bin = Before(a).bin, NEW b \in Address
      PROVE  Read(b)' = Read(b)
  <2>1. b \in Cell /\ ~OnLastPage(b)
    BY NotOnLastPage
  <2> QED
    BY <1>1, <1>3, <2>1, ReadAfter
<1>4. Data' = [b \in Address |-> Read(b)']
  BY DEF Data
<1> QED
  BY <1>2, <1>3, <1>4 DEF Data

LEMMA DebugAfter ==
  ASSUME BelowLastPage, IInv, AllRead, AllRead', NEW a \in Address, NEW new,
         new.address = PageBase(a), Changed(a, new)
  PROVE  /\ \A line : new.debug_line = [Before(a).debug_line EXCEPT ![a - PageBase(a)] = line]
                        => Debug' = [Debug EXCEPT ![a] = line]
         /\ new.debug_line = Before(a).debug_line => Debug' = Debug
<1>1. a \in Cell
  BY AddressInCell
<1>2. ASSUME NEW line,
             new.debug_line = [Before(a).debug_line EXCEPT ![a - PageBase(a)] = line],
             NEW b \in Address
      PROVE  ReadDebug(b)' = IF b = a THEN line ELSE ReadDebug(b)
  <2>1. b \in Cell /\ ~OnLastPage(b)
    BY NotOnLastPage
  <2>2. CASE PageBase(b) = PageBase(a)
    <3>1. /\ ReadDebug(b)' = new.debug_line[b - PageBase(b)]
          /\ ReadDebug(b) = Before(a).debug_line[b - PageBase(b)]
      BY <1>1, <2>1, <2>2, ReadAfter
    <3>2. DOMAIN Before(a).debug_line = Offset
      BY <1>1, BeforeFacts DEF Sound, Page
    <3>3. /\ b - PageBase(b) \in Offset
          /\ b - PageBase(b) = a - PageBase(a) <=> b = a
      BY <1>1, <2>1, <2>2, SameOffset
    <3> QED
      BY <1>2, <3>1, <3>2, <3>3
  <2>3. CASE PageBase(b) # PageBase(a)
    <3>1. ReadDebug(b)' = ReadDebug(b)
      BY <1>1, <2>1, <2>3, ReadAfter
    <3> QED
      BY <2>3, <3>1
  <2> QED
    BY <2>2, <2>3
<1>3. ASSUME new.debug_line = Before(a).debug_line, NEW b \in Address
      PROVE  ReadDebug(b)' = ReadDebug(b)
  <2>1. b \in Cell /\ ~OnLastPage(b)
    BY NotOnLastPage
  <2> QED
    BY <1>1, <1>3, <2>1, ReadAfter
<1>4. Debug' = [b \in Address |-> ReadDebug(b)']
  BY DEF Debug
<1> QED
  BY <1>2, <1>3, <1>4 DEF Debug

(* What stays when the pages stay. *)
LEMMA SamePages ==
  ASSUME BelowLastPage, AllRead, AllRead', pages' = pages
  PROVE  Data' = Data /\ Debug' = Debug
<1>1. ASSUME NEW b \in Address
      PROVE  Read(b)' = Read(b) /\ ReadDebug(b)' = ReadDebug(b)
  <2>1. b \in Cell /\ ~OnLastPage(b)
    BY NotOnLastPage
  <2>2. Reads(b)
    BY <2>1 DEF AllRead
  <2>3. /\ \A p \in DOMAIN pages :
             pages[p].address = PageBase(b) =>
               /\ Read(b)' = pages[p].bin[b - PageBase(b)]
               /\ ReadDebug(b)' = pages[p].debug_line[b - PageBase(b)]
        /\ (\A p \in DOMAIN pages : pages[p].address # PageBase(b)) =>
             Read(b)' = 0 /\ ReadDebug(b)' = -1
    BY <2>1 DEF AllRead, Reads, Cell, OnLastPage, PageBase
  <2> QED
    BY <2>2, <2>3 DEF Reads
<1>2. /\ Data' = [b \in Address |-> Read(b)']
      /\ Debug' = [b \in Address |-> ReadDebug(b)']
  BY DEF Data, Debug
<1> QED
  BY <1>1, <1>2 DEF Data, Debug

LEMMA ClearReads ==
  ASSUME BelowLastPage, IInv, AllRead, AllRead', Clear
  PROVE  Data' = [a \in Address |-> 0] /\ Debug' = Debug
<1>1. /\ DOMAIN pages' = DOMAIN pages
      /\ \A p \in DOMAIN pages : pages'[p] = Cleared(pages[p])
  BY ClearEffect
<1>2. ASSUME NEW b \in Address
      PROVE  Read(b)' = 0 /\ ReadDebug(b)' = ReadDebug(b)
  <2>1. b \in Cell /\ ~OnLastPage(b)
    BY NotOnLastPage
  <2>2. Reads(b)
    BY <2>1 DEF AllRead
  <2>3. /\ \A p \in DOMAIN pages' :
             pages'[p].address = PageBase(b) =>
               /\ Read(b)' = pages'[p].bin[b - PageBase(b)]
               /\ ReadDebug(b)' = pages'[p].debug_line[b - PageBase(b)]
        /\ (\A p \in DOMAIN pages' : pages'[p].address # PageBase(b)) =>
             Read(b)' = 0 /\ ReadDebug(b)' = -1
    BY <2>1 DEF AllRead, Reads, Cell, OnLastPage, PageBase
  <2>4. b - PageBase(b) \in Offset
    BY <2>1, SameOffset
  <2>5. \A p \in DOMAIN pages :
          /\ pages'[p].address = pages[p].address
          /\ pages'[p].debug_line = pages[p].debug_line
          /\ pages'[p].bin[b - PageBase(b)] = 0
    BY <1>1, <2>4, ClearedSound DEF IInv
  <2> QED
    BY <1>1, <2>2, <2>3, <2>5 DEF Reads
<1>3. Data' = [b \in Address |-> Read(b)'] /\ Debug' = [b \in Address |-> ReadDebug(b)']
  BY DEF Data, Debug
<1> QED
  BY <1>2, <1>3 DEF Debug

----------------------------------------------------------------------------

LEMMA FlatInit == Init => Flat!Init
<1> SUFFICES ASSUME Init PROVE Flat!Init
  OBVIOUS
<1>1. \A a \in Address : Holding32(a) = {}
  BY DEF Init, Holding32
<1>2. \A a \in Address : Read(a) = 0 /\ ReadDebug(a) = -1
  BY <1>1 DEF Read, ReadDebug
<1> QED
  BY <1>2 DEF Init, Flat!Init

LEMMA FlatWrite8 ==
  ASSUME BelowLastPage, IInv, AllRead, AllRead',
         NEW a \in Address, NEW byte \in Byte, Write8(a, byte)
  PROVE  Flat!Write8(a, byte)
<1> DEFINE new == WithData(Before(a), a, byte)
<1>1. a \in Cell
  BY AddressInCell
<1>2. new.address = PageBase(a) /\ Changed(a, new)
  BY <1>1, Write8Effect
<1>3. /\ new.bin = [Before(a).bin EXCEPT ![a - PageBase(a)] = byte]
      /\ new.debug_line = Before(a).debug_line
  BY <1>1, BeforeFacts, WithDataSound
<1> HIDE DEF new
<1>4. Data' = [Data EXCEPT ![a] = byte] /\ Debug' = Debug
  BY <1>2, <1>3, DataAfter, DebugAfter
<1>5. Flat!Cover(a)
  BY DEF Write8, Cover, Flat!Cover
<1> QED
  BY <1>4, <1>5 DEF Flat!Write8, Data, Debug

LEMMA FlatWrite ==
  ASSUME BelowLastPage, IInv, AllRead, AllRead',
         NEW a \in Address, NEW byte \in Byte, NEW line \in Line,
         Write(a, byte, line)
  PROVE  Flat!Write(a, byte, line)
<1> DEFINE bytes == WithData(Before(a), a, byte)
           new == WithDebug(bytes, a, line)
<1>1. a \in Cell /\ ~OnLastPage(a)
  BY NotOnLastPage
<1>2. new.address = PageBase(a) /\ Changed(a, new)
  BY <1>1, WriteCallEffect
<1>3. /\ Sound(bytes) /\ bytes.address = PageBase(a)
      /\ bytes.bin = [Before(a).bin EXCEPT ![a - PageBase(a)] = byte]
      /\ bytes.debug_line = Before(a).debug_line
  BY <1>1, BeforeFacts, WithDataSound
<1> HIDE DEF bytes
<1>4. /\ new.bin = bytes.bin
      /\ new.debug_line = [bytes.debug_line EXCEPT ![a - PageBase(a)] = line]
  BY <1>1, <1>3, WithDebugSound
<1> HIDE DEF new
<1>5. Data' = [Data EXCEPT ![a] = byte] /\ Debug' = [Debug EXCEPT ![a] = line]
  BY SMTT(30), <1>2, <1>3, <1>4, DataAfter, DebugAfter
<1>6. Flat!Cover(a)
  BY <1>1, EndlessFacts DEF Write, Hang, Cover, Flat!Cover
<1> QED
  BY <1>5, <1>6 DEF Flat!Write, Data, Debug

LEMMA FlatWriteDebug ==
  ASSUME BelowLastPage, IInv, AllRead, AllRead',
         NEW a \in Address, NEW line \in Line, WriteDebug(a, line)
  PROVE  Flat!WriteDebug(a, line)
<1> DEFINE new == WithDebug(Before(a), a, line)
<1>1. a \in Cell /\ ~OnLastPage(a)
  BY NotOnLastPage
<1>2. new.address = PageBase(a) /\ Changed(a, new)
  BY <1>1, WriteDebugEffect
<1>3. /\ new.bin = Before(a).bin
      /\ new.debug_line = [Before(a).debug_line EXCEPT ![a - PageBase(a)] = line]
  BY <1>1, BeforeFacts, WithDebugSound
<1> HIDE DEF new
<1>4. Data' = Data /\ Debug' = [Debug EXCEPT ![a] = line]
  BY <1>2, <1>3, DataAfter, DebugAfter
<1>5. UNCHANGED <<low_address, high_address>>
  BY <1>1, EndlessFacts DEF WriteDebug, Hang
<1> QED
  BY <1>4, <1>5 DEF Flat!WriteDebug, Data, Debug

LEMMA FlatNext ==
  ASSUME BelowLastPage, IInv, AllRead, AllRead', [Next]_vars
  PROVE  [Flat!Next]_Flat!vars
<1>1. ASSUME NEW a \in Address, NEW byte \in Byte, Write8(a, byte)
      PROVE  Flat!Next
  BY <1>1, FlatWrite8 DEF Flat!Next
<1>2. ASSUME NEW a \in Address, NEW byte \in Byte, NEW line \in Line,
             Write(a, byte, line)
      PROVE  Flat!Next
  BY <1>2, FlatWrite DEF Flat!Next
<1>3. ASSUME NEW a \in Address, NEW line \in Line, WriteDebug(a, line)
      PROVE  Flat!Next
  BY <1>3, FlatWriteDebug DEF Flat!Next
<1>4. ASSUME NEW a \in Address, SetLowAddress(a) \/ SetHighAddress(a)
      PROVE  Flat!Next
  <2>1. Data' = Data /\ Debug' = Debug
    BY <1>4, SamePages DEF SetLowAddress, SetHighAddress
  <2>2. Flat!SetLowAddress(a) \/ Flat!SetHighAddress(a)
    BY <1>4, <2>1 DEF SetLowAddress, SetHighAddress, Flat!SetLowAddress,
                      Flat!SetHighAddress, Data, Debug
  <2> QED
    BY <2>2 DEF Flat!Next
<1>5. CASE Clear
  <2>1. Flat!Clear
    BY <1>5, ClearReads DEF Clear, Flat!Clear, Data, Debug
  <2> QED
    BY <2>1 DEF Flat!Next
<1>6. CASE UNCHANGED vars
  <2>1. Data' = Data /\ Debug' = Debug
    BY <1>6, SamePages DEF vars
  <2>2. UNCHANGED Flat!vars
    BY <1>6, <2>1 DEF vars, Flat!vars, Data, Debug
  <2> QED
    BY <2>2
<1> QED
  BY <1>1, <1>2, <1>3, <1>4, <1>5, <1>6 DEF Next

(* Below the last page the list of pages is a flat memory: what is read at *)
(* an address is what was written there last, whatever pages the writes    *)
(* made and in whatever order they were made (Memory.cpp:158-294).         *)
THEOREM FlatImplemented == ASSUME BelowLastPage PROVE Spec => ImplementsFlat
<1>1. IInv /\ AllRead /\ IInv' /\ AllRead' /\ [Next]_vars
        => [Flat!Next]_Flat!vars
  BY FlatNext
<1> QED
  BY InitInv, NextInv, ReadMeaning, FlatInit, <1>1, PTL
  DEF Spec, ImplementsFlat, Flat!Spec

----------------------------------------------------------------------------

(***************************************************************************)
(* The simulators.  Single steps and break points stop every one of them,  *)
(* whatever the program, the commands and the moment of a Ctrl-C.          *)
(***************************************************************************)

(* Lines of checks are at most six long: a nonempty set of positions has a *)
(* first one.                                                              *)
LEMMA FirstPosition ==
  ASSUME NEW S \in SUBSET (1 .. 6), S # {}
  PROVE  \E i \in S : \A j \in 1 .. (i - 1) : j \notin S
<1>1. CASE 1 \in S  BY <1>1
<1>2. CASE 1 \notin S /\ 2 \in S  BY <1>2
<1>3. CASE 1 \notin S /\ 2 \notin S /\ 3 \in S  BY <1>3
<1>4. CASE 1 \notin S /\ 2 \notin S /\ 3 \notin S /\ 4 \in S  BY <1>4
<1>5. CASE 1 \notin S /\ 2 \notin S /\ 3 \notin S /\ 4 \notin S /\ 5 \in S  BY <1>5
<1>6. CASE \A j \in 1 .. 5 : j \notin S
  <2> PICK k \in S : k \in 1 .. 6
    OBVIOUS
  <2>1. k = 6
    BY <1>6
  <2>2. QED  BY <1>6, <2>1
<1>7. QED  BY <1>1, <1>2, <1>3, <1>4, <1>5, <1>6

Reasons == {"returned", "illegal", "halt", "brk", "break", "step", "top"}

(* FirstReason finds a reason exactly when one of the checks holds.        *)
LEMMA FirstReasonFinds ==
  ASSUME NEW checks, DOMAIN checks \subseteq 1 .. 6,
         \A i \in DOMAIN checks : checks[i] \in Reasons /\ (1 .. i) \subseteq DOMAIN checks,
         NEW holds
  PROVE  /\ FirstReason(checks, holds) \in Reasons \cup {"none"}
         /\ \A i \in DOMAIN checks : checks[i] \in holds => FirstReason(checks, holds) # "none"
<1> DEFINE S == {i \in DOMAIN checks : checks[i] \in holds}
           Least(i) == checks[i] \in holds /\ \A j \in 1 .. (i - 1) : checks[j] \notin holds
<1>1. CASE S = {}
  BY <1>1 DEF FirstReason
<1>2. CASE S # {}
  <2>1. PICK i \in S : \A j \in 1 .. (i - 1) : j \notin S
    BY <1>2, FirstPosition
  <2>2. \A j \in 1 .. (i - 1) : j \in DOMAIN checks
    BY <2>1
  <2>3. i \in DOMAIN checks /\ Least(i)
    BY <2>1, <2>2
  <2>4. (CHOOSE k \in DOMAIN checks : Least(k)) \in DOMAIN checks
    BY <2>3
  <2>5. FirstReason(checks, holds) = checks[CHOOSE k \in DOMAIN checks : Least(k)]
    BY <1>2 DEF FirstReason
  <2> HIDE DEF Least
  <2>6. FirstReason(checks, holds) \in Reasons
    BY <2>4, <2>5
  <2>7. QED  BY <2>6 DEF Reasons
<1>3. QED  BY <1>1, <1>2

(* Every loop looks at the break point and at the two ways to step.        *)
WellFormed(loop) ==
  /\ DOMAIN loop.checks \subseteq 1 .. 6
  /\ \A i \in DOMAIN loop.checks :
       loop.checks[i] \in Reasons /\ (1 .. i) \subseteq DOMAIN loop.checks
  /\ \E i \in DOMAIN loop.checks : loop.checks[i] = "break"
  /\ \E i \in DOMAIN loop.checks : loop.checks[i] = "step"
  /\ loop.counts \subseteq {"call", "ret"}
  /\ loop.stays \in BOOLEAN

LEMMA LoopsWellFormed ==
  /\ WellFormed(SimulateMsp430) /\ WellFormed(Simulate8008) /\ WellFormed(Simulate6502)
  /\ WellFormed(Simulate65816) /\ WellFormed(SimulateAvr8) /\ WellFormed(SimulateZ80)
  /\ WellFormed(SimulateStm8) /\ WellFormed(SimulateMips) /\ WellFormed(SimulateRiscv)
  /\ WellFormed(SimulateRv32em) /\ WellFormed(Simulate1802) /\ WellFormed(SimulateTms1000)
  /\ WellFormed(SimulateLc3) /\ WellFormed(SimulateF100L)
<1> USE DEF WellFormed, Loop, Reasons
<1>1. WellFormed(SimulateMsp430)  BY DEF SimulateMsp430
<1>2. WellFormed(Simulate8008)  BY DEF Simulate8008
<1>3. WellFormed(Simulate6502)  BY DEF Simulate6502
<1>4. WellFormed(Simulate65816)  BY DEF Simulate65816
<1>5. WellFormed(SimulateAvr8)  BY DEF SimulateAvr8
<1>6. WellFormed(SimulateZ80)  BY DEF SimulateZ80
<1>7. WellFormed(SimulateStm8)  BY DEF SimulateStm8
<1>8. WellFormed(SimulateMips)  BY DEF SimulateMips
<1>9. WellFormed(SimulateRiscv)  BY DEF SimulateRiscv
<1>10. WellFormed(SimulateRv32em)  BY DEF SimulateRv32em
<1>11. WellFormed(Simulate1802)  BY DEF Simulate1802
<1>12. WellFormed(SimulateTms1000)  BY DEF SimulateTms1000
<1>13. WellFormed(SimulateLc3)  BY DEF SimulateLc3
<1>14. WellFormed(SimulateF100L)  BY DEF SimulateF100L
<1>15. QED
  BY <1>1, <1>2, <1>3, <1>4, <1>5, <1>6, <1>7, <1>8, <1>9, <1>10, <1>11, <1>12, <1>13, <1>14

LEMMA SimulatorWellFormed ==
  ASSUME cpu \in Cpu
  PROVE  WellFormed(Simulator)
<1> HIDE DEF WellFormed
<1>1. QED
  BY LoopsWellFormed, SimulatorLoads DEF Simulator, Simulators
-----------------------------------------------------------------------------
(* What the actions do to a state that SimTypeOK describes.                *)
Session == <<cpu, program, mode>>

(* The break point is the one asked for, in the code's count.              *)
BreakIsAsked ==
  break_point = IF asked = None THEN None ELSE BreakAddress(asked, by_name)

(* A run that is on has not met what ends it.                              *)
RunsOn ==
  where = "running" /\ executed > 0 => ~Hits(pc) /\ usec # 0 /\ ~step

SimInv ==
  /\ SimTypeOK /\ BreakIsAsked /\ RunsOn

LEMMA InitIInv == SimInit => SimInv
<1> SUFFICES ASSUME SimInit PROVE SimInv
  OBVIOUS
<1>1. program \in [0 .. Last -> Instruction]
  BY SimulatorLoads DEF SimInit, Last, Instruction
<1>2. /\ cpu \in Cpu /\ mode \in {"interactive", "run"} /\ where = "prompt"
      /\ pc = 0 /\ stack = << >> /\ nested_call_count = 0
      /\ break_point = None /\ usec = 1 /\ asked = None /\ executed = 0 /\ commands = 0
      /\ command = "none" /\ entry = << >> /\ ended = "none"
  BY Zenon DEF SimInit
<1>3. by_name \in BOOLEAN /\ auto_run \in BOOLEAN /\ stop_running \in BOOLEAN
        /\ handler \in BOOLEAN /\ step \in BOOLEAN
  BY Zenon DEF SimInit
<1>4. SessionOK
  BY <1>1, <1>2, SimulatorConstants DEF SessionOK
<1>5. MachineOK
  BY <1>2, SimulatorConstants DEF MachineOK, Location
<1>6. SettingsOK
  BY <1>2, <1>3 DEF SettingsOK, None
<1>7. RunOK
  BY <1>2, <1>3 DEF RunOK
<1>8. BreakIsAsked /\ RunsOn
  BY DEF SimInit, BreakIsAsked, RunsOn
<1>9. QED  BY <1>4, <1>5, <1>6, <1>7, <1>8 DEF SimInv, SimTypeOK

LEMMA BreakAddressType ==
  ASSUME NEW t \in 0 .. Last, NEW named \in BOOLEAN
  PROVE  BreakAddress(t, named) \in Int /\ (named => BreakAddress(t, named) = t)
<1>1. BytesPerAddress = 1 \/ BytesPerAddress = 2
  BY DEF BytesPerAddress
<1>2. t \in Int
  BY SimulatorConstants DEF Last
<1>3. CASE BytesPerAddress = 1  BY <1>2, <1>3 DEF BreakAddress
<1>4. CASE BytesPerAddress = 2  BY <1>2, <1>4 DEF BreakAddress
<1>5. QED  BY <1>1, <1>3, <1>4

LEMMA TypedCommands ==
  ASSUME SimInv, Type
  PROVE  commands' \in 0 .. MaxCommands /\ where = "prompt"
<1>1. commands \in 0 .. MaxCommands
  BY DEF SimInv, SimTypeOK, SessionOK
<1>2. MaxCommands \in Nat
  BY SimulatorConstants
<1>3. commands < MaxCommands /\ commands' = commands + 1 /\ where = "prompt"
  BY DEF Type
<1>4. QED  BY <1>1, <1>2, <1>3

(* What EnterRun leaves to prove about a command that runs.                *)
LEMMA EnterRunKeeps ==
  ASSUME SimInv, NEW name \in {"run", "step", "again", "call"}, NEW single \in BOOLEAN,
         NEW armed \in BOOLEAN, EnterRun(name, single, armed),
         pc' \in Location, stack' \in Seq(Location), auto_run' \in BOOLEAN,
         entry' \in Seq(Location), commands' \in 0 .. MaxCommands,
         nested_call_count' = nested_call_count
  PROVE  SimInv'
<1>1. /\ where' = "running" /\ step' = single /\ command' = name
      /\ executed' = 0 /\ ended' = "none" /\ UNCHANGED <<session, settings>>
  BY Zenon DEF EnterRun
<1>2. handler' \in BOOLEAN /\ stop_running' \in BOOLEAN
  BY Zenon DEF EnterRun
<1> USE <1>1, <1>2 DEF SimInv, SimTypeOK
<1>3. SessionOK'
  BY DEF SessionOK, session
<1>4. MachineOK'
  BY DEF MachineOK
<1>5. SettingsOK'
  BY DEF SettingsOK, settings
<1>6. RunOK'
  BY DEF RunOK
<1>7. BreakIsAsked'
  BY DEF BreakIsAsked, session, settings, BreakAddress, BytesPerAddress
<1>8. RunsOn'
  BY DEF RunsOn
<1>9. QED  BY <1>3, <1>4, <1>5, <1>6, <1>7, <1>8

(* The break point commands and the others that stay at the prompt.        *)
LEMMA IdleKeeps ==
  ASSUME SimInv, Type, Idle, pc' \in Location, stack' \in Seq(Location),
         nested_call_count' \in Int, nested_call_count' >= -MaxNested, usec' \in {0, 1},
         \/ break_point' = None /\ asked' = None /\ by_name' \in BOOLEAN
         \/ UNCHANGED <<break_point, asked, by_name>>
         \/ \E t \in 0 .. Last, named \in BOOLEAN :
              break_point' = BreakAddress(t, named) /\ asked' = t /\ by_name' = named
  PROVE  SimInv'
<1>1. commands' \in 0 .. MaxCommands /\ where = "prompt"
  BY TypedCommands
<1>2. cpu' = cpu /\ where' = where
  BY DEF Idle, session
<1>3. SessionOK'
  BY <1>1 DEF SimInv, SimTypeOK, SessionOK, Idle, session
<1>4. MachineOK'
  BY DEF MachineOK
<1>5. RunOK'
  BY DEF SimInv, SimTypeOK, RunOK, Idle
<1>6. RunsOn'
  BY <1>1, <1>2 DEF RunsOn
<1>7. SettingsOK' /\ BreakIsAsked'
  <2>1. CASE break_point' = None /\ asked' = None /\ by_name' \in BOOLEAN
    BY <2>1 DEF SettingsOK, BreakIsAsked, None
  <2>2. CASE UNCHANGED <<break_point, asked, by_name>>
    BY <1>2, <2>2 DEF SimInv, SimTypeOK, SettingsOK, BreakIsAsked, BreakAddress, BytesPerAddress
  <2>3. ASSUME NEW t \in 0 .. Last, NEW named \in BOOLEAN,
               break_point' = BreakAddress(t, named) /\ asked' = t /\ by_name' = named
        PROVE  SettingsOK' /\ BreakIsAsked'
    <3>1. t # None
      BY SimulatorConstants DEF None, Last
    <3>2. SettingsOK'
      BY <2>3, BreakAddressType DEF SettingsOK
    <3>3. BreakIsAsked'
      BY <1>2, <2>3, <3>1 DEF BreakIsAsked, BreakAddress, BytesPerAddress
    <3>4. QED  BY <3>2, <3>3
  <2>4. QED  BY <2>1, <2>2, <2>3
<1>8. QED  BY <1>3, <1>4, <1>5, <1>6, <1>7 DEF SimInv, SimTypeOK

LEMMA CommandsKeep == ASSUME SimInv, Commands PROVE SimInv'
<1> USE SimulatorConstants
<1>1. \A p \in 0 .. Last : p \in Location
  BY DEF Last, Location
<1>2. /\ pc \in Location /\ stack \in Seq(Location) /\ entry \in Seq(Location)
      /\ nested_call_count \in Int /\ nested_call_count >= -MaxNested /\ usec \in {0, 1}
      /\ commands \in 0 .. MaxCommands /\ 0 \in Location /\ Top \in Location
      /\ by_name \in BOOLEAN /\ 0 \in Int /\ 0 >= -MaxNested
  BY DEF SimInv, SimTypeOK, MachineOK, RunOK, SettingsOK, SessionOK, Location
<1>3. auto_run \in BOOLEAN /\ handler \in BOOLEAN
  BY DEF SimInv, SimTypeOK, RunOK
<1>4. \A value \in Location : Pushed(value) \in Seq(Location)
  BY <1>2 DEF Pushed
<1>5. ASSUME NEW at \in {None} \cup 0 .. Last, Run(at) PROVE SimInv'
  <2>1. commands' \in 0 .. MaxCommands
    BY <1>2, <1>5, TypedCommands DEF Run
  <2>2. pc' \in Location
    BY <1>1, <1>2, <1>5, Zenon DEF Run
  <2>3. auto_run' \in BOOLEAN /\ (handler /\ usec # 0) \in BOOLEAN
    BY <1>5, Zenon DEF Run
  <2>4. /\ EnterRun("run", FALSE, handler /\ usec # 0)
        /\ stack' = stack /\ nested_call_count' = nested_call_count /\ entry' = entry
    BY <1>5, Zenon DEF Run
  <2>5. QED  BY <1>2, <2>1, <2>2, <2>3, <2>4, EnterRunKeeps, Zenon
<1>6. CASE Step
  <2>1. /\ Type /\ auto_run' \in BOOLEAN /\ EnterRun("step", TRUE, FALSE)
        /\ pc' = pc /\ stack' = stack /\ nested_call_count' = nested_call_count
        /\ entry' = entry
    BY <1>6, Zenon DEF Step, machine
  <2>2. QED  BY <1>2, <2>1, TypedCommands, EnterRunKeeps, Zenon
<1>7. CASE Again
  <2>1. /\ Type /\ auto_run' \in BOOLEAN /\ EnterRun("again", TRUE, handler)
        /\ pc' = pc /\ stack' = stack /\ nested_call_count' = nested_call_count
        /\ entry' = entry
    BY <1>3, <1>7, Zenon DEF Again, machine
  <2>2. QED  BY <1>2, <1>3, <2>1, TypedCommands, EnterRunKeeps, Zenon
<1>8. ASSUME NEW f \in 0 .. Last, CallCommand(f) PROVE SimInv'
  <2>1. /\ Type /\ auto_run' \in BOOLEAN /\ (handler /\ usec = 0) \in BOOLEAN
        /\ EnterRun("call", FALSE, handler /\ usec = 0)
        /\ stack' = Pushed(Top) /\ nested_call_count' = nested_call_count
        /\ entry' = stack /\ pc' \in {f, pc}
    BY <1>8, Zenon DEF CallCommand
  <2>2. pc' \in Location
    BY <1>1, <1>2, <2>1
  <2>3. stack' \in Seq(Location)
    BY <1>2, <1>4, <2>1
  <2>4. QED  BY <1>2, <2>1, <2>2, <2>3, TypedCommands, EnterRunKeeps, Zenon
<1>9. ASSUME NEW value \in 0 .. Last, Push(value) PROVE SimInv'
  <2>1. Type /\ Idle /\ stack' = Pushed(value) /\ UNCHANGED <<pc, nested_call_count, settings>>
    BY <1>9 DEF Push
  <2>2. stack' \in Seq(Location)
    BY <1>1, <1>4, <2>1
  <2>3. QED  BY <1>2, <2>1, <2>2, IdleKeeps DEF settings
<1>10. ASSUME NEW t \in 0 .. Last, NEW named \in BOOLEAN, Break(t, named) PROVE SimInv'
  <2>1. /\ Type /\ Idle /\ UNCHANGED <<machine, usec>>
        /\ break_point' = BreakAddress(t, named) /\ asked' = t /\ by_name' = named
    BY <1>10 DEF Break
  <2>2. QED  BY <1>2, <2>1, IdleKeeps DEF machine
<1>11. CASE RemoveBreak
  BY <1>2, <1>11, IdleKeeps DEF RemoveBreak, machine
<1>12. ASSUME NEW delay \in {0, 1}, Speed(delay) PROVE SimInv'
  BY <1>2, <1>12, IdleKeeps DEF Speed, machine
<1>13. CASE Reset
  <2>1. /\ Type /\ Idle /\ pc' = 0 /\ stack' = << >> /\ UNCHANGED <<usec, by_name>>
        /\ nested_call_count' \in {0, nested_call_count}
        /\ \/ break_point' = None /\ asked' = None
           \/ break_point' = break_point /\ asked' = asked
    BY <1>13, Zenon DEF Reset
  <2>2. << >> \in Seq(Location)
    OBVIOUS
  <2>3. QED  BY <1>2, <2>1, <2>2, IdleKeeps
<1>14. CASE Quit
  <2>1. /\ Type /\ where' = "exited" /\ UNCHANGED <<machine, settings, session, auto_run,
                 stop_running, handler, step, command, entry, executed, ended>>
    BY <1>14 DEF Quit
  <2>2. commands' \in 0 .. MaxCommands
    BY <2>1, TypedCommands
  <2>3. QED
    BY <2>1, <2>2 DEF SimInv, SimTypeOK, SessionOK, MachineOK, SettingsOK, RunOK, machine, settings,
       session, BreakIsAsked, BreakAddress, BytesPerAddress, RunsOn
<1>15. QED
  BY <1>5, <1>6, <1>7, <1>8, <1>9, <1>10, <1>11, <1>12, <1>13, <1>14 DEF Commands

(* After an instruction the run ends or has met nothing that ends it.      *)
LEMMA AfterInstructionKeeps ==
  ASSUME SimInv, where = "running", NEW p \in Location, NEW n \in Int,
         NEW seen \in SUBSET {"illegal", "brk", "halt"}, AfterInstruction(p, n, seen),
         stack' \in Seq(Location), stop_running' \in BOOLEAN
  PROVE  SimInv'
<1> PICK holds :
      LET end == FirstReason(Simulator.checks, holds)
      IN  /\ Hits(p) => "break" \in holds
          /\ usec = 0 \/ step => "step" \in holds
          /\ ended' = end
          /\ IF end = "top" THEN pc' \in 0 .. Last ELSE pc' = p
          /\ nested_call_count' = Within(n)
          /\ handler' = (handler /\ end \in LeavesArmed)
          /\ IF end = "none" THEN UNCHANGED where ELSE Leave
          /\ executed' = (IF executed < 2 THEN executed + 1 ELSE 2)
          /\ UNCHANGED <<session, settings, auto_run, step, command, entry, commands>>
  BY Zenon DEF AfterInstruction
<1> DEFINE end == FirstReason(Simulator.checks, holds)
<1>1. WellFormed(Simulator)
  BY SimulatorWellFormed DEF SimInv, SimTypeOK, SessionOK
<1>2. end \in Reasons \cup {"none"} /\ (Hits(p) \/ usec = 0 \/ step => end # "none")
  BY <1>1, FirstReasonFinds DEF WellFormed
<1> HIDE DEF end
<1>3. UNCHANGED <<session, settings, auto_run, step, command, entry, commands>>
  OBVIOUS
<1>4. ended' = end /\ pc' \in Location /\ (end = "none" => pc' = p)
  BY <1>2, SimulatorConstants DEF Location, Last, end
<1>5. Within(n) \in Int /\ Within(n) >= -MaxNested
  BY SimulatorConstants DEF Within
<1>6. handler' \in BOOLEAN
  BY Zenon
<1>7. where' \in {"prompt", "running", "exited"} /\ (where' = "running" => end = "none")
  BY DEF Leave, end
<1>8. executed' \in 0 .. 2
  BY DEF SimInv, SimTypeOK, RunOK
<1>9. SessionOK' /\ MachineOK' /\ SettingsOK'
  BY <1>3, <1>4, <1>5 DEF SimInv, SimTypeOK, SessionOK, MachineOK, SettingsOK, session, settings
<1>10. RunOK'
  BY <1>2, <1>3, <1>4, <1>6, <1>7, <1>8 DEF SimInv, SimTypeOK, RunOK, Reasons
<1>11. BreakIsAsked'
  BY <1>3 DEF SimInv, BreakIsAsked, session, settings, BreakAddress, BytesPerAddress
<1>12. RunsOn'
  BY <1>2, <1>3, <1>4, <1>7 DEF RunsOn, Hits, session, settings
<1>13. QED  BY <1>9, <1>10, <1>11, <1>12 DEF SimInv, SimTypeOK

LEMMA IterateKeeps == ASSUME SimInv, Iterate PROVE SimInv'
<1> USE SimulatorConstants
<1>1. /\ pc \in Location /\ stack \in Seq(Location) /\ nested_call_count \in Int
      /\ stop_running \in BOOLEAN /\ program \in [0 .. Last -> Instruction]
  BY DEF SimInv, SimTypeOK, MachineOK, RunOK, SessionOK
<1>2. At(pc).kind # "bad" => pc \in 0 .. Last
  BY <1>1 DEF At, Location, Last
<1>3. \A p \in 0 .. Last : p \in Location
  BY DEF Last, Location
<1>4. pc \in 0 .. Last => NextPc(pc) \in Location
  <2> SUFFICES ASSUME pc \in 0 .. Last PROVE NextPc(pc) \in Location
    OBVIOUS
  <2>2. CASE (pc + 1) % PageWords = 0
    <3>1. pc + 1 >= PageWords
      BY <2>2
    <3>2. QED  BY <3>1, <2>2 DEF NextPc, Location, Last
  <2>3. CASE ~((pc + 1) % PageWords = 0)
    <3>0. pc # Top
      BY DEF Last
    <3>1. NextPc(pc) = pc + 1
      BY <2>3, <3>0, Zenon DEF NextPc
    <3>2. QED  BY <3>1 DEF Location, Last
  <2>4. QED  BY <2>2, <2>3
<1>5. At(pc).kind # "bad" => NextPc(pc) \in Location
  BY <1>2, <1>4
<1>6. \A kind, n : Counted(kind, n) \in {n, 0}
  BY DEF Counted
<1> DEFINE Rest == IF stack = << >> THEN << >> ELSE SubSeq(stack, 1, Len(stack) - 1)
<1>7. Rest \in Seq(Location)
  BY <1>1
<1>8. ASSUME NEW p \in Location, NEW n \in Int, NEW seen \in SUBSET {"illegal", "brk", "halt"},
             where = "running", AfterInstruction(p, n, seen), stack' \in Seq(Location),
             stop_running' \in BOOLEAN
      PROVE  SimInv'
  BY <1>8, AfterInstructionKeeps
<1>9. CASE Operate
  <2>1. /\ where = "running" /\ At(pc).kind = "op"
        /\ AfterInstruction(NextPc(pc), nested_call_count, {})
        /\ stack' = stack /\ stop_running' = stop_running
    BY <1>9 DEF Operate, Executes
  <2>2. QED  BY <1>1, <1>5, <1>8, <2>1
<1>10. CASE Jump
  <2>1. /\ where = "running" /\ At(pc).kind = "goto"
        /\ AfterInstruction(At(pc).to, nested_call_count, {})
        /\ stack' = stack /\ stop_running' = stop_running
    BY <1>10 DEF Jump, Executes
  <2>2. At(pc).to \in Location
    BY <1>1, <1>2, <1>3, <2>1 DEF At, Instruction, Last
  <2>3. QED  BY <1>1, <1>8, <2>1, <2>2
<1>11. CASE Call
  <2>1. /\ where = "running" /\ At(pc).kind = "call"
        /\ AfterInstruction(At(pc).to, nested_call_count + Counted("call", 1), {})
        /\ stack' = Append(stack, NextPc(pc)) /\ stop_running' = stop_running
    BY <1>11 DEF Call, Executes
  <2>2. At(pc).to \in Location
    BY <1>1, <1>2, <1>3, <2>1 DEF At, Instruction, Last
  <2>3. stack' \in Seq(Location)
    BY <1>1, <1>5, <2>1
  <2>4. nested_call_count + Counted("call", 1) \in Int
    BY <1>1, <1>6
  <2>5. QED  BY <1>1, <1>8, <2>1, <2>2, <2>3, <2>4
<1>12. CASE Return
  <2>1. where = "running" /\ stack' = Rest /\ stop_running' = stop_running
    BY <1>12, Zenon DEF Return, Executes
  <2>2. PICK p \in IF stack = << >> THEN Location ELSE {stack[Len(stack)]} :
          AfterInstruction(p, nested_call_count - Counted("ret", 1), {})
    BY <1>12, Zenon DEF Return
  <2>3. p \in Location
    BY <1>1
  <2>4. nested_call_count - Counted("ret", 1) \in Int
    BY <1>1, <1>6
  <2>5. stack' \in Seq(Location)
    BY <1>7, <2>1
  <2>6. QED  BY <1>1, <1>8, <2>1, <2>2, <2>3, <2>4, <2>5
<1>13. CASE Halt
  <2>1. /\ where = "running" /\ At(pc).kind = "halt"
        /\ stack' = stack /\ stop_running' \in BOOLEAN
        /\ AfterInstruction(NextPc(pc), nested_call_count,
                            IF cpu = "z80" THEN {"halt"} ELSE {})
    BY <1>13, Zenon DEF Halt, Executes
  <2>2. (IF cpu = "z80" THEN {"halt"} ELSE {}) \in SUBSET {"illegal", "brk", "halt"}
    OBVIOUS
  <2>3. QED  BY <1>1, <1>5, <1>8, <2>1, <2>2
<1>14. CASE Bad
  <2>1. /\ where = "running" /\ stack' = stack /\ stop_running' = stop_running
        /\ AfterInstruction(IF Simulator.stays THEN pc ELSE NextPc(pc), nested_call_count,
                            {"illegal", "brk"})
    BY <1>14 DEF Bad, Executes
  <2>2. NextPc(pc) \in Location
    <3>1. CASE pc = Top  BY <1>1, <3>1 DEF NextPc
    <3>2. CASE pc # Top  BY <1>1, <1>4, <3>2 DEF Location, Last
    <3>3. QED  BY <3>1, <3>2
  <2>3. (IF Simulator.stays THEN pc ELSE NextPc(pc)) \in Location
    BY <1>1, <2>2
  <2>4. QED  BY <1>1, <1>8, <2>1, <2>3
<1>15. CASE Stopped
  <2>1. /\ where' \in {"prompt", "exited"} /\ handler' = FALSE /\ ended' = "stopped"
        /\ UNCHANGED <<machine, settings, session, auto_run, stop_running, step, command,
                       entry, executed, commands>>
    BY <1>15, Zenon DEF Stopped, Leave
  <2>2. QED
    BY ZenonT(40), <2>1 DEF SimInv, SimTypeOK, SessionOK, MachineOK, SettingsOK, RunOK, machine, settings,
       session, BreakIsAsked, BreakAddress, BytesPerAddress, RunsOn
<1>16. QED  BY <1>9, <1>10, <1>11, <1>12, <1>13, <1>14, <1>15 DEF Iterate

LEMMA CtrlCKeeps == ASSUME SimInv, CtrlC PROVE SimInv'
<1>1. /\ handler' \in BOOLEAN /\ stop_running' \in BOOLEAN /\ where' \in {where, "killed"}
      /\ UNCHANGED <<machine, settings, session, auto_run, step, command, entry, executed,
                     ended, commands>>
  <2>1. handler \in BOOLEAN /\ stop_running \in BOOLEAN
    BY DEF SimInv, SimTypeOK, RunOK
  <2>2. QED  BY <2>1, Zenon DEF CtrlC
<1>2. QED
  BY <1>1 DEF SimInv, SimTypeOK, SessionOK, MachineOK, SettingsOK, RunOK, machine, settings,
     session, BreakIsAsked, BreakAddress, BytesPerAddress, RunsOn, Hits

LEMMA StutterKeeps == ASSUME SimInv, UNCHANGED simvars PROVE SimInv'
BY DEF SimInv, SimTypeOK, SessionOK, MachineOK, SettingsOK, RunOK, simvars, machine, settings,
   session, BreakIsAsked, BreakAddress, BytesPerAddress, RunsOn, Hits

LEMMA Invariance == SimSpec => []SimInv
<1>1. SimInv /\ [SimNext]_simvars => SimInv'
  BY CommandsKeep, IterateKeeps, CtrlCKeeps, StutterKeeps DEF SimNext
<1>2. QED  BY InitIInv, <1>1, PTL DEF SimSpec
-----------------------------------------------------------------------------
(* Every reachable state has its types: the machine, the settings, the run.*)
THEOREM SimulatorTypeCorrect == SimSpec => []SimTypeOK
<1>1. SimInv => SimTypeOK
  BY DEF SimInv
<1>2. QED  BY <1>1, Invariance, PTL

(* No simulator goes on after one instruction in single step mode.         *)
THEOREM Steps == SimSpec => []StepIsOne
<1>1. SimInv => StepIsOne
  BY DEF SimInv, SimTypeOK, RunOK, RunsOn, StepIsOne
<1>2. QED  BY <1>1, Invariance, PTL

(* No simulator goes on at the address break was asked for, wherever the   *)
(* units of break and of the pc agree.                                     *)
THEOREM Breaks == SimSpec => []BreakStops
<1>1. ASSUME SimInv, where = "running", executed > 0, UnitsAgree, pc = asked PROVE FALSE
  <2>1. ~Hits(pc)
    BY <1>1 DEF SimInv, RunsOn
  <2>2. asked # None /\ asked \in Nat /\ by_name \in BOOLEAN
    BY <1>1, SimulatorConstants DEF SimInv, SimTypeOK, MachineOK, SettingsOK, None, Location, Last
  <2>3. break_point = asked
    BY <1>1, <2>2 DEF SimInv, BreakIsAsked, UnitsAgree, BreakAddress
  <2>4. cpu # "tms1000"
    <3> SUFFICES ASSUME cpu = "tms1000" PROVE Hits(pc)
      BY <2>1
    <3>1. PageWords \in Nat \ {0} /\ asked \div PageWords = 0 /\ pc = asked
      BY <1>1, SimulatorConstants DEF UnitsAgree
    <3>2. asked < PageWords
      BY <2>2, <3>1
    <3>3. \A q \in Nat : asked < q => asked \div q = 0
      BY <2>2
    <3>4. 4 * PageWords \in Nat /\ asked < 4 * PageWords
      BY <2>2, <3>1, <3>2
    <3>5. asked \div (4 * PageWords) = 0
      BY <3>3, <3>4
    <3>6. QED  BY <2>2, <2>3, <3>1, <3>5, Zenon DEF Hits
  <2>5. QED  BY <1>1, <2>1, <2>3, <2>4 DEF Hits
<1>2. SimInv => BreakStops
  BY <1>1 DEF BreakStops
<1>3. QED  BY <1>2, Invariance, PTL

-----------------------------------------------------------------------------
(* What is found is one of the reasons, and none of those that hold comes  *)
(* before it.                                                              *)
LEMMA FirstReasonEarliest ==
  ASSUME NEW checks, DOMAIN checks \subseteq 1 .. 6,
         \A i \in DOMAIN checks : (1 .. i) \subseteq DOMAIN checks,
         NEW holds, NEW k \in DOMAIN checks, checks[k] \in holds
  PROVE  \E i \in 1 .. k : FirstReason(checks, holds) = checks[i] /\ checks[i] \in holds
<1> DEFINE S == {i \in DOMAIN checks : checks[i] \in holds}
           Least(i) == checks[i] \in holds /\ \A j \in 1 .. (i - 1) : checks[j] \notin holds
           first == CHOOSE i \in DOMAIN checks : Least(i)
<1>1. PICK i \in S : \A j \in 1 .. (i - 1) : j \notin S
  BY FirstPosition
<1>2. \A j \in 1 .. (i - 1) : j \in DOMAIN checks
  BY <1>1
<1>3. i \in DOMAIN checks /\ Least(i)
  BY <1>1, <1>2
<1>4. first \in DOMAIN checks /\ Least(first)
  <2> HIDE DEF Least
  <2>1. QED  BY <1>3
<1>5. FirstReason(checks, holds) = checks[first]
  BY DEF FirstReason
<1> HIDE DEF first
<1>6. first <= k
  BY <1>4
<1>7. QED  BY <1>4, <1>5, <1>6

LEMMA FirstReasonHolds ==
  ASSUME NEW checks, DOMAIN checks \subseteq 1 .. 6,
         \A i \in DOMAIN checks : (1 .. i) \subseteq DOMAIN checks,
         NEW holds
  PROVE  FirstReason(checks, holds) \in holds \cup {"none"}
<1>1. CASE \E k \in DOMAIN checks : checks[k] \in holds
  BY <1>1, FirstReasonEarliest
<1>2. CASE ~ \E k \in DOMAIN checks : checks[k] \in holds
  BY <1>2 DEF FirstReason
<1>3. QED  BY <1>1, <1>2

(* The MSP430 has no halt; a program keeps to the CPU's instructions.      *)
Msp430Loaded ==
  cpu = "msp430" => \A p \in 0 .. Last : program[p].kind \in Stacked

(* A run that is on has not ended.                                         *)
NotEnded == where = "running" => ended = "none"

(* -run starts with an empty stack and counts from there.                  *)
CountsReturns ==
  mode = "run" /\ cpu = "msp430" =>
    /\ auto_run = TRUE /\ usec = 1
    /\ where = "prompt" => stack = << >> /\ nested_call_count = 0 /\ ended = "none"
    /\ UnmatchedReturnEnds

(* While a function runs that call f started, the stack it found is        *)
(* untouched under the address that ends it, and the return addresses on   *)
(* top of that are addresses of instructions.                              *)
InCall ==
  /\ cpu = "msp430" /\ command = "call" /\ where = "running"
  /\ program[Last].kind \notin {"op", "call"}
CallFrames ==
  InCall =>
    /\ pc \in 0 .. Last /\ Len(entry) < Len(stack)
    /\ \A i \in 1 .. Len(entry) : stack[i] = entry[i]
    /\ stack[Len(entry) + 1] = Top
    /\ \A i \in (Len(entry) + 2) .. Len(stack) : stack[i] \in 0 .. Last

CallInv == Msp430Loaded /\ NotEnded /\ CountsReturns /\ CallFrames

LEMMA InitCallInv == SimInit => CallInv
<1> SUFFICES ASSUME SimInit PROVE CallInv
  OBVIOUS
<1>1. Msp430Loaded
  BY DEF SimInit, Msp430Loaded, Simulator, Simulators, SimulateMsp430, Loop
<1>2. NotEnded /\ CallFrames
  BY DEF SimInit, NotEnded, CallFrames, InCall
<1>3. CountsReturns
  BY DEF SimInit, CountsReturns, UnmatchedReturnEnds
<1>4. QED  BY <1>1, <1>2, <1>3 DEF CallInv

(* The end of an instruction on the MSP430.                                *)
LEMMA AfterMsp430 ==
  ASSUME SimInv, cpu = "msp430", where = "running", NEW p, NEW n \in Int,
         NEW seen \in SUBSET {"illegal", "brk"}, AfterInstruction(p, n, seen)
  PROVE  /\ ended' = "returned" <=> auto_run /\ n < 0
         /\ ended' = "top" => p = Top
         /\ ended' = "none" => pc' = p /\ p # Top
         /\ "illegal" \in seen => ended' \in {"returned", "illegal"}
         /\ where' \in {"running", "exited", "prompt"}
         /\ where' = "running" <=> ended' = "none"
         /\ where' = "prompt" => mode # "run"
         /\ n >= -MaxNested => nested_call_count' = n
         /\ UNCHANGED <<cpu, program, mode, usec, auto_run, command, entry>>
<1> DEFINE checks == Simulator.checks
<1> DEFINE reached == IF p = Top THEN {"top"} ELSE {}
           holds == seen \cup (IF auto_run /\ n < 0 THEN {"returned"} ELSE {})
                         \cup (IF Hits(p) THEN {"break"} ELSE {})
                         \cup (IF usec = 0 \/ step THEN {"step"} ELSE {}) \cup reached
           end == FirstReason(checks, holds)
<1>1. /\ ended' = end
      /\ IF end = "top" THEN pc' \in 0 .. Last ELSE pc' = p
      /\ nested_call_count' = Within(n)
      /\ IF end = "none" THEN UNCHANGED where ELSE Leave
      /\ UNCHANGED <<session, settings, auto_run, step, command, entry, commands>>
  <2>1. cpu # "lc3"
    OBVIOUS
  <2>2. PICK top \in IF cpu = "lc3" THEN {{}, {"top"}} ELSE {reached} :
          LET some == seen \cup (IF auto_run /\ n < 0 THEN {"returned"} ELSE {})
                           \cup (IF Hits(p) THEN {"break"} ELSE {})
                           \cup (IF usec = 0 \/ step THEN {"step"} ELSE {}) \cup top
              why == FirstReason(checks, some)
          IN  /\ ended' = why
              /\ IF why = "top" THEN pc' \in 0 .. Last ELSE pc' = p
              /\ nested_call_count' = Within(n)
              /\ IF why = "none" THEN UNCHANGED where ELSE Leave
              /\ UNCHANGED <<session, settings, auto_run, step, command, entry, commands>>
    BY Zenon DEF AfterInstruction
  <2>3. top = reached
    BY <2>1, <2>2
  <2>4. QED  BY <2>2, <2>3
<1>2. checks = <<"returned", "illegal", "break", "step", "top">>
  BY DEF Simulator, Simulators, SimulateMsp430, Loop
<1>3. Simulator.counts = {"call", "ret"}
  BY DEF Simulator, Simulators, SimulateMsp430, Loop
<1>4. DOMAIN checks = 1 .. 5
  BY <1>2
<1>5. \A i \in DOMAIN checks : (1 .. i) \subseteq DOMAIN checks
  BY <1>4
<1> HIDE DEF checks, end
<1>6. ended' \in holds \cup {"none"}
  BY <1>4, <1>5, <1>1, FirstReasonHolds DEF end
<1>7. \A k \in 1 .. 5 : checks[k] \in holds => \E i \in 1 .. k : ended' = checks[i]
  BY <1>4, <1>5, <1>1, FirstReasonEarliest DEF end
<1>8. "returned" \in holds => ended' = "returned"
  BY <1>2, <1>7
<1>9. "illegal" \in holds => ended' \in {"returned", "illegal"}
  BY <1>2, <1>7
<1>10. "top" \in holds => ended' # "none"
  BY <1>2, <1>7
<1>11. "returned" \in holds <=> auto_run /\ n < 0
  OBVIOUS
<1>12. "top" \in holds <=> p = Top
  OBVIOUS
<1>13. where' \in {"running", "exited", "prompt"} /\ (where' = "running" <=> ended' = "none")
         /\ (where' = "prompt" => mode # "run")
  BY <1>1 DEF Leave
<1>14. n >= -MaxNested => nested_call_count' = n
  BY <1>3, <1>1, SimulatorConstants DEF Within
<1>15. UNCHANGED <<cpu, program, mode, usec, auto_run, command, entry>>
  BY <1>1 DEF session, settings
<1>16. QED
  BY <1>6, <1>8, <1>9, <1>10, <1>1, <1>11, <1>12, <1>13, <1>14, <1>15

LEMMA CommandFacts ==
  ASSUME Commands
  PROVE  /\ where = "prompt" /\ UNCHANGED session
         /\ mode = "run" => Run(None)
         /\ where' = "running" => ended' = "none"
         /\ where' = "running" /\ command' = "call" => \E f \in 0 .. Last : CallCommand(f)
<1>1. ASSUME Type PROVE where = "prompt" /\ mode # "run"
  BY <1>1 DEF Type
<1>2. ASSUME NEW name, NEW single, NEW armed, EnterRun(name, single, armed)
      PROVE  command' = name /\ ended' = "none" /\ UNCHANGED session
  BY <1>2, Zenon DEF EnterRun
<1>3. ASSUME Idle PROVE UNCHANGED session /\ where' = where
  BY <1>3, Zenon DEF Idle
<1>4. ASSUME NEW at \in {None} \cup 0 .. Last, Run(at)
      PROVE  /\ where = "prompt" /\ UNCHANGED session /\ (mode = "run" => Run(None))
             /\ ended' = "none" /\ command' = "run"
  <2>1. where = "prompt" /\ (mode = "run" => at = None)
    BY <1>4, Zenon DEF Run
  <2>2. command' = "run" /\ ended' = "none" /\ UNCHANGED session
    BY <1>2, <1>4, Zenon DEF Run
  <2>3. QED  BY <1>4, <2>1, <2>2
<1>5. ASSUME Step
      PROVE  /\ where = "prompt" /\ mode # "run" /\ UNCHANGED session
             /\ ended' = "none" /\ command' = "step"
  <2>1. Type /\ EnterRun("step", TRUE, FALSE)
    BY <1>5, Zenon DEF Step
  <2>2. QED  BY <1>1, <1>2, <2>1
<1>6. ASSUME Again
      PROVE  /\ where = "prompt" /\ mode # "run" /\ UNCHANGED session
             /\ ended' = "none" /\ command' = "again"
  <2>1. Type /\ EnterRun("again", TRUE, handler)
    BY <1>6, Zenon DEF Again
  <2>2. QED  BY <1>1, <1>2, <2>1
<1>7. ASSUME NEW f \in 0 .. Last, CallCommand(f)
      PROVE  where = "prompt" /\ mode # "run" /\ UNCHANGED session /\ ended' = "none"
  BY <1>1, <1>2, <1>7, Zenon DEF CallCommand
<1>8. ASSUME \/ RemoveBreak \/ Reset \/ \E f \in 0 .. Last : Push(f)
             \/ \E t \in 0 .. Last, named \in BOOLEAN : Break(t, named)
             \/ \E delay \in {0, 1} : Speed(delay)
      PROVE  where = "prompt" /\ mode # "run" /\ UNCHANGED session /\ where' = where
  BY <1>1, <1>3, <1>8, Zenon DEF RemoveBreak, Reset, Push, Break, Speed
<1>9. ASSUME Quit
      PROVE  where = "prompt" /\ mode # "run" /\ UNCHANGED session /\ where' = "exited"
  BY <1>1, <1>9, Zenon DEF Quit
<1>10. QED
  BY <1>4, <1>5, <1>6, <1>7, <1>8, <1>9 DEF Commands

LEMMA CommandsKeepCallInv == ASSUME SimInv, CallInv, Commands PROVE CallInv'
<1>1. /\ where = "prompt" /\ cpu' = cpu /\ program' = program /\ mode' = mode
      /\ mode = "run" => Run(None)
      /\ where' = "running" => ended' = "none"
      /\ where' = "running" /\ command' = "call" => \E f \in 0 .. Last : CallCommand(f)
  BY CommandFacts DEF session
<1>2. Msp430Loaded' /\ NotEnded'
  BY <1>1 DEF CallInv, Msp430Loaded, NotEnded, Last
<1>3. CountsReturns'
  <2> SUFFICES ASSUME mode = "run", cpu = "msp430"
               PROVE  CountsReturns'
    BY <1>1 DEF CountsReturns
  <2>1. /\ auto_run = TRUE /\ usec = 1 /\ stack = << >> /\ nested_call_count = 0
    BY <1>1 DEF CallInv, CountsReturns
  <2>2. /\ Run(None) /\ UNCHANGED <<stack, nested_call_count>>
        /\ auto_run' = (auto_run /\ usec # 0)
        /\ EnterRun("run", FALSE, handler /\ usec # 0)
    BY <1>1, Zenon DEF Run
  <2>3. where' = "running" /\ ended' = "none" /\ usec' = usec
    <3>1. where' = "running" /\ ended' = "none" /\ UNCHANGED settings
      BY <2>2, Zenon DEF EnterRun
    <3>2. QED  BY <3>1 DEF settings
  <2>4. auto_run' = TRUE
    <3>1. usec # 0
      BY <2>1
    <3>2. QED  BY <2>1, <2>2, <3>1, Zenon
  <2>5. UnmatchedReturnEnds'
    BY <2>1, <2>2, <2>3 DEF UnmatchedReturnEnds
  <2>6. QED  BY <2>1, <2>3, <2>4, <2>5 DEF CountsReturns
<1>4. CallFrames'
  <2> SUFFICES ASSUME InCall' PROVE CallFrames'
    BY DEF CallFrames
  <2>1. PICK f \in 0 .. Last : CallCommand(f)
    BY <1>1 DEF InCall
  <2>2. cpu = "msp430"
    BY <1>1 DEF InCall
  <2>3. stack' = Append(stack, Top) /\ pc' = f /\ entry' = stack
    BY <2>1, <2>2 DEF CallCommand, Pushed, PushesWholeAddress
  <2>4. stack \in Seq(Location) /\ Top \in Location
    BY SimulatorConstants DEF SimInv, SimTypeOK, MachineOK, Location
  <2>5. /\ Len(stack') = Len(stack) + 1 /\ stack'[Len(stack) + 1] = Top
        /\ \A i \in 1 .. Len(stack) : stack'[i] = stack[i]
        /\ Len(stack) \in Nat
    BY <2>3, <2>4
  <2>6. QED  BY <2>3, <2>5 DEF CallFrames, Last
<1>5. QED  BY <1>2, <1>3, <1>4 DEF CallInv

LEMMA AfterNotEnded ==
  ASSUME NEW p, NEW n, NEW seen, AfterInstruction(p, n, seen)
  PROVE  (where' = "running" => ended' = "none") /\ UNCHANGED session
<1> PICK end :
      /\ ended' = end /\ (IF end = "none" THEN UNCHANGED where ELSE Leave)
      /\ UNCHANGED session
  BY Zenon DEF AfterInstruction
<1>1. QED  BY DEF Leave

(* An iteration of any loop.                                               *)
LEMMA IterateFacts ==
  ASSUME Iterate
  PROVE  where = "running" /\ (where' = "running" => ended' = "none") /\ UNCHANGED session
<1>1. ASSUME Stopped PROVE where = "running" /\ where' # "running" /\ UNCHANGED session
  BY <1>1, Zenon DEF Stopped, Leave
<1>2. ASSUME Operate \/ Jump \/ Call \/ Return \/ Halt \/ Bad
      PROVE  where = "running" /\ \E p, n, seen : AfterInstruction(p, n, seen)
  BY <1>2, Zenon DEF Operate, Jump, Call, Return, Halt, Bad, Executes
<1>3. QED  BY <1>1, <1>2, AfterNotEnded, Zenon DEF Iterate

(* What an instruction of the MSP430 does to the pc, the count and the     *)
(* stack of return addresses.                                              *)
Safe == pc \in 0 .. Last /\ program[Last].kind \notin {"op", "call"}

Moves ==      \* op, goto
  \E p : /\ AfterInstruction(p, nested_call_count, {}) /\ stack' = stack
         /\ Safe => p \in 0 .. Last
Calls ==
  \E p, q : /\ AfterInstruction(p, nested_call_count + 1, {}) /\ stack' = Append(stack, q)
            /\ q \in Location /\ (Safe => p \in 0 .. Last /\ q \in 0 .. Last)
Returns ==
  \E p : /\ AfterInstruction(p, nested_call_count - 1, {})
         /\ stack # << >> => p = stack[Len(stack)]
         /\ stack' = IF stack = << >> THEN << >> ELSE SubSeq(stack, 1, Len(stack) - 1)
Fails ==
  \E p : AfterInstruction(p, nested_call_count, {"illegal", "brk"}) /\ stack' = stack

LEMMA InstructionsOfMsp430 ==
  ASSUME SimInv, CallInv, cpu = "msp430", Iterate
  PROVE  Moves \/ Calls \/ Returns \/ Fails \/ Stopped
<1> USE SimulatorConstants
<1>1. /\ pc \in Location /\ stack \in Seq(Location) /\ nested_call_count \in Int
      /\ program \in [0 .. Last -> Instruction]
      /\ \A p \in 0 .. Last : program[p].kind \in Stacked
  BY DEF SimInv, SimTypeOK, MachineOK, SessionOK, CallInv, Msp430Loaded
<1>2. At(pc).kind # "bad" => pc \in 0 .. Last /\ At(pc) = program[pc]
  BY <1>1 DEF At, Location, Last
<1>3. \A kind \in {"call", "ret"} : \A n : Counted(kind, n) = n
  BY DEF Counted, Simulator, Simulators, SimulateMsp430, Loop
<1>4. pc \in 0 .. Last => NextPc(pc) = pc + 1 /\ NextPc(pc) \in Location
  BY DEF NextPc, Location, Last
<1>5. pc \in 0 .. Last /\ pc # Last => NextPc(pc) \in 0 .. Last
  BY <1>4 DEF Last
<1>6. At(pc).kind \in {"op", "call"} /\ Safe => pc # Last
  BY <1>2 DEF Safe
<1>7. At(pc).kind \in {"goto", "call"} => At(pc).to \in 0 .. Last
  BY <1>1, <1>2 DEF Instruction, Last
<1>8. CASE Operate
  <2>1. /\ At(pc).kind = "op" /\ AfterInstruction(NextPc(pc), nested_call_count, {})
        /\ stack' = stack
    BY <1>8, Zenon DEF Operate, Executes
  <2>2. Safe => NextPc(pc) \in 0 .. Last
    BY <1>2, <1>5, <1>6, <2>1
  <2>3. Moves
    BY <2>1, <2>2, Zenon DEF Moves
  <2>4. QED  BY <2>3
<1>9. CASE Jump
  <2>1. /\ At(pc).kind = "goto" /\ AfterInstruction(At(pc).to, nested_call_count, {})
        /\ stack' = stack
    BY <1>9, Zenon DEF Jump, Executes
  <2>2. Moves
    BY <1>7, <2>1 DEF Moves
  <2>3. QED  BY <2>2
<1>10. CASE Call
  <2>1. /\ At(pc).kind = "call" /\ stack' = Append(stack, NextPc(pc))
        /\ AfterInstruction(At(pc).to, nested_call_count + Counted("call", 1), {})
    BY <1>10, Zenon DEF Call, Executes
  <2>2. Counted("call", 1) = 1
    BY <1>3
  <2>3. AfterInstruction(At(pc).to, nested_call_count + 1, {})
    BY <2>1, <2>2
  <2>4. NextPc(pc) \in Location /\ At(pc).to \in 0 .. Last
    BY <1>2, <1>4, <1>7, <2>1
  <2>5. Safe => NextPc(pc) \in 0 .. Last
    BY <1>2, <1>5, <1>6, <2>1
  <2>6. Calls
    BY <2>1, <2>3, <2>4, <2>5, Zenon DEF Calls
  <2>7. QED  BY <2>6
<1>11. CASE Return
  <2>1. PICK p \in IF stack = << >> THEN Location ELSE {stack[Len(stack)]} :
          AfterInstruction(p, nested_call_count - Counted("ret", 1), {})
    BY <1>11, Zenon DEF Return
  <2>2. stack' = IF stack = << >> THEN << >> ELSE SubSeq(stack, 1, Len(stack) - 1)
    BY <1>11, Zenon DEF Return
  <2>3. Counted("ret", 1) = 1
    BY <1>3
  <2>4. AfterInstruction(p, nested_call_count - 1, {})
    BY <2>1, <2>3
  <2>5. Returns
    BY <2>1, <2>2, <2>4, Zenon DEF Returns
  <2>6. QED  BY <2>5
<1>12. CASE Halt
  <2>1. At(pc).kind = "halt"
    BY <1>12, Zenon DEF Halt, Executes
  <2>2. QED  BY <1>1, <1>2, <2>1 DEF Stacked, Plain
<1>13. CASE Bad
  BY <1>13, Zenon DEF Bad, Fails
<1>14. QED  BY <1>8, <1>9, <1>10, <1>11, <1>12, <1>13 DEF Iterate

(* -run counts its return addresses, whatever the program does.            *)
LEMMA IterateCounts ==
  ASSUME SimInv, CallInv, Iterate, mode = "run", cpu = "msp430"
  PROVE  CountsReturns'
<1> USE SimulatorConstants
<1>1. where = "running" /\ mode' = mode /\ cpu' = cpu
  BY IterateFacts DEF session
<1>2. /\ auto_run = TRUE /\ usec = 1
      /\ nested_call_count >= 0 /\ nested_call_count = Len(stack)
      /\ stack \in Seq(Location) /\ nested_call_count \in Int
  BY <1>1 DEF CallInv, CountsReturns, UnmatchedReturnEnds, SimInv, SimTypeOK, MachineOK
<1>3. Moves \/ Calls \/ Returns \/ Fails \/ Stopped
  BY InstructionsOfMsp430
<1> DEFINE After(n) ==
      /\ ended' = "returned" <=> n < 0
      /\ where' \in {"running", "exited"} /\ (where' = "running" <=> ended' = "none")
      /\ n >= -MaxNested => nested_call_count' = n
      /\ auto_run' = TRUE /\ usec' = 1
<1>4. ASSUME NEW p, NEW n \in Int, NEW seen \in SUBSET {"illegal", "brk"},
             AfterInstruction(p, n, seen)
      PROVE  After(n)
  BY <1>1, <1>2, <1>4, AfterMsp430
<1>5. ASSUME NEW n \in Int, After(n), n >= 0, Len(stack') = n
      PROVE  CountsReturns'
  BY <1>1, <1>5 DEF CountsReturns, UnmatchedReturnEnds
<1> HIDE DEF After
<1>6. CASE Moves \/ Fails
  <2>1. After(nested_call_count) /\ stack' = stack
    BY <1>2, <1>4, <1>6 DEF Moves, Fails
  <2>2. QED  BY <1>2, <1>5, <2>1
<1>7. CASE Calls
  <2>1. PICK q \in Location : After(nested_call_count + 1) /\ stack' = Append(stack, q)
    BY <1>2, <1>4, <1>7 DEF Calls
  <2>2. Len(stack') = nested_call_count + 1
    BY <1>2, <2>1
  <2>3. QED  BY <1>2, <1>5, <2>1, <2>2
<1>8. CASE Returns
  <2>1. After(nested_call_count - 1)
    BY <1>2, <1>4, <1>8 DEF Returns
  <2>2. CASE stack = << >>
    <3>1. stack' = << >> /\ nested_call_count = 0
      BY <1>2, <1>8, <2>2 DEF Returns
    <3>2. ended' = "returned" /\ where' = "exited" /\ nested_call_count' = -1
      BY <2>1, <3>1 DEF After
    <3>3. auto_run' = TRUE /\ usec' = 1
      BY <2>1 DEF After
    <3>4. QED  BY <1>1, <3>1, <3>2, <3>3 DEF CountsReturns, UnmatchedReturnEnds
  <2>3. CASE stack # << >>
    <3>1. Len(stack') = nested_call_count - 1 /\ nested_call_count - 1 >= 0
      BY <1>2, <1>8, <2>3 DEF Returns
    <3>2. QED  BY <1>2, <1>5, <2>1, <3>1
  <2>4. QED  BY <2>2, <2>3
<1>9. CASE Stopped
  <2>1. /\ where' = "exited" /\ ended' = "stopped"
        /\ UNCHANGED <<stack, nested_call_count, auto_run, usec>>
    BY <1>9 DEF Stopped, Leave, machine, settings
  <2>2. QED  BY <1>1, <1>2, <2>1 DEF CountsReturns, UnmatchedReturnEnds
<1>10. QED  BY <1>3, <1>6, <1>7, <1>8, <1>9

(* A return leaves the stack found by call f either with the addresses of  *)
(* calls that are not over, or alone: then it went to 0xffff.              *)
LEMMA ReturnInCall ==
  ASSUME SimInv, CallFrames, InCall, NEW p,
         stack # << >> => p = stack[Len(stack)],
         stack' = IF stack = << >> THEN << >> ELSE SubSeq(stack, 1, Len(stack) - 1)
  PROVE  \/ p = Top /\ stack' = entry
         \/ /\ p \in 0 .. Last /\ Len(entry) < Len(stack')
            /\ Len(stack') < Len(stack)
            /\ \A i \in 1 .. Len(stack') : stack'[i] = stack[i]
<1>1. stack \in Seq(Location) /\ entry \in Seq(Location)
  BY DEF SimInv, SimTypeOK, MachineOK, RunOK
<1>2. /\ Len(entry) < Len(stack) /\ stack[Len(entry) + 1] = Top
      /\ \A i \in 1 .. Len(entry) : stack[i] = entry[i]
      /\ \A i \in (Len(entry) + 2) .. Len(stack) : stack[i] \in 0 .. Last
  BY DEF CallFrames
<1>3. stack # << >> /\ Len(stack) \in Nat /\ Len(entry) \in Nat
  BY <1>1, <1>2
<1>4. p = stack[Len(stack)] /\ stack' = SubSeq(stack, 1, Len(stack) - 1)
  BY <1>3
<1>5. /\ stack' \in Seq(Location) /\ Len(stack') = Len(stack) - 1
      /\ \A i \in 1 .. Len(stack') : stack'[i] = stack[i]
  <2>1. \A n \in 0 .. Len(stack) : \A q :
          q = SubSeq(stack, 1, n) =>
            q \in Seq(Location) /\ Len(q) = n /\ \A i \in 1 .. n : q[i] = stack[i]
    BY <1>1
  <2>2. Len(stack) - 1 \in 0 .. Len(stack)
    BY <1>2, <1>3
  <2>3. QED  BY <1>4, <2>1, <2>2
<1>6. CASE Len(stack) = Len(entry) + 1
  <2>1. p = Top
    BY <1>2, <1>4, <1>6
  <2>2. Len(stack') = Len(entry) /\ \A i \in 1 .. Len(entry) : stack'[i] = entry[i]
    BY <1>2, <1>3, <1>5, <1>6
  <2>3. stack' = entry
    BY <1>1, <1>5, <2>2
  <2>4. QED  BY <2>1, <2>3
<1>7. CASE Len(stack) # Len(entry) + 1
  <2>1. Len(stack) \in (Len(entry) + 2) .. Len(stack) /\ Len(entry) < Len(stack) - 1
    BY <1>2, <1>3, <1>7
  <2>2. QED  BY <1>2, <1>3, <1>4, <1>5, <2>1
<1>8. QED  BY <1>6, <1>7

LEMMA IterateFrames ==
  ASSUME SimInv, CallInv, Iterate
  PROVE  CallFrames' /\ (InCall /\ ended' = "top" => stack' = entry)
<1> USE SimulatorConstants
<1>1. where = "running" /\ cpu' = cpu /\ program' = program
  BY IterateFacts DEF session
<1> SUFFICES ASSUME cpu = "msp430"
             PROVE  CallFrames' /\ (InCall /\ ended' = "top" => stack' = entry)
  BY <1>1 DEF CallFrames, InCall
<1>2. Moves \/ Calls \/ Returns \/ Fails \/ Stopped
  BY InstructionsOfMsp430
<1>3. /\ stack \in Seq(Location) /\ entry \in Seq(Location) /\ nested_call_count \in Int
      /\ Top \notin 0 .. Last
  BY DEF SimInv, SimTypeOK, MachineOK, RunOK, Last
<1>4. InCall =>
        /\ Safe /\ Len(entry) < Len(stack) /\ stack[Len(entry) + 1] = Top
        /\ \A i \in 1 .. Len(entry) : stack[i] = entry[i]
        /\ \A i \in (Len(entry) + 2) .. Len(stack) : stack[i] \in 0 .. Last
  BY DEF CallInv, CallFrames, InCall, Safe
<1> DEFINE After(p, seen) ==
      /\ ended' = "top" => p = Top
      /\ ended' = "none" => pc' = p /\ p # Top
      /\ "illegal" \in seen => ended' \in {"returned", "illegal"}
      /\ where' = "running" <=> ended' = "none"
      /\ command' = command /\ entry' = entry
<1>5. ASSUME NEW p, NEW n \in Int, NEW seen \in SUBSET {"illegal", "brk"},
             AfterInstruction(p, n, seen)
      PROVE  After(p, seen)
  BY <1>1, <1>5, AfterMsp430
<1>6. ASSUME NEW p, NEW seen, After(p, seen), InCall'
      PROVE  InCall /\ pc' = p /\ p # Top
  BY <1>1, <1>6 DEF InCall, Last
<1>7. ASSUME NEW p, NEW seen, After(p, seen), ended' = "top"
      PROVE  p = Top
  BY <1>7
<1>8. ASSUME NEW p, NEW seen, After(p, seen) PROVE entry' = entry
  BY <1>8
<1>9. ASSUME NEW p, NEW seen, After(p, seen), "illegal" \in seen
      PROVE  ~InCall' /\ ended' # "top"
  BY <1>9 DEF InCall
<1> HIDE DEF After
<1>10. CASE Moves
  <2>1. PICK p : After(p, {}) /\ stack' = stack /\ (Safe => p \in 0 .. Last)
    BY <1>3, <1>5, <1>10 DEF Moves
  <2>2. InCall' => CallFrames'
    BY <1>4, <1>6, <1>8, <2>1 DEF CallFrames, Last
  <2>3. InCall => ended' # "top"
    BY <1>3, <1>4, <1>7, <2>1
  <2>4. QED  BY <2>2, <2>3 DEF CallFrames
<1>11. CASE Calls
  <2>1. PICK p, q : /\ After(p, {}) /\ stack' = Append(stack, q) /\ q \in Location
                    /\ Safe => p \in 0 .. Last /\ q \in 0 .. Last
    BY <1>3, <1>5, <1>11 DEF Calls
  <2>2. /\ Len(stack') = Len(stack) + 1 /\ stack'[Len(stack) + 1] = q
        /\ \A i \in 1 .. Len(stack) : stack'[i] = stack[i]
        /\ Len(stack) \in Nat /\ Len(entry) \in Nat
    BY <1>3, <2>1
  <2>3. ASSUME InCall' PROVE CallFrames'
    <3>1. InCall /\ pc' = p /\ entry' = entry
      BY <1>6, <1>8, <2>1, <2>3
    <3>2. p \in 0 .. Last /\ q \in 0 .. Last
      BY <1>4, <2>1, <3>1
    <3>3. ASSUME NEW i \in (Len(entry) + 2) .. Len(stack') PROVE stack'[i] \in 0 .. Last
      <4>1. CASE i = Len(stack) + 1
        BY <2>2, <3>2, <4>1
      <4>2. CASE i # Len(stack) + 1
        <5>1. i \in (Len(entry) + 2) .. Len(stack) /\ i \in 1 .. Len(stack)
          BY <2>2, <4>2
        <5>2. QED  BY <1>4, <2>2, <3>1, <5>1
      <4>3. QED  BY <4>1, <4>2
    <3>4. /\ Len(entry) < Len(stack') /\ stack'[Len(entry) + 1] = Top
          /\ \A i \in 1 .. Len(entry) : stack'[i] = entry[i]
      BY <1>4, <2>2, <3>1
    <3>5. QED  BY <3>1, <3>2, <3>3, <3>4 DEF CallFrames, Last
  <2>4. InCall => ended' # "top"
    BY <1>3, <1>4, <1>7, <2>1
  <2>5. QED  BY <2>3, <2>4 DEF CallFrames
<1>12. CASE Returns
  <2>1. PICK p :
          /\ After(p, {}) /\ (stack # << >> => p = stack[Len(stack)])
          /\ stack' = IF stack = << >> THEN << >> ELSE SubSeq(stack, 1, Len(stack) - 1)
    BY <1>3, <1>5, <1>12 DEF Returns
  <2>2. InCall =>
          \/ p = Top /\ stack' = entry
          \/ /\ p \in 0 .. Last /\ Len(entry) < Len(stack') /\ Len(stack') < Len(stack)
             /\ \A i \in 1 .. Len(stack') : stack'[i] = stack[i]
    BY <2>1, ReturnInCall DEF CallInv
  <2>3. ASSUME InCall' PROVE CallFrames'
    <3>1. InCall /\ pc' = p /\ p # Top /\ entry' = entry
      BY <1>6, <1>8, <2>1, <2>3
    <3>2. /\ p \in 0 .. Last /\ Len(entry) < Len(stack') /\ Len(stack') < Len(stack)
          /\ \A i \in 1 .. Len(stack') : stack'[i] = stack[i]
      BY <2>2, <3>1
    <3>3. Len(entry) \in Nat /\ Len(stack) \in Nat /\ Len(stack') \in Nat
      <4>1. stack' \in Seq(Location)
        BY <1>3, <2>1
      <4>2. QED  BY <1>3, <4>1
    <3>4. /\ stack'[Len(entry) + 1] = Top
          /\ \A i \in 1 .. Len(entry) : stack'[i] = entry[i]
          /\ \A i \in (Len(entry) + 2) .. Len(stack') : stack'[i] \in 0 .. Last
      <4>1. Len(entry) + 1 \in 1 .. Len(stack')
        BY <3>2, <3>3
      <4>2. ASSUME NEW i \in 1 .. Len(entry) PROVE stack'[i] = entry[i]
        <5>1. i \in 1 .. Len(stack')
          BY <3>2, <3>3
        <5>2. QED  BY <1>4, <3>1, <3>2, <5>1
      <4>3. ASSUME NEW i \in (Len(entry) + 2) .. Len(stack') PROVE stack'[i] \in 0 .. Last
        <5>1. i \in 1 .. Len(stack') /\ i \in (Len(entry) + 2) .. Len(stack)
          BY <3>2, <3>3
        <5>2. QED  BY <1>4, <3>1, <3>2, <5>1
      <4>4. QED  BY <1>4, <3>1, <3>2, <4>1, <4>2, <4>3
    <3>5. QED  BY <3>1, <3>2, <3>4 DEF CallFrames, Last
  <2>4. InCall /\ ended' = "top" => stack' = entry
    BY <1>3, <1>7, <2>1, <2>2
  <2>5. QED  BY <2>3, <2>4 DEF CallFrames
<1>13. CASE Fails
  <2>1. ~InCall' /\ ended' # "top"
    BY <1>3, <1>5, <1>9, <1>13 DEF Fails
  <2>2. QED  BY <2>1 DEF CallFrames
<1>14. CASE Stopped
  BY <1>14 DEF Stopped, Leave, CallFrames, InCall
<1>15. QED  BY <1>2, <1>10, <1>11, <1>12, <1>13, <1>14

LEMMA CtrlCKeepsCallInv == ASSUME CallInv, CtrlC PROVE CallInv'
<1>1. /\ where' \in {where, "killed"}
      /\ UNCHANGED <<machine, settings, session, auto_run, command, entry, ended>>
  BY Zenon DEF CtrlC
<1>2. /\ where' = "running" => where = "running"
      /\ where' = "prompt" => where = "prompt"
  BY <1>1
<1>3. UNCHANGED <<cpu, program, mode, pc, stack, nested_call_count, usec>>
  BY <1>1 DEF machine, settings, session
<1>4. Msp430Loaded' /\ NotEnded'
  BY <1>1, <1>2, <1>3 DEF CallInv, Msp430Loaded, NotEnded, Last
<1>5. CountsReturns'
  BY <1>1, <1>2, <1>3 DEF CallInv, CountsReturns, UnmatchedReturnEnds
<1>6. CallFrames'
  BY <1>1, <1>2, <1>3 DEF CallInv, CallFrames, InCall, Last
<1>7. QED  BY <1>4, <1>5, <1>6 DEF CallInv

LEMMA CallInvariance == SimSpec => []CallInv
<1>1. ASSUME SimInv, CallInv, Iterate PROVE CallInv'
  <2>1. /\ cpu' = cpu /\ program' = program /\ mode' = mode
        /\ where' = "running" => ended' = "none"
    BY <1>1, IterateFacts DEF session
  <2>2. Msp430Loaded' /\ NotEnded'
    BY <1>1, <2>1 DEF CallInv, Msp430Loaded, NotEnded, Last
  <2>3. CountsReturns'
    <3>1. CASE mode = "run" /\ cpu = "msp430"
      BY <1>1, <3>1, IterateCounts
    <3>2. CASE ~(mode = "run" /\ cpu = "msp430")
      BY <2>1, <3>2 DEF CountsReturns
    <3>3. QED  BY <3>1, <3>2
  <2>4. QED  BY <1>1, <2>2, <2>3, IterateFrames DEF CallInv
<1>2. ASSUME CallInv, UNCHANGED simvars PROVE CallInv'
  BY <1>2 DEF CallInv, Msp430Loaded, NotEnded, CountsReturns, UnmatchedReturnEnds,
              CallFrames, InCall, Last, simvars, machine, settings, session
<1>3. SimInv /\ CallInv /\ [SimNext]_simvars => CallInv'
  BY <1>1, <1>2, CommandsKeepCallInv, CtrlCKeepsCallInv DEF SimNext
<1>4. QED  BY InitCallInv, Invariance, <1>3, PTL DEF SimSpec

(* naken_util -run ends as "returned" at a return that finds no return     *)
(* address and never before, however deep the program calls: the count and *)
(* the stack stay in step (msp430.cpp:216, 303, 607).                       *)
THEOREM UnmatchedReturns == SimSpec => []UnmatchedReturnEnds
<1>1. ASSUME SimInv, CallInv PROVE UnmatchedReturnEnds
  BY <1>1 DEF CallInv, CountsReturns, UnmatchedReturnEnds
<1>2. QED  BY <1>1, Invariance, CallInvariance, PTL

(* call f gives the stack back as it was when the function is over, for    *)
(* any program, depth of calls and stack pushed before.                    *)
THEOREM CallsKeepStack == SimSpec => CallKeepsStack
<1>1. ASSUME SimInv, CallInv, SimNext, cpu = "msp430", command = "call", ended' = "top",
             where = "running", program[Last].kind \notin {"op", "call"}
      PROVE  stack' = entry
  <2>1. CASE Commands
    BY <1>1, <2>1, CommandFacts
  <2>2. CASE Iterate
    BY <1>1, <2>2, IterateFrames DEF InCall
  <2>3. CASE CtrlC
    <3>1. ended' = ended
      BY <2>3, Zenon DEF CtrlC
    <3>2. QED  BY <1>1, <3>1 DEF CallInv, NotEnded
  <2>4. QED  BY <1>1, <2>1, <2>2, <2>3 DEF SimNext
<1>2. SimInv /\ CallInv /\ [SimNext]_simvars =>
        [/\ cpu = "msp430" /\ command = "call" /\ ended' = "top" /\ where = "running"
         /\ program[Last].kind \notin {"op", "call"}
         => stack' = entry]_simvars
  BY <1>1
<1>3. QED  BY <1>2, Invariance, CallInvariance, PTL DEF SimSpec, CallKeepsStack
============================================================================
