------------------------------- MODULE Memory -------------------------------
(***************************************************************************)
(* class Memory (common/Memory.cpp) and class MemoryPage                   *)
(* (common/MemoryPage.h): a list of pages, in the order in which programs  *)
(* first touched them.  Addresses are unsigned 32 bit numbers; only        *)
(* write8() computes the end of a page in 64 bits.                         *)
(***************************************************************************)
EXTENDS Integers, Sequences, FiniteSets

CONSTANTS
  Space,     \* 2^32, the number of addresses
  PageSize,  \* PAGE_SIZE
  Address,   \* the addresses programs use
  Byte,      \* the values of a byte
  Line       \* the values of a debug line

ASSUME MemoryAssumption ==
  /\ PageSize \in Nat \ {0}
  /\ Space \in Nat \ {0}
  /\ Space % PageSize = 0
  /\ Address \subseteq 0 .. Space - 1
  /\ Byte \subseteq Nat /\ 0 \in Byte
  /\ Line \subseteq Int

VARIABLES
  pages,         \* the list of pages
  low_address,
  high_address,
  hung           \* write() or write_debug() allocates pages forever

vars == <<pages, low_address, high_address, hung>>

Offset == 0 .. PageSize - 1
Page == [address : 0 .. Space - 1, bin : [Offset -> Byte],
         debug_line : [Offset -> Line \cup {-1}],
         offset_min : 0 .. PageSize, offset_max : Offset]

TypeOK ==
  /\ pages \in Seq(Page)
  /\ low_address \in 0 .. Space - 1
  /\ high_address \in 0 .. Space - 1
  /\ hung \in BOOLEAN

----------------------------------------------------------------------------

PageBase(a) == (a \div PageSize) * PageSize

NewPage(a) ==
  [address |-> PageBase(a), bin |-> [o \in Offset |-> 0],
   debug_line |-> [o \in Offset |-> -1],
   offset_min |-> PageSize, offset_max |-> 0]

(* address >= page->address && address < page->address + PAGE_SIZE, where  *)
(* the sum has 64 bits, and where it has 32.                               *)
InPage64(page, a) == page.address <= a /\ a < page.address + PageSize
InPage32(page, a) == page.address <= a /\ a < (page.address + PageSize) % Space

(* Fault: the last page of the list is not looked at. *)
Holding32_Short(a) == {p \in 1 .. Len(pages) - 1 : InPage32(pages[p], a)}

Holding32(a) == {p \in DOMAIN pages : InPage32(pages[p], a)}
Holding64(a) == {p \in DOMAIN pages : InPage64(pages[p], a)}
FirstOf(S) == CHOOSE p \in S : \A q \in S : p <= q

Read(a) ==
  IF Holding32(a) = {} THEN 0
  ELSE LET page == pages[FirstOf(Holding32(a))]
       IN  page.bin[a - page.address]

ReadDebug(a) ==
  IF Holding32(a) = {} THEN -1
  ELSE LET page == pages[FirstOf(Holding32(a))]
       IN  page.debug_line[a - page.address]

(* The list with a page for the address, and that page. *)
Extended(holding, a) == IF holding = {} THEN Append(pages, NewPage(a)) ELSE pages
Found(holding) == IF holding = {} THEN Len(pages) + 1 ELSE FirstOf(holding)

(* set_data() and set_debug(). *)
Lower(page, o) == IF o < page.offset_min THEN o ELSE page.offset_min

Higher(page, o) == IF o > page.offset_max THEN o ELSE page.offset_max
Stretched(page, o) ==
  [address |-> page.address, bin |-> page.bin, debug_line |-> page.debug_line,
   offset_min |-> Lower(page, o), offset_max |-> Higher(page, o)]

WithData(page, a, byte) ==
  LET o == a - page.address
  IN  [Stretched(page, o) EXCEPT !.bin[o] = byte]
WithDebug(page, a, line) ==
  LET o == a - page.address
  IN  [Stretched(page, o) EXCEPT !.debug_line[o] = line]

(* Fault: the second comparison is an else of the first one. *)
Cover_Else(a) ==
  /\ low_address' = IF a < low_address THEN a ELSE low_address
  /\ high_address' = IF a >= low_address /\ a > high_address THEN a
                                                           ELSE high_address

Cover(a) ==
  /\ low_address' = IF a < low_address THEN a ELSE low_address
  /\ high_address' = IF a > high_address THEN a ELSE high_address

Init ==
  /\ pages = << >>
  /\ low_address = Space - 1
  /\ high_address = 0
  /\ hung = FALSE

Write8(a, byte) ==
  /\ ~hung
  /\ pages' = [Extended(Holding64(a), a) EXCEPT
                 ![Found(Holding64(a))] = WithData(@, a, byte)]
  /\ Cover(a)
  /\ UNCHANGED hung

(* No page ever holds an address of the last page in 32 bits. *)
Endless(a) == Holding32(a) = {} /\ ~InPage32(NewPage(a), a)

Hang(a) ==
  /\ Endless(a)
  /\ hung' = TRUE
  /\ UNCHANGED <<pages, low_address, high_address>>

Write(a, byte, line) ==
  /\ ~hung
  /\ \/ Hang(a)
     \/ /\ ~Endless(a)
        /\ pages' = [Extended(Holding32(a), a) EXCEPT
                       ![Found(Holding32(a))] = WithDebug(WithData(@, a, byte), a, line)]
        /\ Cover(a)
        /\ UNCHANGED hung

WriteDebug(a, line) ==
  /\ ~hung
  /\ \/ Hang(a)
     \/ /\ ~Endless(a)
        /\ pages' = [Extended(Holding32(a), a) EXCEPT
                       ![Found(Holding32(a))] = WithDebug(@, a, line)]
        /\ UNCHANGED <<low_address, high_address, hung>>

Cleared(page) ==
  [address |-> page.address, bin |-> [o \in Offset |-> 0],
   debug_line |-> page.debug_line, offset_min |-> PageSize, offset_max |-> 0]

Clear ==
  /\ ~hung
  /\ pages' = [p \in DOMAIN pages |-> Cleared(pages[p])]
  /\ UNCHANGED <<low_address, high_address, hung>>

(* .low_address and .high_address assign the fields. *)
SetLowAddress(a) ==
  /\ ~hung
  /\ low_address' = a
  /\ UNCHANGED <<pages, high_address, hung>>

SetHighAddress(a) ==
  /\ ~hung
  /\ high_address' = a
  /\ UNCHANGED <<pages, low_address, hung>>

Next ==
  \/ \E a \in Address, byte \in Byte : Write8(a, byte)
  \/ \E a \in Address, byte \in Byte, line \in Line : Write(a, byte, line)
  \/ \E a \in Address, line \in Line : WriteDebug(a, line)
  \/ \E a \in Address : SetLowAddress(a) \/ SetHighAddress(a)
  \/ Clear

Spec == Init /\ [][Next]_vars

----------------------------------------------------------------------------

(* No two pages hold the same address, so what a scan of the list finds    *)
(* first is all there is of it (Memory.cpp:158-187,265-294).               *)
PagesDisjoint ==
  \A p, q \in DOMAIN pages : pages[p].address = pages[q].address => p = q

(* A byte or line that was written lies in the extent of its page, which   *)
(* is what the disassembler shows (util_disasm.cpp:69-89).                 *)
ExtentCovers ==
  \A p \in DOMAIN pages : \A o \in Offset :
    pages[p].bin[o] # 0 => pages[p].offset_min <= o /\ o <= pages[p].offset_max

(* Every address can be written: an .org is the "Address where next        *)
(* assembled bytes are written to" (docs/directives.md:149).               *)
EveryAddressWritable == ~hung

(* The map to the flat memory. *)
Flat == INSTANCE FlatMemory WITH
          LastAddress <- Space - 1,
          data <- [a \in Address |-> Read(a)],
          debug <- [a \in Address |-> ReadDebug(a)]

(* Below the last page the list of pages is a flat memory. *)
ImplementsFlat == Flat!Spec
=============================================================================
