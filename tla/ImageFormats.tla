---------------------------- MODULE ImageFormats ----------------------------
(***************************************************************************)
(* The image of a program is written to a file and read back: write_hex(), *)
(* write_srec(), write_bin(), write_wdc() and write_uf2() of fileio/, as   *)
(* file_write() calls them at the end of naken_asm, and their readers, as  *)
(* file_read() calls them at the start of naken_util.                      *)
(*                                                                         *)
(* A file is a sequence of records.  A byte is kept as what it is, and     *)
(* counts modulo Base in checksums; an address has four digits to that     *)
(* base, so that 2^8, 2^16, 2^24 and 2^32 are Base, Bank, Reach and Space.  *)
(* The header of S-records, the entry point, magic and block numbers are   *)
(* left out: the readers do not look at them, or always find them.         *)
(***************************************************************************)
EXTENDS Integers, Sequences, FiniteSets, SequencesExt, TLC

CONSTANTS
  Base,         \* 256
  LineLength,   \* the bytes of a line of hex or S-records: 16
  PicoAddress,  \* 0x10ffff00, where uf2_add_pico_ef() puts a block
  Pico,         \* 0xef, what the block is filled with
  Image         \* the images: [bytes, low_address, high_address]

Bank == Base * Base
Reach == Base * Bank
Space == Bank * Bank
Address == 0 .. Space - 1

Format == {"hex", "srec16", "srec24", "srec32", "bin", "wdc", "uf2"}
Lines == {"hex", "srec16", "srec24", "srec32"}

ImageFormatsAssumption ==
  /\ Base \in Nat \ {0, 1}
  /\ LineLength \in Nat \ {0, 1}
  /\ PicoAddress \in Address
  /\ \A i \in Image : /\ DOMAIN i.bytes \subseteq Address
                      /\ i.low_address \in Address /\ i.high_address \in Address
ASSUME ImageFormatsAssumption

VARIABLES
  format,
  image,         \* the memory of naken_asm
  n,             \* the loop of the writer
  address, data, \* the record it fills
  segment,       \* the upper half of addresses, last written and last read
  file,          \* the records that were written, and are still to be read
  bytes,         \* the memory of naken_util
  start, end,    \* the locals of read_hex() and read_srec()
  low_address, high_address,
  phase

writer == <<n, address, data>>
range == <<low_address, high_address>>
imagevars == <<format, image, writer, segment, file, bytes, start, end, range, phase>>

----------------------------------------------------------------------------

(* The digits of an address, of which digit 0 is the lowest, and the sum   *)
(* of the lowest two, three or four.                                       *)
Weight(i) == <<1, Base, Bank, Reach, Space>>[i + 1]
Digit(a, i) == (a \div Weight(i)) % Base
Digits(a, k) ==
  Digit(a, 0) + Digit(a, 1)
    + (IF k >= 3 THEN Digit(a, 2) ELSE 0) + (IF k = 4 THEN Digit(a, 3) ELSE 0)
Upper(a) == a \div Bank
Signed(a) ==
  IF a % Space >= Space \div 2 THEN (a % Space) - Space ELSE a % Space

(* read_debug() == DL_EMPTY, and read8(). *)
Empty(a) == a \notin DOMAIN image.bytes
Byte(a) == IF Empty(a) THEN 0 ELSE image.bytes[a]

Total(d) == FoldLeft(+, 0, d)

(* A record with the length of its address. *)
Record(kind, length, a, d, sum) ==
  [kind |-> kind, length |-> length, address |-> a, data |-> d, sum |-> sum % Base]

(* write_hex_line(): the upper half of the address has a line of its own.  *)
HexLine(a, d) ==
  (IF Upper(a) = segment THEN << >>
   ELSE <<Record("linear", 2, Upper(a), << >>, 6 + Digits(Upper(a), 2))>>)
  \o <<Record("data", 2, a % Bank, d, Len(d) + Digits(a, 2) + Total(d))>>

SrecType(a) ==
  IF format = "srec24" THEN 2
  ELSE IF format = "srec32" THEN 3
  ELSE IF a < Bank THEN 1 ELSE IF a < Reach THEN 2 ELSE 3

(* Fault: S3 lines, too. *)
AddressSum_Two(type, a) == Digit(a, type) + Digit(a, 0)

(* write_srec_line(): of three bytes of an address two are counted. *)
AddressSum(type, a) ==
  IF type = 2 THEN Digit(a, 2) + Digit(a, 0) ELSE Digits(a, type + 1)

SrecLine(a, d) ==
  LET type == SrecType(a)
  IN <<Record("data", type + 1, a % Weight(type + 1), d,
              Len(d) + type + 2 + AddressSum(type, a) + Total(d))>>

Line(a, d) ==
  IF d = << >> THEN << >> ELSE IF format = "hex" THEN HexLine(a, d) ELSE SrecLine(a, d)

----------------------------------------------------------------------------

ImageInit ==
  /\ format \in Format
  /\ image \in Image
  /\ n = image.low_address
  /\ address = 0 /\ data = << >>
  /\ segment = 0
  /\ file = IF format = "uf2"
            THEN <<Record("block", 4, PicoAddress, [i \in 1 .. Base |-> Pico], 0)>> ELSE << >>
  /\ bytes = << >>
  /\ start = -1 /\ end = -1
  /\ low_address = Space - 1 /\ high_address = 0
  /\ phase = "write"

(* Fault: the loop stops behind the last address, not beyond it. *)
InRange_Until == n # (image.high_address + 1) % Space

InRange == n <= image.high_address

Writing(formats) == phase = "write" /\ format \in formats /\ InRange

(* n++; the last address is always <= high_address. *)
Advance ==
  /\ IF n = Space - 1 THEN phase' = "endless" /\ UNCHANGED n
     ELSE n' = n + 1 /\ UNCHANGED phase
  /\ UNCHANGED <<format, image, bytes, start, end, range>>

Wrote(a, d) == segment' = IF format = "hex" /\ d # << >> THEN Upper(a) ELSE segment

(* write_hex(), write_srec(): an address nothing was written to. *)
SkipEmpty ==
  /\ Writing(Lines) /\ Empty(n)
  /\ file' = file \o Line(address, data)
  /\ Wrote(address, data)
  /\ data' = << >>
  /\ Advance /\ UNCHANGED address

AtBank(a) == a % Bank = 0

(* A line that is open is closed at the boundary before the byte, or with  *)
(* the byte when it is full.                                               *)
Gather ==
  /\ Writing(Lines) /\ ~Empty(n)
  /\ LET fresh == data = << >> \/ AtBank(n)
         a == IF fresh THEN n ELSE address
         d == IF fresh THEN <<Byte(n)>> ELSE Append(data, Byte(n))
         full == Len(d) = LineLength
         closed == IF full THEN a ELSE address
         line == IF full THEN d ELSE IF fresh THEN data ELSE << >>
     IN /\ file' = file \o Line(closed, line)
        /\ Wrote(closed, line)
        /\ address' = a
        /\ data' = IF full THEN << >> ELSE d
  /\ Advance

WriteBin ==
  /\ Writing({"bin"})
  /\ file' = Append(file, Byte(n))
  /\ Advance /\ UNCHANGED <<address, data, segment>>

(* Fault: a block goes on over addresses nothing was written to. *)
EndsBlock_Full(a) == Len(data) = Bank

EndsBlock(a) == Empty(a) \/ Len(data) = Bank

WdcBlock(a, d) == IF d = << >> THEN << >> ELSE <<Record("block", 3, a % Reach, d, 0)>>

(* write_wdc(): what ends a block is not part of the next one. *)
WriteWdc ==
  /\ Writing({"wdc"})
  /\ IF EndsBlock(n)
     THEN file' = file \o WdcBlock(address, data) /\ data' = << >> /\ UNCHANGED address
     ELSE /\ address' = IF data = << >> THEN n ELSE address
          /\ data' = Append(data, Byte(n))
          /\ UNCHANGED file
  /\ Advance /\ UNCHANGED segment

Padded(d) == [i \in 1 .. Base |-> IF i <= Len(d) THEN d[i] ELSE 0]
Uf2Block(a, d) == IF d = << >> THEN << >> ELSE <<Record("block", 4, a, Padded(d), 0)>>

WriteUf2 ==
  /\ Writing({"uf2"})
  /\ LET a == IF data = << >> THEN n ELSE address
         d == Append(data, Byte(n))
     IN /\ address' = a
        /\ IF Len(d) = Base THEN file' = file \o Uf2Block(a, d) /\ data' = << >>
           ELSE data' = d /\ UNCHANGED file
  /\ Advance /\ UNCHANGED segment

(* Fault: the last line is only written when it is full. *)
Rest_Dropped == << >>

(* What the loop leaves in the record is written behind it. *)
Rest == CASE format \in Lines -> Line(address, data)
          [] format = "wdc" -> WdcBlock(address, data)
          [] format = "uf2" -> Uf2Block(address, data)
          [] format = "bin" -> << >>

(* naken_util is run on the file; -address is the low_address for bin. *)
EndWrite ==
  /\ phase = "write" /\ ~InRange
  /\ file' = file \o Rest
  /\ phase' = "read"
  /\ address' = image.low_address /\ data' = << >> /\ n' = 0 /\ segment' = 0
  /\ UNCHANGED <<format, image, bytes, start, end, range>>

----------------------------------------------------------------------------

FileHas(formats) == phase = "read" /\ format \in formats /\ file # << >>

(* Memory::write8() of one byte after the other; address 0 is behind the   *)
(* last one.                                                               *)
Stored(a, d) ==
  LET to == {(a + i - 1) % Space : i \in DOMAIN d}
  IN [b \in DOMAIN bytes \cup to |->
        IF b \in to THEN d[((b - a) % Space) + 1] ELSE bytes[b]]
Lowest(a, d) ==
  LET low == IF a + Len(d) > Space THEN 0 ELSE a
  IN IF d = << >> \/ low_address <= low THEN low_address ELSE low
Highest(a, d) ==
  LET high == IF a + Len(d) > Space THEN Space - 1 ELSE a + Len(d) - 1
  IN IF d = << >> \/ high_address >= high THEN high_address ELSE high

(* The extended linear address record of read_hex(). *)
ReadLinear ==
  /\ FileHas({"hex"}) /\ Head(file).kind = "linear"
  /\ segment' = Head(file).address
  /\ file' = Tail(file)
  /\ phase' = IF Head(file).sum = (6 + Digits(Head(file).address, 2)) % Base
           THEN "read" ELSE "rejected"
  /\ UNCHANGED <<format, image, writer, bytes, start, end, range>>

(* int start, end; the sum overflows at 2^31, with any result. *)
EndOf(a, length) ==
  {IF start = -1 \/ sum > end THEN a + length - 1 ELSE end :
     sum \in {a + length, Signed(a + length)}}

(* The data of read_hex() and read_srec(): the bytes are in the memory and *)
(* count for the range before the checksum is compared.                    *)
ReadLine ==
  /\ FileHas(Lines) /\ Head(file).kind = "data"
  /\ LET r == Head(file)
         at == IF format = "hex" THEN segment * Bank + r.address ELSE r.address
         count == Len(r.data) + (IF format = "hex" THEN 0 ELSE r.length + 1)
         sum == count + Digits(r.address, r.length) + Total(r.data)
         a == Signed(at)
     IN /\ start' = IF start = -1 \/ a < start THEN a ELSE start
        /\ end' \in EndOf(a, Len(r.data))
        /\ bytes' = Stored(at, r.data)
        /\ phase' = IF r.sum = sum % Base THEN "read" ELSE "rejected"
  /\ file' = Tail(file)
  /\ UNCHANGED <<format, image, writer, segment, range>>

ReadBin ==
  /\ FileHas({"bin"})
  /\ bytes' = Stored(address, <<Head(file)>>)
  /\ address' = (address + 1) % Space
  /\ file' = Tail(file)
  /\ UNCHANGED <<format, image, n, data, segment, start, end, range, phase>>

(* read_wdc() and read_uf2() leave the range to the bytes they write. *)
ReadBlock ==
  /\ FileHas({"wdc", "uf2"})
  /\ LET r == Head(file)
     IN /\ bytes' = Stored(r.address, r.data)
        /\ low_address' = Lowest(r.address, r.data)
        /\ high_address' = Highest(r.address, r.data)
  /\ file' = Tail(file)
  /\ UNCHANGED <<format, image, writer, segment, start, end, phase>>

(* The readers return an address or an error as one int, and file_read()   *)
(* takes all that is negative for an error (file.cpp:264).                 *)
Returned == CASE format = "bin" -> Signed(image.low_address)
              [] format = "wdc" -> Signed(low_address)
              [] OTHER -> 0

EndRead ==
  /\ phase = "read" /\ file = << >>
  /\ \/ /\ format \in Lines
        /\ low_address' = start % Space /\ high_address' = end % Space
     \/ /\ format = "bin"
        /\ low_address' = image.low_address /\ high_address' = (address - 1) % Space
     \/ /\ format \in {"wdc", "uf2"}
        /\ UNCHANGED range
  /\ phase' = IF Returned >= 0 THEN "loaded" ELSE "rejected"
  /\ UNCHANGED <<format, image, writer, segment, file, bytes, start, end>>

ImageNext ==
  \/ SkipEmpty \/ Gather \/ WriteBin \/ WriteWdc \/ WriteUf2 \/ EndWrite
  \/ ReadLinear \/ ReadLine \/ ReadBin \/ ReadBlock \/ EndRead

(* A program in one thread: it goes on as long as it can. *)
ImageSpec == ImageInit /\ [][ImageNext]_imagevars /\ WF_imagevars(ImageNext)

----------------------------------------------------------------------------

Values == {0, Pico} \cup UNION {{i.bytes[a] : a \in DOMAIN i.bytes} : i \in Image}

(* The most bytes of a record that is open. *)
Room == CASE format \in Lines -> LineLength - 1
          [] format = "wdc" -> Bank
          [] format = "uf2" -> Base - 1
          [] format = "bin" -> 0

ImageTypeOK ==
  /\ format \in Format /\ image \in Image
  /\ n \in Address /\ address \in Address
  /\ data \in Seq(Values) /\ Len(data) <= Room
  /\ segment \in 0 .. Bank - 1
  /\ DOMAIN bytes \subseteq Address /\ \A a \in DOMAIN bytes : bytes[a] \in Values
  /\ start \in Int /\ end \in Int
  /\ low_address \in Address /\ high_address \in Address
  /\ phase \in {"write", "endless", "read", "loaded", "rejected"}

InFile == image.low_address .. image.high_address
Written == DOMAIN image.bytes \cap InFile

(* What the format, or its writer, has no room for: addresses of four      *)
(* bytes, and more than 2^16 bytes without a gap (write_wdc.cpp:42).       *)
TooFar == format \in {"srec24", "wdc"} /\ image.high_address >= Reach
TooLong == format = "wdc" /\ \E a \in Written : a .. a + Bank \subseteq Written

(* The bytes of the program come back, each where it was, and nothing else *)
(* but what bin and uf2 fill gaps with: however the lines are cut at gaps  *)
(* and boundaries, writer and reader agree on the upper half of every      *)
(* address (write_hex.cpp:72, read_hex.cpp:62).                            *)
BytesComeBack ==
  phase = "loaded" /\ ~TooFar /\ ~TooLong =>
    /\ \A a \in Written : a \in DOMAIN bytes /\ bytes[a] = image.bytes[a]
    /\ \A a \in DOMAIN bytes \ Written :
         \/ format = "bin" /\ a \in InFile /\ bytes[a] = 0
         \/ format = "uf2" /\ bytes[a] \in {0, Byte(a), Pico}

(* The int comparisons of read_hex() and read_srec() order addresses below *)
(* and above 2^31 the wrong way around (read_hex.cpp:110).                 *)
CrossesSign == \E a, b \in Written : a < Space \div 2 /\ b >= Space \div 2 - 1

Ends(S) == {a \in S : (\A b \in S : a <= b) \/ (\A b \in S : b <= a)}

(* The range naken_util shows and disassembles is that of the bytes in the *)
(* file, in whatever order and lengths the records extend it.              *)
RangeComesBack ==
  phase = "loaded" /\ format # "uf2" /\ ~TooFar /\ ~TooLong /\ Written # {}
    /\ ~(format \in Lines /\ CrossesSign) =>
    /\ low_address <= high_address
    /\ {low_address, high_address} = IF format = "bin" THEN Ends(InFile) ELSE Ends(Written)

(* naken_util accepts what naken_asm wrote as hex, wdc, uf2 and S3 lines,  *)
(* wdc without a block apart: the checksums agree (read_hex.cpp:170).      *)
FilesAccepted ==
  phase = "rejected" =>
    format \in {"srec16", "srec24", "bin"} \/ (format = "wdc" /\ Written = {})

(* Writing and reading ends, for every image but one whose range ends with *)
(* the last address there is (write_bin.cpp:24).                           *)
EveryImageEnds ==
  image.high_address # Space - 1 => <>(phase \in {"loaded", "rejected"})
=============================================================================
