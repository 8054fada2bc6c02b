----------------------- MODULE ExpressionImageProofs -----------------------
(***************************************************************************)
(* Proofs about ImageFormats and Expressions: what naken_asm writes comes  *)
(* back, and what it computes fits the stacks it is computed on.           *)
(*                                                                         *)
(* ImageFormats, for every image, base and length of a line: the bytes of  *)
(* the program come back, the range that is found is that of its bytes,    *)
(* and the files are accepted.  What makes them inductive is where the     *)
(* bytes are while neither memory has all of them: a sequence of segments  *)
(* goes with the records of the file, and with it each byte is in a        *)
(* record, in the open record, or in the memory of the reader.             *)
(*                                                                         *)
(* Expressions: a call of run() that waits for a value holds as many       *)
(* values as operators, any other may hold one value more, and count is    *)
(* their sum.  Therefore the third value meets two operators, and no       *)
(* assertion of the stacks fails, whatever the tokens are.                 *)
(***************************************************************************)
EXTENDS Expressions, ImageFormats, SequenceTheorems, TLAPS

(* Numbers: division, and the powers of Base. *)
LEMMA Divided ==
  ASSUME NEW a \in Int, NEW p \in Nat \ {0}
  PROVE  /\ a \div p \in Int /\ a % p \in 0 .. p - 1
         /\ a = (a \div p) * p + (a % p)
         /\ a >= 0 => a \div p \in Nat
OBVIOUS

LEMMA DividedOnce ==
  ASSUME NEW q \in Int, NEW k \in Int, NEW p \in Nat \ {0},
         NEW r \in 0 .. p - 1, NEW s \in 0 .. p - 1, q * p + r = k * p + s
  PROVE  q = k /\ r = s
<1>1. ASSUME NEW x \in Int, NEW y \in Int, NEW t \in 0 .. p - 1, NEW u \in 0 .. p - 1,
             x * p + t = y * p + u, x < y
      PROVE  FALSE
  <2>1. y - x >= 1
    BY <1>1
  <2>2. (y - x) * p >= 1 * p
    BY <2>1
  <2>3. (y - x) * p = y * p - x * p
    OBVIOUS
  <2> QED
    BY <1>1, <2>2, <2>3
<1>2. q = k
  BY <1>1
<1> QED
  BY <1>2

LEMMA Remainder ==
  ASSUME NEW q \in Int, NEW p \in Nat \ {0}, NEW r \in 0 .. p - 1
  PROVE  (q * p + r) % p = r /\ (q * p + r) \div p = q
<1> DEFINE a == q * p + r
<1>1. a \in Int
  OBVIOUS
<1>2. /\ a \div p \in Int /\ a % p \in 0 .. p - 1
      /\ a = (a \div p) * p + (a % p)
  BY <1>1, Divided
<1> HIDE DEF a
<1>3. PICK k \in Int, s \in 0 .. p - 1 : k = a \div p /\ s = a % p /\ a = k * p + s
  BY <1>2
<1>4. q * p + r = k * p + s
  BY <1>3 DEF a
<1>5. q = k /\ r = s
  BY <1>4, DividedOnce
<1> QED
  BY <1>3, <1>5 DEF a

(* One space up or down. *)
LEMMA Around ==
  ASSUME NEW a \in Int, NEW p \in Nat \ {0}
  PROVE  /\ a \in 0 .. p - 1 => a % p = a
         /\ a \in p .. 2 * p - 1 => a % p = a - p
         /\ a \in -p .. -1 => a % p = a + p
<1>1. ASSUME a \in 0 .. p - 1
      PROVE  a % p = a
  <2>1. (0 * p + a) % p = a
    BY <1>1, Remainder
  <2> QED
    BY <2>1
<1>2. ASSUME a \in p .. 2 * p - 1
      PROVE  a % p = a - p
  <2>1. a - p \in 0 .. p - 1
    BY <1>2
  <2>2. (1 * p + (a - p)) % p = a - p
    BY <2>1, Remainder
  <2> QED
    BY <2>2
<1>3. ASSUME a \in -p .. -1
      PROVE  a % p = a + p
  <2>1. a + p \in 0 .. p - 1
    BY <1>3
  <2>2. ((-1) * p + (a + p)) % p = a + p
    BY <2>1, Remainder
  <2> QED
    BY <2>2
<1> QED
  BY <1>1, <1>2, <1>3

LEMMA ImageNumbers ==
  /\ Base \in Nat /\ Base >= 2 /\ Bank \in Nat /\ Reach \in Nat /\ Space \in Nat
  /\ Bank = Base * Base /\ Reach = Base * Bank /\ Space = Base * Reach /\ Space = Bank * Bank
  /\ 2 * Base <= Bank /\ 2 * Bank <= Reach /\ 2 * Reach <= Space
<1>1. Base \in Nat /\ Base >= 2
  BY ImageFormatsAssumption DEF ImageFormatsAssumption
<1>2. \A x \in Nat : Base * x \in Nat /\ 2 * x <= Base * x
  BY <1>1
<1>3. Bank \in Nat /\ 2 * Base <= Bank
  BY <1>1, <1>2 DEF Bank
<1>4. Reach \in Nat /\ 2 * Bank <= Reach
  BY <1>2, <1>3 DEF Reach
<1>5. Base * Reach = Bank * Bank
  BY <1>1 DEF Bank, Reach
<1>6. Base * Reach \in Nat /\ 2 * Reach <= Base * Reach
  BY <1>2, <1>4
<1> QED
  BY <1>1, <1>3, <1>4, <1>5, <1>6 DEF Bank, Reach, Space

(* The lower half of an address has its two lowest digits. *)
LEMMA LowerDigits ==
  ASSUME NEW a \in Address
  PROVE  Digits(a % Bank, 2) = Digits(a, 2)
<1>1. Base \in Nat \ {0} /\ Bank \in Nat \ {0} /\ Bank = Base * Base /\ a \in Nat
  BY ImageNumbers DEF Address
<1>2. Bank \in Nat \ {0} /\ a \in Int /\ a >= 0
  BY <1>1
<1>3. PICK q \in Nat, r \in 0 .. Bank - 1 : r = a % Bank /\ a = q * Bank + r
  <2>1. a \div Bank \in Nat /\ a % Bank \in 0 .. Bank - 1
    BY <1>2, Divided
  <2>2. a = (a \div Bank) * Bank + (a % Bank)
    BY <1>2, Divided
  <2> QED
    BY <2>1, <2>2
<1>4. PICK t \in Int, u \in 0 .. Base - 1 :
         t = r \div Base /\ u = r % Base /\ r = t * Base + u
  <2>1. r \div Base \in Int /\ r % Base \in 0 .. Base - 1
    BY <1>1, Divided
  <2>2. r = (r \div Base) * Base + (r % Base)
    BY <1>1, Divided
  <2> QED
    BY <2>1, <2>2
<1>5. r % Base = u /\ r \div Base = t
  BY <1>4
<1>6. a = (q * Base + t) * Base + u
  <2>1. q * (Base * Base) = (q * Base) * Base
    BY <1>1, <1>3
  <2>2. (q * Base + t) * Base = (q * Base) * Base + t * Base
    BY <1>1, <1>3, <1>4
  <2>3. a = q * (Base * Base) + (t * Base + u)
    BY <1>1, <1>3, <1>4
  <2>4. (q * Base) * Base \in Int /\ t * Base \in Int
    BY <1>1, <1>3, <1>4
  <2> QED
    BY <2>1, <2>2, <2>3, <2>4
<1>7. q * Base + t \in Int
  BY <1>1, <1>3, <1>4
<1>8. a % Base = u /\ a \div Base = q * Base + t
  BY <1>1, <1>4, <1>6, <1>7, Remainder
<1>9. t \in 0 .. Base - 1
  <2>1. PICK square \in Nat : square = Base * Base /\ r \in 0 .. square - 1
    BY <1>1, <1>3
  <2>2. PICK product \in Int : product = t * Base /\ r = product + u
    BY <1>1, <1>4
  <2>3. t >= Base => product >= square
    <3>1. t >= Base => t * Base >= Base * Base
      BY <1>1, <1>4
    <3> QED
      BY <2>1, <2>2, <3>1
  <2>4. t <= -1 => product <= -1 * Base
    <3>1. t <= -1 => t * Base <= -1 * Base
      BY <1>1, <1>4
    <3> QED
      BY <2>2, <3>1
  <2>5. ~(t >= Base)
    BY <1>4, <2>1, <2>2, <2>3
  <2>6. ~(t <= -1)
    BY <1>1, <1>4, <2>1, <2>2, <2>4
  <2> QED
    BY <1>1, <1>4, <2>5, <2>6
<1>10. (a \div Base) % Base = t
  <2>1. (q * Base + t) % Base = t
    BY <1>1, <1>9, Remainder
  <2> QED
    BY <1>8, <2>1
<1>11. t % Base = t
  BY <1>1, <1>9, Around
<1>12. \A x \in Int : x \div 1 = x
  OBVIOUS
<1>13. /\ Digits(r, 2) = ((r \div 1) % Base) + ((r \div Base) % Base) + 0 + 0
       /\ Digits(a, 2) = ((a \div 1) % Base) + ((a \div Base) % Base) + 0 + 0
  BY DEF Digits, Digit, Weight
<1>14. (r \div 1) % Base = (a \div 1) % Base
  <2>1. r \div 1 = r /\ a \div 1 = a
    BY <1>2, <1>12
  <2> QED
    BY <1>5, <1>8, <2>1
<1>15. (r \div Base) % Base = (a \div Base) % Base
  BY <1>5, <1>10, <1>11
<1>16. Digits(r, 2) = Digits(a, 2)
  BY <1>13, <1>14, <1>15
<1> QED
  BY <1>3, <1>16

Possible == ~TooFar /\ ~TooLong

LeavesGaps == format \in Lines \cup {"wdc"}

(* A sum is that of some bytes. *)
Sums == 0 .. Base - 1 \cup {(c + Total(d)) % Base : c \in Int, d \in Seq(Values)}
Short == {d \in Seq(Values) : Len(d) <= Space}
Item == {r \in [kind : {"linear", "data", "block"}, length : 2 .. 4, address : Address,
                data : Short, sum : Sums] : r.kind = "linear" => r.address < Bank}

(* Where the record r is, when it is read with the segment s. *)
PlaceOf(s, r) == IF format = "hex" THEN s * Bank + r.address ELSE r.address

(* The bytes d are those of the program from a on. *)
Right(a, d) ==
  \A i \in 1 .. Len(d) : a + i - 1 \in Written /\ d[i] = image.bytes[a + i - 1]

(* The bytes d are those of write_uf2() from a on. *)
FromFile(a, d) == \A i \in 1 .. Len(d) : a + i - 1 \in InFile /\ d[i] = Byte(a + i - 1)

(* S tells the segment behind each record of f, of which the first one is  *)
(* read with the segment s: what the reader will have read there, and the  *)
(* writer had written.                                                     *)
Chain(f, s, S) ==
  /\ S \in [0 .. Len(f) -> 0 .. Bank - 1]
  /\ S[0] = s
  /\ \A i \in 1 .. Len(f) : S[i] = IF f[i].kind = "linear" THEN f[i].address ELSE S[i - 1]

Intact(f, S) ==
  \A i \in 1 .. Len(f) :
    f[i].kind # "linear" => f[i].data # << >> /\ Right(PlaceOf(S[i], f[i]), f[i].data)

InRecord(s, r, b) ==
  r.kind # "linear" /\ PlaceOf(s, r) <= b /\ b < PlaceOf(s, r) + Len(r.data)
Holds(f, S, b) == \E i \in 1 .. Len(f) : InRecord(S[i], f[i], b)

(* What a reader takes a record for, and the sum it compares. *)
SumRight(r) ==
  IF r.kind = "linear" THEN r.sum = (6 + Digits(r.address, 2)) % Base
  ELSE LET count == Len(r.data) + (IF format = "hex" THEN 0 ELSE r.length + 1)
       IN r.sum = (count + Digits(r.address, r.length) + Total(r.data)) % Base
RecordRight(r) ==
  /\ r.kind \in IF format = "hex" THEN {"linear", "data"}
               ELSE IF format \in Lines THEN {"data"} ELSE {"block"}
  /\ format \in {"hex", "srec32"} => SumRight(r)
  /\ r.kind # "linear" => r.data # << >>
  /\ format = "wdc" => r.address < Reach
RecordsRight(f) == \A i \in 1 .. Len(f) : RecordRight(f[i])

(* The records of f, written up to the segment s, and the open record d at *)
(* a hold the program below m.                                             *)
Kept(f, s, a, d, m) ==
  \E S : /\ Chain(f, 0, S) /\ S[Len(f)] = s
         /\ ~TooFar => Intact(f, S)
         /\ Possible => \A b \in Written : b < m => Holds(f, S, b) \/ (d # << >> /\ a <= b)

(* What writes a record that is complete. *)
Closing(a, d) == IF format = "wdc" THEN WdcBlock(a, d) ELSE Line(a, d)

(* The records of f, from the segment s on, and the bytes at B hold the    *)
(* program.                                                                *)
Held(f, s, B) ==
  \E S : /\ Chain(f, s, S)
         /\ ~TooFar => Intact(f, S)
         /\ Possible => \A b \in Written : Holds(f, S, b) \/ b \in B

FileType == file \in Seq(IF format = "bin" THEN Values ELSE Item)

(* The record that is open. *)
OpenRecord ==
  phase = "write" /\ data # << >> =>
    /\ image.low_address <= address /\ address + Len(data) = n
    /\ LeavesGaps => Right(address, data)
    /\ format = "uf2" => FromFile(address, data)

Loop ==
  /\ phase = "write" =>
       /\ image.low_address <= n /\ (n <= image.high_address + 1 \/ n = image.low_address)
       /\ bytes = << >> /\ start = -1 /\ end = -1
       /\ low_address = Space - 1 /\ high_address = 0
  /\ phase = "read" => image.high_address < Space - 1 /\ data = << >>

Types ==
  /\ ImageTypeOK /\ FileType /\ OpenRecord /\ Loop
  /\ LeavesGaps => RecordsRight(file)

BytesRight == \A b \in DOMAIN bytes : b \in Written /\ bytes[b] = image.bytes[b]

(* What the formats that leave gaps out keep of the program. *)
GapsLeftOut ==
  LeavesGaps =>
    /\ phase = "write" => Kept(file, segment, address, data, n)
    /\ phase = "read" => Held(file, segment, DOMAIN bytes) /\ (~TooFar => BytesRight)

(* Of wdc no block is missing, and every one is within Reach. *)
Blocks ==
  /\ format = "wdc" /\ phase = "write" /\ file = << >> /\ data = << >> =>
       \A b \in Written : b >= n
  /\ format = "wdc" /\ phase = "read" => file # << >> \/ low_address < Reach \/ Written = {}

Bounds(lo, hi) ==
  /\ lo \in DOMAIN bytes /\ hi \in DOMAIN bytes
  /\ \A b \in DOMAIN bytes : lo <= b /\ b <= hi

Ranges ==
  /\ format \in Lines /\ phase = "read" /\ ~TooFar /\ ~CrossesSign =>
       \/ DOMAIN bytes = {} /\ start = -1
       \/ \E lo, hi \in DOMAIN bytes : Bounds(lo, hi) /\ start = Signed(lo) /\ end = Signed(hi)
  /\ format = "wdc" /\ phase = "read" /\ ~TooFar =>
       \/ DOMAIN bytes = {} /\ low_address = Space - 1 /\ high_address = 0
       \/ Bounds(low_address, high_address)

Place(r, j) == (r.address + j - 1) % Space

(* A block of uf2 has the bytes of the program, and zeros between them.    *)
BlockRight(r) ==
  \A j \in 1 .. Base :
    /\ r.data[j] \in {0, Byte(Place(r, j))}
    /\ Place(r, j) \in Written => r.data[j] = image.bytes[Place(r, j)]
IsPico(r) == \A j \in 1 .. Base : r.data[j] = Pico
BlockHolds(f, b) ==
  \E i \in 1 .. Len(f) : BlockRight(f[i]) /\ \E j \in 1 .. Base : Place(f[i], j) = b
PaddedTo(r, d) == \A i \in 1 .. Base : r.data[i] = IF i <= Len(d) THEN d[i] ELSE 0
BlocksRight(f, B) ==
  \A i \in 1 .. Len(f) :
    Len(f[i].data) = Base /\ (BlockRight(f[i]) \/ (i = 1 /\ B = {} /\ IsPico(f[i])))

(* The first block is that of the Pico, which is read before the others.   *)
Uf2Blocks ==
  format = "uf2" =>
    /\ phase \in {"write", "read"} => BlocksRight(file, DOMAIN bytes)
    /\ phase = "write" =>
         /\ \E k \in Nat : n = image.low_address + k * Base + Len(data)
         /\ \A b \in Written : b < n => BlockHolds(file, b) \/ (data # << >> /\ address <= b)
    /\ phase = "read" =>
         /\ \A b \in DOMAIN bytes : bytes[b] \in {0, Byte(b), Pico}
         /\ \A b \in Written :
              BlockHolds(file, b) \/ (b \in DOMAIN bytes /\ bytes[b] = image.bytes[b])

BinBytes ==
  format = "bin" =>
    /\ phase = "write" =>
         /\ Len(file) = n - image.low_address
         /\ \A i \in 1 .. Len(file) : file[i] = Byte(image.low_address + i - 1)
    /\ phase = "read" =>
         /\ image.low_address <= address
         /\ \/ address + Len(file) = image.high_address + 1
            \/ address = image.low_address /\ address > image.high_address /\ file = << >>
         /\ \A i \in 1 .. Len(file) : file[i] = Byte(address + i - 1)
         /\ DOMAIN bytes = image.low_address .. address - 1
         /\ \A b \in DOMAIN bytes : bytes[b] = Byte(b)

ImageInv ==
  /\ Types /\ GapsLeftOut /\ Blocks /\ Ranges /\ Uf2Blocks /\ BinBytes
  /\ BytesComeBack /\ RangeComesBack /\ FilesAccepted

LEMMA RecordAppended ==
  ASSUME NEW f \in Seq(Item), NEW r \in Item, NEW s, NEW S,
         Chain(f, s, S)
  PROVE  \E T : /\ Chain(Append(f, r), s, T)
                /\ T[Len(f) + 1] = IF r.kind = "linear" THEN r.address ELSE S[Len(f)]
                /\ \A i \in 0 .. Len(f) : T[i] = S[i]
<1>1. /\ Len(f) \in Nat /\ Append(f, r) \in Seq(Item) /\ Len(Append(f, r)) = Len(f) + 1
      /\ \A i \in 1 .. Len(f) : Append(f, r)[i] = f[i]
      /\ Append(f, r)[Len(f) + 1] = r
  OBVIOUS
<1> DEFINE upper == IF r.kind = "linear" THEN r.address ELSE S[Len(f)]
           T == [i \in 0 .. Len(f) + 1 |-> IF i <= Len(f) THEN S[i] ELSE upper]
<1>2. /\ S \in [0 .. Len(f) -> 0 .. Bank - 1] /\ S[0] = s
      /\ \A i \in 1 .. Len(f) : S[i] = IF f[i].kind = "linear" THEN f[i].address ELSE S[i - 1]
  BY DEF Chain
<1>3. upper \in 0 .. Bank - 1
  <2>1. r.kind = "linear" => r.address \in Nat /\ r.address < Bank
    BY DEF Item, Address
  <2>2. Len(f) \in 0 .. Len(f)
    BY <1>1
  <2>3. Bank \in Nat
    BY ImageNumbers
  <2> QED
    BY <1>2, <2>1, <2>2, <2>3
<1> HIDE DEF upper
<1>4. /\ T \in [0 .. Len(f) + 1 -> 0 .. Bank - 1] /\ T[0] = s
      /\ T[Len(f) + 1] = upper /\ \A i \in 0 .. Len(f) : T[i] = S[i]
  BY <1>1, <1>2, <1>3
<1> HIDE DEF T
<1>5. \A i \in 1 .. Len(f) + 1 :
        T[i] = IF Append(f, r)[i].kind = "linear" THEN Append(f, r)[i].address ELSE T[i - 1]
  <2>1. TAKE i \in 1 .. Len(f) + 1
  <2>2. CASE i <= Len(f)
    BY <1>1, <1>2, <1>4, <2>2
  <2>3. CASE i = Len(f) + 1
    BY <1>1, <1>4, <2>3 DEF upper
  <2> QED
    BY <1>1, <2>2, <2>3
<1>6. Chain(Append(f, r), s, T)
  BY <1>1, <1>4, <1>5 DEF Chain
<1> QED
  BY <1>4, <1>6 DEF upper

(* What is kept when a record is added. *)
LEMMA AppendedIntact ==
  ASSUME NEW f \in Seq(Item), NEW r \in Item, NEW S, NEW T,
         \A i \in 0 .. Len(f) : T[i] = S[i],
         Intact(f, S),
         r.kind # "linear" => r.data # << >> /\ Right(PlaceOf(T[Len(f) + 1], r), r.data)
  PROVE  Intact(Append(f, r), T)
<1>1. /\ Len(f) \in Nat /\ Append(f, r) \in Seq(Item) /\ Len(Append(f, r)) = Len(f) + 1
      /\ \A i \in 1 .. Len(f) : Append(f, r)[i] = f[i]
      /\ Append(f, r)[Len(f) + 1] = r
  OBVIOUS
<1> SUFFICES ASSUME NEW i \in 1 .. Len(f) + 1, Append(f, r)[i].kind # "linear"
             PROVE  /\ Append(f, r)[i].data # << >>
                    /\ Right(PlaceOf(T[i], Append(f, r)[i]), Append(f, r)[i].data)
  BY <1>1 DEF Intact
<1>2. CASE i <= Len(f)
  BY <1>1, <1>2 DEF Intact
<1>3. CASE i = Len(f) + 1
  BY <1>1, <1>3
<1> QED
  BY <1>1, <1>2, <1>3

LEMMA AppendedHolds ==
  ASSUME NEW f \in Seq(Item), NEW r \in Item, NEW S, NEW T,
         \A i \in 0 .. Len(f) : T[i] = S[i]
  PROVE  \A b : Holds(f, S, b) \/ InRecord(T[Len(f) + 1], r, b) => Holds(Append(f, r), T, b)
<1>1. /\ Len(f) \in Nat /\ Append(f, r) \in Seq(Item) /\ Len(Append(f, r)) = Len(f) + 1
      /\ \A i \in 1 .. Len(f) : Append(f, r)[i] = f[i]
      /\ Append(f, r)[Len(f) + 1] = r
  OBVIOUS
<1>2. ASSUME NEW b, Holds(f, S, b)
      PROVE  Holds(Append(f, r), T, b)
  <2>1. PICK i \in 1 .. Len(f) : InRecord(S[i], f[i], b)
    BY <1>2 DEF Holds
  <2>2. i \in 1 .. Len(f) + 1 /\ InRecord(T[i], Append(f, r)[i], b)
    BY <1>1, <2>1
  <2> QED
    BY <1>1, <2>2 DEF Holds
<1>3. ASSUME NEW b, InRecord(T[Len(f) + 1], r, b)
      PROVE  Holds(Append(f, r), T, b)
  <2>1. Len(f) + 1 \in 1 .. Len(f) + 1
    BY <1>1
  <2> QED
    BY <1>1, <1>3, <2>1 DEF Holds
<1> QED
  BY <1>2, <1>3

(* What is left when the first record is taken. *)
LEMMA RecordTaken ==
  ASSUME NEW f \in Seq(Item), f # << >>, NEW s, NEW S, Chain(f, s, S)
  PROVE  \E T : /\ Chain(Tail(f), IF Head(f).kind = "linear" THEN Head(f).address ELSE s, T)
                /\ S[1] = IF Head(f).kind = "linear" THEN Head(f).address ELSE s
                /\ Intact(f, S) => Intact(Tail(f), T)
                /\ \A b : Holds(f, S, b) => InRecord(S[1], Head(f), b) \/ Holds(Tail(f), T, b)
<1>1. /\ Len(f) \in Nat /\ Len(f) >= 1 /\ Tail(f) \in Seq(Item) /\ Len(Tail(f)) = Len(f) - 1
      /\ \A i \in 1 .. Len(f) - 1 : Tail(f)[i] = f[i + 1]
      /\ Head(f) = f[1]
  OBVIOUS
<1> DEFINE T == [i \in 0 .. Len(f) - 1 |-> S[i + 1]]
           upper == IF Head(f).kind = "linear" THEN Head(f).address ELSE s
<1>2. /\ S \in [0 .. Len(f) -> 0 .. Bank - 1] /\ S[0] = s
      /\ \A i \in 1 .. Len(f) : S[i] = IF f[i].kind = "linear" THEN f[i].address ELSE S[i - 1]
  BY DEF Chain
<1>3. S[1] = upper
  BY <1>1, <1>2
<1> HIDE DEF upper
<1>4. /\ T \in [0 .. Len(f) - 1 -> 0 .. Bank - 1]
      /\ \A i \in 0 .. Len(f) - 1 : T[i] = S[i + 1]
  BY <1>1, <1>2
<1> HIDE DEF T
<1>5. \A i \in 1 .. Len(f) - 1 :
        T[i] = IF Tail(f)[i].kind = "linear" THEN Tail(f)[i].address ELSE T[i - 1]
  <2>1. TAKE i \in 1 .. Len(f) - 1
  <2>2. i + 1 \in 1 .. Len(f) /\ i \in 0 .. Len(f) - 1 /\ i - 1 \in 0 .. Len(f) - 1
    BY <1>1
  <2>3. T[i] = S[i + 1] /\ T[i - 1] = S[i]
    BY <1>1, <1>4, <2>2
  <2>4. S[i + 1] = IF f[i + 1].kind = "linear" THEN f[i + 1].address ELSE S[i]
    BY <1>1, <1>2, <2>2
  <2> QED
    BY <1>1, <2>3, <2>4
<1>6. Chain(Tail(f), upper, T)
  BY <1>1, <1>3, <1>4, <1>5 DEF Chain
<1>7. ASSUME Intact(f, S)
      PROVE  Intact(Tail(f), T)
  <2>1. SUFFICES ASSUME NEW i \in 1 .. Len(f) - 1, Tail(f)[i].kind # "linear"
                 PROVE  /\ Tail(f)[i].data # << >>
                        /\ Right(PlaceOf(T[i], Tail(f)[i]), Tail(f)[i].data)
    BY <1>1 DEF Intact
  <2>2. i + 1 \in 1 .. Len(f) /\ i \in 0 .. Len(f) - 1
    BY <1>1
  <2>3. T[i] = S[i + 1] /\ Tail(f)[i] = f[i + 1]
    BY <1>1, <1>4, <2>2
  <2> QED
    BY <1>7, <2>1, <2>2, <2>3 DEF Intact
<1>8. ASSUME NEW b, Holds(f, S, b), ~InRecord(S[1], Head(f), b)
      PROVE  Holds(Tail(f), T, b)
  <2>1. PICK i \in 1 .. Len(f) : InRecord(S[i], f[i], b)
    BY <1>8 DEF Holds
  <2>2. i # 1
    BY <1>1, <1>8, <2>1
  <2>3. i - 1 \in 1 .. Len(f) - 1 /\ i - 1 \in 0 .. Len(f) - 1 /\ (i - 1) + 1 = i
    BY <1>1, <2>2
  <2>4. T[i - 1] = S[i] /\ Tail(f)[i - 1] = f[i]
    BY <1>1, <1>4, <2>3
  <2> QED
    BY <1>1, <2>1, <2>3, <2>4 DEF Holds
<1> QED
  BY <1>3, <1>6, <1>7, <1>8 DEF upper

(* Bytes one after the other, past the upper address to the first one, are  *)
(* stored where they belong.                                               *)
LEMMA StoredThere ==
  ASSUME NEW a \in Int, NEW d \in Short
  PROVE  /\ DOMAIN Stored(a, d) =
              DOMAIN bytes \cup {(a + i - 1) % Space : i \in 1 .. Len(d)}
         /\ \A i \in 1 .. Len(d) : Stored(a, d)[(a + i - 1) % Space] = d[i]
         /\ \A b \in DOMAIN bytes :
              (\A i \in 1 .. Len(d) : (a + i - 1) % Space # b) => Stored(a, d)[b] = bytes[b]
<1> DEFINE to == {(a + i - 1) % Space : i \in DOMAIN d}
<1>1. DOMAIN d = 1 .. Len(d) /\ Len(d) \in Nat /\ Len(d) <= Space
  BY DEF Short
<1>2. /\ DOMAIN Stored(a, d) = DOMAIN bytes \cup to
      /\ \A b \in DOMAIN bytes \cup to :
           Stored(a, d)[b] = IF b \in to THEN d[((b - a) % Space) + 1] ELSE bytes[b]
  BY DEF Stored
<1>3. Space \in Nat \ {0}
  BY ImageNumbers
<1>4. ASSUME NEW i \in 1 .. Len(d)
      PROVE  Stored(a, d)[(a + i - 1) % Space] = d[i]
  <2> DEFINE b == (a + i - 1) % Space
  <2>1. b \in to
    BY <1>1
  <2>2. (b - a) % Space = i - 1
    <3>1. i - 1 \in 0 .. Space - 1 /\ a + i - 1 \in Int
      BY <1>1, <1>3
    <3>2. PICK q \in Int : b \in Int /\ a + i - 1 = q * Space + b
      <4>1. PICK p \in Int : p = a + i - 1
        BY <3>1
      <4>2. p \div Space \in Int /\ p % Space \in 0 .. Space - 1
        BY <1>3, Divided
      <4>3. p = (p \div Space) * Space + (p % Space)
        BY <1>3, Divided
      <4>4. b = p % Space
        BY <4>1
      <4> HIDE DEF b
      <4>5. PICK q \in Int : q = p \div Space
        BY <4>2
      <4>6. b \in Int
        BY <1>3, <4>2, <4>4
      <4>7. p = q * Space + b
        BY <4>3, <4>4, <4>5
      <4> QED
        BY <4>1, <4>6, <4>7
    <3> HIDE DEF b
    <3>3. (-q) * Space = 0 - q * Space
      BY <1>3
    <3>4. q * Space \in Int
      BY <1>3
    <3>5. b - a = (-q) * Space + (i - 1)
      BY <3>2, <3>3, <3>4
    <3>6. ((-q) * Space + (i - 1)) % Space = i - 1
      <4>1. PICK k \in Int, t \in 0 .. Space - 1 : k = -q /\ t = i - 1
        BY <3>1
      <4>2. (k * Space + t) % Space = t
        BY <1>3, Remainder
      <4> QED
        BY <4>1, <4>2
    <3> QED
      BY <3>5, <3>6
  <2>3. ((b - a) % Space) + 1 = i
    BY <2>2
  <2> HIDE DEF b, to
  <2>4. Stored(a, d)[b] = d[i]
    BY <1>2, <2>1, <2>3
  <2> QED
    BY <2>4 DEF b
<1>5. ASSUME NEW b \in DOMAIN bytes, \A i \in 1 .. Len(d) : (a + i - 1) % Space # b
      PROVE  Stored(a, d)[b] = bytes[b]
  <2>1. b \notin to
    BY <1>1, <1>5
  <2> QED
    BY <1>2, <2>1
<1> QED
  BY <1>1, <1>2, <1>4, <1>5

LEMMA AddressParts ==
  ASSUME NEW a \in Address
  PROVE  /\ Upper(a) \in 0 .. Bank - 1 /\ a % Bank \in 0 .. Bank - 1
         /\ Upper(a) * Bank + (a % Bank) = a
<1>1. Bank \in Nat \ {0} /\ a \in Int /\ a >= 0
  BY ImageNumbers DEF Address
<1>2. PICK q \in Nat, r \in 0 .. Bank - 1 : q = a \div Bank /\ r = a % Bank /\ a = q * Bank + r
  <2>1. a \div Bank \in Nat /\ a % Bank \in 0 .. Bank - 1
    BY <1>1, Divided
  <2>2. a = (a \div Bank) * Bank + (a % Bank)
    BY <1>1, Divided
  <2> QED
    BY <2>1, <2>2
<1>3. a < Bank * Bank
  BY <1>1, ImageNumbers DEF Address
<1>4. ~(q >= Bank)
  <2>1. SUFFICES ASSUME q >= Bank PROVE FALSE
    OBVIOUS
  <2>2. q * Bank >= Bank * Bank
    BY <1>1, <1>2, <2>1
  <2>3. q * Bank \in Nat
    BY <1>1, <1>2
  <2> QED
    BY <1>1, <1>2, <1>3, <2>2, <2>3
<1> QED
  BY <1>1, <1>2, <1>4 DEF Upper

LEMMA DigitType ==
  ASSUME NEW a \in Nat
  PROVE  \A i \in 0 .. 3 : Digit(a, i) \in Int
<1>1. Base \in Nat \ {0} /\ Bank \in Nat \ {0} /\ Reach \in Nat \ {0}
  BY ImageNumbers
<1>2. \A i \in 0 .. 3 : Weight(i) \in Nat \ {0}
  BY <1>1 DEF Weight
<1>3. \A x \in Int : x % Base \in Int
  BY <1>1, Divided
<1>4. \A p \in Nat \ {0} : a \div p \in Int
  BY Divided
<1> QED
  BY <1>2, <1>3, <1>4 DEF Digit

LEMMA DigitsType ==
  ASSUME NEW a \in Nat, NEW k \in 2 .. 4
  PROVE  Digits(a, k) \in Int
BY DigitType DEF Digits

(* A line of hex, with the line of its upper half. *)
LEMMA HexRecords ==
  ASSUME format = "hex", segment \in 0 .. Bank - 1, NEW f \in Seq(Item),
         NEW a \in Address, NEW d \in Short, d # << >>
  PROVE  \E l, r \in Item :
           /\ l.kind = "linear" /\ l.address = Upper(a) /\ RecordRight(l)
           /\ r.kind = "data" /\ PlaceOf(Upper(a), r) = a /\ r.data = d /\ RecordRight(r)
           /\ f \o Line(a, d) = IF Upper(a) = segment THEN Append(f, r)
                                ELSE Append(Append(f, l), r)
<1> DEFINE l == Record("linear", 2, Upper(a), << >>, 6 + Digits(Upper(a), 2))
           r == Record("data", 2, a % Bank, d, Len(d) + Digits(a, 2) + Total(d))
<1>1. /\ Upper(a) \in 0 .. Bank - 1 /\ a % Bank \in 0 .. Bank - 1
      /\ Upper(a) * Bank + (a % Bank) = a
  BY AddressParts
<1>2. Bank \in Nat /\ Bank <= Space /\ Base \in Nat \ {0} /\ Space \in Nat
  BY ImageNumbers
<1>3. Upper(a) \in Address /\ a % Bank \in Address /\ a \in Nat
  BY <1>1, <1>2 DEF Address
<1>4. Digits(Upper(a), 2) \in Int /\ Digits(a, 2) \in Int /\ Digits(a % Bank, 2) = Digits(a, 2)
  BY <1>3, DigitsType, LowerDigits DEF Address
<1>5. << >> \in Short /\ d \in Seq(Values) /\ Len(d) \in Nat
  BY <1>2 DEF Short
<1>6. l \in Item /\ l.kind = "linear" /\ l.address = Upper(a) /\ RecordRight(l)
  <2>1. (6 + Digits(Upper(a), 2)) % Base \in Sums
    <3>1. 6 + Digits(Upper(a), 2) \in Int
      BY <1>4
    <3>2. \A x \in Int : x % Base \in 0 .. Base - 1
      BY <1>2, Divided
    <3> QED
      BY <3>1, <3>2 DEF Sums
  <2>2. l \in Item
    BY <1>1, <1>2, <1>3, <1>5, <2>1 DEF Item, Record
  <2>3. RecordRight(l)
    BY DEF RecordRight, SumRight, Record
  <2> QED
    BY <2>2, <2>3 DEF Record
<1>7. r \in Item /\ r.kind = "data" /\ r.data = d /\ RecordRight(r) /\ PlaceOf(Upper(a), r) = a
  <2>1. (Len(d) + Digits(a, 2) + Total(d)) % Base \in Sums
    <3>1. Len(d) + Digits(a, 2) \in Int
      BY <1>4, <1>5
    <3> QED
      BY <1>5, <3>1 DEF Sums
  <2>2. r \in Item
    BY <1>3, <2>1 DEF Item, Record
  <2>3. RecordRight(r)
    <3>1. Len(d) + 0 = Len(d)
      BY <1>5
    <3> QED
      BY <1>4, <3>1 DEF RecordRight, SumRight, Record
  <2>4. PlaceOf(Upper(a), r) = a
    BY <1>1 DEF PlaceOf, Record
  <2> QED
    BY <2>2, <2>3, <2>4 DEF Record
<1>8. Line(a, d) = (IF Upper(a) = segment THEN << >> ELSE <<l>>) \o <<r>>
  BY DEF Line, HexLine
<1> HIDE DEF l, r
<1>9. f \o Line(a, d) = IF Upper(a) = segment THEN Append(f, r) ELSE Append(Append(f, l), r)
  <2>1. CASE Upper(a) = segment
    <3>1. Line(a, d) = << >> \o <<r>>
      BY <1>8, <2>1
    <3>2. Line(a, d) = <<r>>
      BY <1>7, <3>1
    <3> QED
      BY <1>7, <2>1, <3>2
  <2>2. CASE Upper(a) # segment
    <3>1. Line(a, d) = <<l>> \o <<r>>
      BY <1>8, <2>2
    <3>2. f \o (<<l>> \o <<r>>) = Append(Append(f, l), r)
      BY <1>6, <1>7
    <3> QED
      BY <2>2, <3>1, <3>2
  <2> QED
    BY <2>1, <2>2
<1> QED
  BY <1>6, <1>7, <1>9

(* The type of a line of S-records has room for the address, but for S2    *)
(* lines of srec24.                                                        *)
LEMMA SrecRecord ==
  ASSUME format \in Lines, format # "hex", image \in Image, NEW f \in Seq(Item),
         NEW a \in Address, NEW d \in Short, d # << >>
  PROVE  \E r \in Item :
           /\ r.kind = "data" /\ r.data = d /\ RecordRight(r)
           /\ a <= image.high_address /\ ~TooFar => PlaceOf(segment, r) = a
           /\ f \o Line(a, d) = Append(f, r)
<1> DEFINE type == SrecType(a)
           r == Record("data", type + 1, a % Weight(type + 1), d,
                       Len(d) + type + 2 + AddressSum(type, a) + Total(d))
<1>1. /\ Base \in Nat \ {0} /\ Bank \in Nat \ {0} /\ Reach \in Nat \ {0} /\ Space \in Nat \ {0}
      /\ Bank <= Reach /\ Reach <= Space
      /\ a \in Nat /\ a < Space
  BY ImageNumbers DEF Address
<1>2. image.high_address \in Nat
  BY ImageFormatsAssumption DEF ImageFormatsAssumption, Address
<1>3. type \in {1, 2, 3} /\ (format = "srec32" => type = 3)
  BY DEF SrecType, Lines
<1>4. /\ type = 1 => Weight(type + 1) = Bank
      /\ type = 2 => Weight(type + 1) = Reach
      /\ type = 3 => Weight(type + 1) = Space
  BY DEF Weight
<1>5. a % Weight(type + 1) \in Address
  <2>1. ASSUME NEW p \in Nat \ {0}, p <= Space PROVE a % p \in Address
    <3>1. a % p \in 0 .. p - 1
      BY <1>1, Divided
    <3> QED
      BY <1>1, <2>1, <3>1 DEF Address
  <2> HIDE DEF type, r
  <2>2. Bank <= Space /\ Reach <= Space /\ Space <= Space
    BY <1>1
  <2>3. a % Bank \in Address
    BY <1>1, <2>1, <2>2
  <2>4. a % Reach \in Address
    BY <1>1, <2>1, <2>2
  <2>5. a % Space \in Address
    BY <1>1, <2>1, <2>2
  <2> QED
    BY <1>3, <1>4, <2>3, <2>4, <2>5
<1>6. AddressSum(type, a) \in Int
  <2>1. \A k \in 2 .. 4 : Digits(a, k) \in Int
    BY <1>1, DigitsType
  <2>2. Digit(a, 2) + Digit(a, 0) \in Int
    BY <1>1, DigitType
  <2> QED
    BY <1>3, <2>1, <2>2 DEF AddressSum
<1>7. d \in Seq(Values) /\ Len(d) \in Nat
  BY DEF Short
<1>8. r \in Item /\ r.kind = "data" /\ r.data = d
  <2>1. Len(d) + type + 2 + AddressSum(type, a) \in Int
    BY <1>3, <1>6, <1>7
  <2>2. (Len(d) + type + 2 + AddressSum(type, a) + Total(d)) % Base \in Sums
    BY <1>7, <2>1 DEF Sums
  <2>3. type + 1 \in 2 .. 4
    BY <1>3
  <2> HIDE DEF type
  <2> QED
    BY <1>5, <2>2, <2>3 DEF Item, Record
<1>9. RecordRight(r)
  <2>1. ASSUME format = "srec32"
        PROVE  SumRight(r)
    <3>1. type = 3 /\ Weight(4) = Space
      BY <1>3, <2>1 DEF Weight
    <3>2. a % Space = a
      BY <1>1, Around
    <3>3. AddressSum(type, a) = Digits(a, 4)
      BY <3>1 DEF AddressSum
    <3>4. r = Record("data", 4, a, d, Len(d) + 3 + 2 + Digits(a, 4) + Total(d))
      BY <3>1, <3>2, <3>3
    <3>5. Len(d) + 3 + 2 = Len(d) + (4 + 1)
      BY <1>7
    <3> HIDE DEF r
    <3> QED
      BY <2>1, <3>4, <3>5 DEF SumRight, Record
  <2> QED
    BY <2>1 DEF RecordRight, Record, Lines
<1>10. ASSUME a <= image.high_address, ~TooFar
      PROVE  PlaceOf(segment, r) = a
  <2>1. a < Weight(type + 1)
    <3>1. CASE type = 1
      BY <1>1, <1>4, <3>1 DEF SrecType
    <3>2. CASE type = 2
      <4>1. a < Reach
        BY <1>2, <1>1, <1>10, <3>2 DEF SrecType, TooFar
      <4> QED
        BY <1>4, <3>2, <4>1
    <3>3. CASE type = 3
      BY <1>1, <1>4, <3>3
    <3> QED
      BY <1>3, <3>1, <3>2, <3>3
  <2>2. Weight(type + 1) \in Nat \ {0}
    BY <1>1, <1>3, <1>4
  <2> HIDE DEF type
  <2>3. a % Weight(type + 1) = a
    BY <1>1, <2>1, <2>2, Around
  <2> QED
    BY <2>3 DEF PlaceOf, Record
<1>11. Line(a, d) = <<r>>
  BY DEF Line, SrecLine
<1> HIDE DEF r
<1>12. f \o Line(a, d) = Append(f, r)
  BY <1>8, <1>11
<1> QED
  BY <1>8, <1>9, <1>10, <1>12

LEMMA WdcRecord ==
  ASSUME format = "wdc", image \in Image, NEW f \in Seq(Item),
         NEW a \in Address, NEW d \in Short, d # << >>
  PROVE  \E r \in Item :
           /\ r.kind = "block" /\ r.data = d /\ RecordRight(r)
           /\ a <= image.high_address /\ ~TooFar => PlaceOf(segment, r) = a
           /\ f \o WdcBlock(a, d) = Append(f, r)
<1> DEFINE r == Record("block", 3, a % Reach, d, 0)
<1>1. /\ Base \in Nat \ {0} /\ Reach \in Nat \ {0} /\ Space \in Nat \ {0} /\ Reach <= Space
      /\ a \in Nat
  BY ImageNumbers DEF Address
<1>2. a % Reach \in 0 .. Reach - 1 /\ a % Reach \in Address
  <2>1. a % Reach \in 0 .. Reach - 1
    BY <1>1, Divided
  <2> QED
    BY <1>1, <2>1 DEF Address
<1>3. r \in Item /\ r.kind = "block" /\ r.data = d
  <2>1. 0 % Base = 0
    BY <1>1, Around
  <2>2. 0 % Base \in Sums
    BY <1>1, <2>1 DEF Sums
  <2> QED
    BY <1>2, <2>2 DEF Item, Record
<1>4. RecordRight(r)
  BY <1>1, <1>2 DEF RecordRight, Record, Lines
<1>5. ASSUME a <= image.high_address, ~TooFar
      PROVE  PlaceOf(segment, r) = a
  <2>1. image.high_address \in Nat
    BY ImageFormatsAssumption DEF ImageFormatsAssumption, Address
  <2>2. a < Reach
    BY <1>1, <1>5, <2>1 DEF TooFar
  <2>3. a % Reach = a
    BY <1>1, <2>2, Around
  <2> QED
    BY <2>3 DEF PlaceOf, Record
<1>6. WdcBlock(a, d) = <<r>>
  BY DEF WdcBlock
<1> HIDE DEF r
<1>7. f \o WdcBlock(a, d) = Append(f, r)
  BY <1>3, <1>6
<1> QED
  BY <1>3, <1>4, <1>5, <1>7

LEMMA ClosedEmpty ==
  ASSUME NEW f \in Seq(Item), NEW a
  PROVE  f \o Closing(a, << >>) = f
<1>1. Closing(a, << >>) = << >>
  BY DEF Closing, WdcBlock, Line
<1> QED
  BY <1>1

LEMMA RightAppended ==
  ASSUME NEW f \in Seq(Item), NEW r \in Item, RecordsRight(f), RecordRight(r)
  PROVE  RecordsRight(Append(f, r))
BY DEF RecordsRight

LEMMA ClosedRight ==
  ASSUME LeavesGaps, image \in Image, segment \in 0 .. Bank - 1, NEW f \in Seq(Item),
         NEW a \in Address, NEW d \in Short, RecordsRight(f)
  PROVE  f \o Closing(a, d) \in Seq(Item) /\ RecordsRight(f \o Closing(a, d))
<1>1. CASE d = << >>
  BY <1>1, ClosedEmpty
<1>2. CASE d # << >> /\ format = "hex"
  <2>1. PICK l \in Item, r \in Item :
          /\ RecordRight(l) /\ RecordRight(r)
          /\ f \o Line(a, d) = IF Upper(a) = segment THEN Append(f, r)
                               ELSE Append(Append(f, l), r)
    BY <1>2, HexRecords
  <2>2. PICK g \in Seq(Item) : g = Append(f, l) /\ RecordsRight(g)
    <3>1. RecordRight(l)
      BY <2>1
    <3>2. Append(f, l) \in Seq(Item) /\ RecordsRight(Append(f, l))
      BY <3>1, RightAppended
    <3> QED
      BY <3>2
  <2>3. Append(g, r) \in Seq(Item) /\ RecordsRight(Append(g, r))
    <3>1. RecordRight(r) /\ RecordsRight(g)
      BY <2>1, <2>2
    <3> QED
      BY <3>1, RightAppended
  <2>4. Append(f, r) \in Seq(Item) /\ RecordsRight(Append(f, r))
    BY <2>1, RightAppended
  <2> QED
    BY <1>2, <2>1, <2>2, <2>3, <2>4 DEF Closing
<1>3. CASE d # << >> /\ format # "hex"
  <2>1. PICK r \in Item : RecordRight(r) /\ f \o Closing(a, d) = Append(f, r)
    <3>1. CASE format = "wdc"
      BY <1>3, <3>1, WdcRecord DEF Closing
    <3>2. CASE format # "wdc"
      BY <1>3, <3>2, SrecRecord DEF Closing, LeavesGaps
    <3> QED
      BY <3>1, <3>2
  <2> QED
    BY <2>1, RightAppended
<1> QED
  BY <1>1, <1>2, <1>3

(* The open record may change as long as nothing is lost. *)
LEMMA KeptOpen ==
  ASSUME NEW f, NEW s, NEW a \in Int, NEW d, NEW m \in Int, Kept(f, s, a, d, m),
         NEW x \in Int, NEW e, NEW k \in Int, Written \subseteq Int,
         d # << >> => e # << >> /\ x <= a,
         Possible => \A b \in Written : b < k => b < m \/ (e # << >> /\ x <= b)
  PROVE  Kept(f, s, x, e, k)
<1>1. PICK S : /\ Chain(f, 0, S) /\ S[Len(f)] = s
               /\ ~TooFar => Intact(f, S)
               /\ Possible => \A b \in Written :
                                b < m => Holds(f, S, b) \/ (d # << >> /\ a <= b)
  BY DEF Kept
<1>2. ASSUME Possible, NEW b \in Written, b < k
      PROVE  Holds(f, S, b) \/ (e # << >> /\ x <= b)
  <2>1. CASE b < m
    <3>1. Holds(f, S, b) \/ (d # << >> /\ a <= b)
      BY <1>1, <1>2, <2>1
    <3> QED
      BY <3>1
  <2>2. CASE ~(b < m)
    BY <1>2, <2>2
  <2> QED
    BY <2>1, <2>2
<1> QED
  BY <1>1, <1>2 DEF Kept

(* A record that is closed holds what the open one did. *)
LEMMA ClosedKept ==
  ASSUME LeavesGaps, image \in Image, segment \in 0 .. Bank - 1, NEW f \in Seq(Item),
         NEW a \in Address, NEW d \in Short, NEW m \in Int, Kept(f, segment, a, d, m),
         d # << >> => a <= image.high_address /\ Right(a, d) /\ a + Len(d) = m,
         NEW x
  PROVE  Kept(f \o Closing(a, d), IF format = "hex" /\ d # << >> THEN Upper(a) ELSE segment,
              x, << >>, m)
<1>1. CASE d = << >>
  <2>1. f \o Closing(a, d) = f
    BY <1>1, ClosedEmpty
  <2>2. Kept(f, segment, x, << >>, m)
    BY <1>1 DEF Kept
  <2> QED
    BY <1>1, <2>1, <2>2
<1>2. ASSUME d # << >>,
             NEW g \in Seq(Item), NEW r \in Item, NEW s, NEW S,
             Chain(g, 0, S), s = S[Len(g)], ~TooFar => Intact(g, S),
             Possible => \A b \in Written : b < m => Holds(g, S, b) \/ a <= b,
             r.kind # "linear", r.data = d, ~TooFar => PlaceOf(s, r) = a
      PROVE  Kept(Append(g, r), s, x, << >>, m)
  <2>1. PICK T : /\ Chain(Append(g, r), 0, T) /\ T[Len(g) + 1] = s
                 /\ \A i \in 0 .. Len(g) : T[i] = S[i]
    BY <1>2, RecordAppended
  <2>2. Len(Append(g, r)) = Len(g) + 1
    OBVIOUS
  <2>3. ASSUME ~TooFar
        PROVE  Intact(Append(g, r), T)
    <3>1. r.data # << >> /\ Right(PlaceOf(T[Len(g) + 1], r), r.data)
      BY <1>2, <2>1, <2>3
    <3> QED
      BY <1>2, <2>1, <2>3, <3>1, AppendedIntact
  <2>4. ASSUME Possible, NEW b \in Written, b < m
        PROVE  Holds(Append(g, r), T, b)
    <3>1. CASE Holds(g, S, b)
      BY <2>1, <3>1, AppendedHolds
    <3>2. CASE ~Holds(g, S, b)
      <4>1. a <= b /\ b < a + Len(d)
        BY <1>2, <2>4, <3>2
      <4>2. InRecord(T[Len(g) + 1], r, b)
        BY <1>2, <2>1, <2>4, <4>1 DEF InRecord, Possible
      <4> QED
        BY <2>1, <4>2, AppendedHolds
    <3> QED
      BY <3>1, <3>2
  <2> QED
    BY <2>1, <2>2, <2>3, <2>4 DEF Kept
<1>3. ASSUME d # << >>
      PROVE  Kept(f \o Closing(a, d), IF format = "hex" THEN Upper(a) ELSE segment, x, << >>, m)
  <2>1. PICK S : /\ Chain(f, 0, S) /\ S[Len(f)] = segment
                 /\ ~TooFar => Intact(f, S)
                 /\ Possible => \A b \in Written : b < m => Holds(f, S, b) \/ a <= b
    BY DEF Kept
  <2>2. CASE format = "hex"
    <3>1. PICK l \in Item, r \in Item :
            /\ l.kind = "linear" /\ l.address = Upper(a)
            /\ r.kind = "data" /\ PlaceOf(Upper(a), r) = a /\ r.data = d
            /\ f \o Line(a, d) = IF Upper(a) = segment THEN Append(f, r)
                                 ELSE Append(Append(f, l), r)
      BY <1>3, <2>2, HexRecords
    <3>2. CASE Upper(a) = segment
      <4>1. Kept(Append(f, r), segment, x, << >>, m)
        BY <1>2, <1>3, <2>1, <3>1, <3>2
      <4> QED
        BY <2>2, <3>1, <3>2, <4>1 DEF Closing
    <3>3. CASE Upper(a) # segment
      <4>1. PICK T : /\ Chain(Append(f, l), 0, T) /\ T[Len(f) + 1] = Upper(a)
                     /\ \A i \in 0 .. Len(f) : T[i] = S[i]
        BY <2>1, <3>1, RecordAppended
      <4>2. Append(f, l) \in Seq(Item) /\ Len(Append(f, l)) = Len(f) + 1
        OBVIOUS
      <4>3. ~TooFar => Intact(Append(f, l), T)
        BY <2>1, <3>1, <4>1, AppendedIntact
      <4>4. \A b : Holds(f, S, b) => Holds(Append(f, l), T, b)
        BY <4>1, AppendedHolds
      <4>5. Possible => \A b \in Written : b < m => Holds(Append(f, l), T, b) \/ a <= b
        BY <2>1, <4>4
      <4>6. Kept(Append(Append(f, l), r), Upper(a), x, << >>, m)
        BY <1>2, <1>3, <3>1, <4>1, <4>2, <4>3, <4>5
      <4> QED
        BY <2>2, <3>1, <3>3, <4>6 DEF Closing
    <3> QED
      BY <3>2, <3>3
  <2>3. CASE format # "hex"
    <3>1. PICK r \in Item :
            /\ r.kind # "linear" /\ r.data = d /\ f \o Closing(a, d) = Append(f, r)
            /\ ~TooFar => PlaceOf(segment, r) = a
      <4>1. CASE format = "wdc"
        BY <1>3, <4>1, WdcRecord DEF Closing
      <4>2. CASE format # "wdc"
        BY <1>3, <2>3, <4>2, SrecRecord DEF Closing, LeavesGaps
      <4> QED
        BY <4>1, <4>2
    <3>2. Kept(Append(f, r), segment, x, << >>, m)
      BY <1>2, <1>3, <2>1, <3>1
    <3> QED
      BY <2>3, <3>1, <3>2
  <2> QED
    BY <2>2, <2>3
<1> QED
  BY <1>1, <1>3

LEMMA KeptHeld ==
  ASSUME NEW f, NEW s, NEW a, NEW m, NEW B, Kept(f, s, a, << >>, m),
         \A b \in Written : b < m
  PROVE  Held(f, 0, B)
BY DEF Kept, Held

LEMMA HeldTaken ==
  ASSUME NEW f \in Seq(Item), f # << >>, NEW s, NEW B, NEW C, Held(f, s, B),
         Head(f).kind = "linear" => B \subseteq C,
         Head(f).kind # "linear" =>
           B \cup {b \in Written : InRecord(s, Head(f), b)} \subseteq C
  PROVE  Held(Tail(f), IF Head(f).kind = "linear" THEN Head(f).address ELSE s, C)
<1>1. PICK S : /\ Chain(f, s, S)
               /\ ~TooFar => Intact(f, S)
               /\ Possible => \A b \in Written : Holds(f, S, b) \/ b \in B
  BY DEF Held
<1>2. PICK T : /\ Chain(Tail(f), IF Head(f).kind = "linear" THEN Head(f).address ELSE s, T)
               /\ S[1] = IF Head(f).kind = "linear" THEN Head(f).address ELSE s
               /\ Intact(f, S) => Intact(Tail(f), T)
               /\ \A b : Holds(f, S, b) => InRecord(S[1], Head(f), b) \/ Holds(Tail(f), T, b)
  BY <1>1, RecordTaken
<1>3. ASSUME Possible, NEW b \in Written, b \notin C
      PROVE  Holds(Tail(f), T, b)
  <2>1. b \notin B
    BY <1>3
  <2>2. InRecord(S[1], Head(f), b) \/ Holds(Tail(f), T, b)
    BY <1>1, <1>2, <1>3, <2>1
  <2>3. ~InRecord(S[1], Head(f), b)
    <3>1. CASE Head(f).kind = "linear"
      BY <3>1 DEF InRecord
    <3>2. CASE Head(f).kind # "linear"
      BY <1>2, <1>3, <3>2
    <3> QED
      BY <3>1, <3>2
  <2> QED
    BY <2>2, <2>3
<1> QED
  BY <1>1, <1>2, <1>3 DEF Held

(* What a record holds that is read next. *)
LEMMA HeldFirst ==
  ASSUME NEW f \in Seq(Item), f # << >>, NEW s, NEW B, Held(f, s, B), ~TooFar,
         Head(f).kind # "linear"
  PROVE  Head(f).data # << >> /\ Right(PlaceOf(s, Head(f)), Head(f).data)
<1>1. PICK S : Chain(f, s, S) /\ Intact(f, S)
  BY DEF Held
<1>2. Len(f) \in Nat /\ 1 \in 1 .. Len(f) /\ Head(f) = f[1]
  OBVIOUS
<1>3. S[1] = s
  BY <1>1, <1>2 DEF Chain
<1> QED
  BY <1>1, <1>2, <1>3 DEF Intact

LEMMA ImageConstants ==
  ASSUME image \in Image
  PROVE  /\ image.low_address \in Address /\ image.high_address \in Address
         /\ DOMAIN image.bytes \subseteq Address
         /\ Written \subseteq Address /\ Written \subseteq InFile /\ InFile \subseteq Address
<1>1. /\ image.low_address \in Address /\ image.high_address \in Address
      /\ DOMAIN image.bytes \subseteq Address
  BY ImageFormatsAssumption DEF ImageFormatsAssumption
<1>2. InFile \subseteq Address
  BY <1>1, ImageNumbers DEF InFile, Address
<1> QED
  BY <1>1, <1>2 DEF Written

LEMMA ByteValue ==
  ASSUME image \in Image, NEW a
  PROVE  Byte(a) \in Values /\ (a \notin DOMAIN image.bytes => Byte(a) = 0)
<1>1. ASSUME a \in DOMAIN image.bytes
      PROVE  image.bytes[a] \in Values
  <2>1. image.bytes[a] \in {image.bytes[b] : b \in DOMAIN image.bytes}
    BY <1>1
  <2> QED
    BY <2>1 DEF Values
<1>2. 0 \in Values
  BY DEF Values
<1> QED
  BY <1>1, <1>2 DEF Byte, Empty

LEMMA Looped ==
  ASSUME ImageTypeOK, Loop, phase = "write", InRange, Advance
  PROVE  /\ n' \in Address /\ phase' \in {"write", "endless"} /\ Loop'
         /\ phase' = "write" => n' = n + 1
         /\ n \in InFile /\ n \in Address /\ image \in Image /\ image' = image
         /\ format \in Format /\ format' = format
         /\ start' = start /\ end' = end /\ low_address' = low_address
         /\ high_address' = high_address /\ bytes' = bytes
<1>1. n \in Address /\ image \in Image /\ format \in Format
  BY DEF ImageTypeOK
<1>2. Space \in Nat \ {0} /\ image.low_address \in Nat /\ image.high_address \in Nat /\ n \in Nat
  BY <1>1, ImageNumbers, ImageConstants DEF Address
<1>3. image.low_address <= n /\ n <= image.high_address
  BY DEF Loop, InRange
<1>4. /\ image' = image /\ format' = format /\ bytes' = bytes /\ start' = start /\ end' = end
      /\ low_address' = low_address /\ high_address' = high_address
  BY DEF Advance, range
<1>5. \/ n = Space - 1 /\ phase' = "endless" /\ n' = n
      \/ n # Space - 1 /\ n' = n + 1 /\ phase' = "write"
  BY DEF Advance
<1>6. n' \in Address
  BY <1>1, <1>2, <1>5 DEF Address
<1>7. Loop'
  <2>1. CASE phase' = "endless"
    BY <2>1 DEF Loop
  <2>2. CASE phase' = "write"
    BY <1>2, <1>3, <1>4, <1>5, <2>2 DEF Loop
  <2> QED
    BY <1>5, <2>1, <2>2
<1> QED
  BY <1>1, <1>2, <1>3, <1>4, <1>5, <1>6, <1>7 DEF InFile

LEMMA OpenShort ==
  ASSUME ImageTypeOK, OpenRecord, phase = "write"
  PROVE  /\ data \in Short /\ Len(data) \in Nat
         /\ data # << >> => Len(data) \in Nat \ {0}
         /\ \A v \in Values : /\ Append(data, v) \in Short /\ <<v>> \in Short
                              /\ Len(Append(data, v)) = Len(data) + 1
<1>1. /\ data \in Seq(Values) /\ Len(data) \in Nat /\ n \in Address /\ address \in Address
      /\ data # << >> => Len(data) \in Nat \ {0}
  BY DEF ImageTypeOK
<1>2. data # << >> => address + Len(data) = n
  BY DEF OpenRecord
<1>3. Space \in Nat /\ Space >= 2 /\ n \in Nat /\ n < Space /\ address \in Nat
  BY <1>1, ImageNumbers DEF Address
<1>4. Len(data) < Space
  <2>1. CASE data = << >>
    BY <1>3, <2>1
  <2>2. CASE data # << >>
    BY <1>1, <1>2, <1>3, <2>2
  <2> QED
    BY <2>1, <2>2
<1>5. \A v \in Values :
        /\ Append(data, v) \in Seq(Values) /\ Len(Append(data, v)) = Len(data) + 1
        /\ <<v>> \in Seq(Values) /\ Len(<<v>>) = 1
  BY <1>1
<1> QED
  BY <1>1, <1>3, <1>4, <1>5 DEF Short

(* The next byte of the open record. *)
LEMMA RightNext ==
  ASSUME image \in Image, NEW a \in Int, NEW d \in Seq(Values), NEW m \in Written,
         Right(a, d), a + Len(d) = m
  PROVE  Right(a, Append(d, Byte(m)))
<1>1. /\ Len(d) \in Nat /\ Len(Append(d, Byte(m))) = Len(d) + 1
      /\ \A i \in 1 .. Len(d) : Append(d, Byte(m))[i] = d[i]
      /\ Append(d, Byte(m))[Len(d) + 1] = Byte(m)
  BY ByteValue
<1>2. Byte(m) = image.bytes[m]
  BY DEF Byte, Empty, Written
<1>3. a + (Len(d) + 1) - 1 = m
  BY <1>1
<1>4. ASSUME NEW i \in 1 .. Len(d) + 1
      PROVE  /\ a + i - 1 \in Written
             /\ Append(d, Byte(m))[i] = image.bytes[a + i - 1]
  <2>1. CASE i = Len(d) + 1
    BY <1>1, <1>2, <1>3, <2>1
  <2>2. CASE i # Len(d) + 1
    <3>1. i \in 1 .. Len(d)
      BY <1>1, <2>2
    <3> QED
      BY <1>1, <3>1 DEF Right
  <2> QED
    BY <2>1, <2>2
<1> QED
  BY <1>1, <1>4 DEF Right

LEMMA RightOne ==
  ASSUME NEW m \in Written, Written \subseteq Int
  PROVE  Right(m, <<Byte(m)>>)
<1>1. Byte(m) = image.bytes[m]
  BY DEF Byte, Empty, Written
<1>2. Len(<<Byte(m)>>) = 1 /\ <<Byte(m)>>[1] = Byte(m) /\ m + 1 - 1 = m
  OBVIOUS
<1>3. \A i \in 1 .. 1 : i = 1
  OBVIOUS
<1> QED
  BY <1>1, <1>2, <1>3 DEF Right

LEMMA RoomFacts ==
  ASSUME format \in Format
  PROVE  /\ Room \in Nat
         /\ format \in Lines => Room = LineLength - 1
         /\ format = "wdc" => Room = Bank
         /\ format = "uf2" => Room = Base - 1
<1>1. Base \in Nat /\ Base >= 2 /\ Bank \in Nat /\ LineLength \in Nat /\ LineLength >= 2
  BY ImageNumbers, ImageFormatsAssumption DEF ImageFormatsAssumption
<1>2. format \in Lines => Room = LineLength - 1
  BY DEF Room, Lines
<1>3. format = "wdc" => Room = Bank
  BY DEF Room, Lines
<1>4. format = "uf2" => Room = Base - 1
  BY DEF Room, Lines
<1>5. format = "bin" => Room = 0
  BY DEF Room, Lines
<1>6. format \in Lines \/ format \in {"bin", "wdc", "uf2"}
  BY DEF Format, Lines
<1> QED
  BY <1>1, <1>2, <1>3, <1>4, <1>5, <1>6

(* The room of an empty record, and of the format that stays. *)
LEMMA RoomSame ==
  ASSUME format \in Format, format' = format
  PROVE  Room' = Room /\ << >> \in Seq(Values) /\ Len(<< >>) = 0 /\ Len(<< >>) <= Room
<1>1. Room' = Room
  BY DEF Room
<1>2. 0 <= Room
  BY RoomFacts
<1> QED
  BY <1>1, <1>2

LEMMA TypesInit == ImageInit => Types
<1> SUFFICES ASSUME ImageInit PROVE Types
  OBVIOUS
<1>1. /\ Space \in Nat /\ Base \in Nat /\ Base >= 2 /\ Bank \in Nat /\ Bank >= 1
      /\ Space >= 1 /\ Base <= Space /\ LineLength \in Nat /\ LineLength >= 2
  BY ImageNumbers, ImageFormatsAssumption DEF ImageFormatsAssumption
<1>2. format \in Format /\ image \in Image
  BY DEF ImageInit
<1>3. image.low_address \in Address
  BY <1>2, ImageConstants
<1>4. ImageTypeOK
  <2>1. << >> \in Seq(Values) /\ Len(<< >>) = 0 /\ DOMAIN << >> = {}
    OBVIOUS
  <2>2. 0 \in Address /\ Space - 1 \in Address /\ 0 \in 0 .. Bank - 1
    BY <1>1 DEF Address
  <2>3. Room >= 0
    BY <1>2, RoomFacts
  <2>4. 0 <= Room
    BY <1>2, <2>3, RoomFacts
  <2>5. DOMAIN bytes = {} /\ -1 \in Int
    BY <2>1 DEF ImageInit
  <2> QED
    BY <1>2, <1>3, <2>1, <2>2, <2>4, <2>5 DEF ImageInit, ImageTypeOK
<1>5. FileType /\ (LeavesGaps => RecordsRight(file))
  <2>1. CASE format = "uf2"
    <3> DEFINE d == [i \in 1 .. Base |-> Pico]
               r == Record("block", 4, PicoAddress, d, 0)
    <3>1. d \in Short
      <4>1. Pico \in Values
        BY DEF Values
      <4>2. d \in Seq(Values) /\ Len(d) = Base
        BY <1>1, <4>1
      <4> QED
        BY <1>1, <4>2 DEF Short
    <3>2. 0 % Base \in Sums
      <4>1. 0 % Base = 0
        BY <1>1, Around
      <4> QED
        BY <1>1, <4>1 DEF Sums
    <3>3. PicoAddress \in Address
      BY ImageFormatsAssumption DEF ImageFormatsAssumption
    <3>4. r \in Item
      BY <3>1, <3>2, <3>3 DEF Item, Record
    <3>5. file = <<r>>
      BY <2>1 DEF ImageInit
    <3> QED
      BY <2>1, <3>4, <3>5 DEF FileType, LeavesGaps, Lines
  <2>2. CASE format # "uf2"
    BY <2>2 DEF ImageInit, FileType, RecordsRight
  <2> QED
    BY <2>1, <2>2
<1>6. OpenRecord /\ Loop
  <2>1. image.low_address \in Int
    BY <1>1, <1>3 DEF Address
  <2> QED
    BY <2>1 DEF ImageInit, OpenRecord, Loop
<1> QED
  BY <1>4, <1>5, <1>6 DEF Types

(* The parts of Types that say what is in the file, when its end changes.  *)
LEMMA ClosedTypes ==
  ASSUME Types, LeavesGaps, phase = "write", NEW a \in Address, NEW d \in Short,
         file' = file \o Closing(a, d), format' = format, image' = image
  PROVE  /\ file' \in Seq(Item) /\ FileType' /\ RecordsRight(file)'
         /\ (IF format = "hex" /\ d # << >> THEN Upper(a) ELSE segment) \in 0 .. Bank - 1
<1>1. image \in Image /\ format \in Format /\ segment \in 0 .. Bank - 1 /\ RecordsRight(file)
  BY DEF Types, ImageTypeOK
<1>2. format # "bin"
  BY DEF LeavesGaps, Lines
<1>3. file \in Seq(Item)
  BY <1>2 DEF Types, FileType
<1>4. file' \in Seq(Item) /\ RecordsRight(file')
  BY <1>1, <1>3, ClosedRight
<1>5. RecordsRight(file)'
  BY <1>4 DEF RecordsRight, RecordRight, SumRight
<1> QED
  BY <1>1, <1>2, <1>4, <1>5, AddressParts DEF FileType

LEMMA SkipEmptyTypes == Types /\ SkipEmpty => Types'
<1> SUFFICES ASSUME Types, SkipEmpty PROVE Types'
  OBVIOUS
<1>1. /\ phase = "write" /\ format \in Lines /\ InRange /\ Advance
      /\ ImageTypeOK /\ OpenRecord /\ Loop /\ address \in Address /\ LeavesGaps
  BY DEF SkipEmpty, Writing, Types, ImageTypeOK, LeavesGaps
<1>2. /\ n' \in Address /\ phase' \in {"write", "endless"} /\ Loop'
      /\ image \in Image /\ image' = image /\ format \in Format /\ format' = format
      /\ start' = start /\ end' = end /\ low_address' = low_address
      /\ high_address' = high_address /\ bytes' = bytes
  BY <1>1, Looped
<1>3. data \in Short
  BY <1>1, OpenShort
<1>4. file' = file \o Closing(address, data)
  <2>1. format # "wdc"
    BY <1>1 DEF Lines
  <2> QED
    BY <2>1 DEF SkipEmpty, Closing
<1>5. /\ FileType' /\ RecordsRight(file)' /\ segment' \in 0 .. Bank - 1
  BY <1>1, <1>2, <1>3, <1>4, ClosedTypes DEF SkipEmpty, Wrote
<1>6. data' = << >> /\ address' = address
  BY DEF SkipEmpty
<1>7. ImageTypeOK'
  <2>1. data' \in Seq(Values) /\ Len(data') <= Room'
    BY <1>2, <1>6, RoomSame
  <2> QED
    BY <1>1, <1>2, <1>5, <1>6, <2>1 DEF ImageTypeOK
<1>8. OpenRecord'
  BY <1>6 DEF OpenRecord
<1> QED
  BY <1>2, <1>5, <1>7, <1>8 DEF Types

(* The ways a line is gathered: a line that is open is closed before the   *)
(* byte, with it, or goes on.                                              *)
LEMMA Gathered ==
  ASSUME Types, Gather
  PROVE  /\ n \in Written /\ Byte(n) \in Values
         /\ \/ /\ data = << >> \/ AtBank(n)
               /\ file' = file \o Closing(address, data)
               /\ segment' = IF format = "hex" /\ data # << >> THEN Upper(address) ELSE segment
               /\ address' = n /\ data' = <<Byte(n)>>
            \/ LET d == Append(data, Byte(n))
               IN /\ data # << >> /\ Len(d) = LineLength
                  /\ file' = file \o Closing(address, d)
                  /\ segment' = IF format = "hex" /\ d # << >> THEN Upper(address) ELSE segment
                  /\ address' = address /\ data' = << >>
            \/ /\ data # << >> /\ Len(Append(data, Byte(n))) # LineLength
               /\ file' = file /\ segment' = segment
               /\ address' = address /\ data' = Append(data, Byte(n))
<1>1. /\ phase = "write" /\ format \in Lines /\ InRange /\ Advance /\ ~Empty(n)
      /\ ImageTypeOK /\ OpenRecord /\ Loop /\ address \in Address /\ LeavesGaps
  BY DEF Gather, Writing, Types, ImageTypeOK, LeavesGaps
<1>2. n \in InFile /\ image \in Image
  BY <1>1, Looped
<1>3. n \in Written /\ Byte(n) \in Values
  BY <1>1, <1>2, ByteValue DEF Written, Empty
<1>4. format # "wdc" /\ \A a, d : Closing(a, d) = Line(a, d)
  BY <1>1 DEF Lines, Closing
<1> DEFINE fresh == data = << >> \/ AtBank(n)
           d == IF fresh THEN <<Byte(n)>> ELSE Append(data, Byte(n))
           full == Len(d) = LineLength
           closed == IF full THEN IF fresh THEN n ELSE address ELSE address
           line == IF full THEN d ELSE IF fresh THEN data ELSE << >>
<1>5. /\ file' = file \o Closing(closed, line)
      /\ segment' = IF format = "hex" /\ line # << >> THEN Upper(closed) ELSE segment
      /\ address' = IF fresh THEN n ELSE address
      /\ data' = IF full THEN << >> ELSE d
  BY <1>4 DEF Gather, Wrote
<1>6. CASE fresh
  <2>1. ~full
    <3>1. LineLength >= 2 /\ Len(<<Byte(n)>>) = 1
      BY ImageFormatsAssumption DEF ImageFormatsAssumption
    <3> QED
      BY <1>6, <3>1
  <2> QED
    BY <1>3, <1>5, <1>6, <2>1
<1>7. CASE ~fresh /\ full
  BY <1>3, <1>5, <1>7
<1>8. CASE ~fresh /\ ~full
  <2>1. file \in Seq(Item)
    BY <1>1 DEF Types, FileType, Lines
  <2>2. line = << >> /\ file' = file
    BY <1>5, <1>8, <2>1, ClosedEmpty
  <2> QED
    BY <1>3, <1>5, <1>8, <2>2
<1> QED
  BY <1>6, <1>7, <1>8

LEMMA GatherTypes == Types /\ Gather => Types'
<1> SUFFICES ASSUME Types, Gather PROVE Types'
  OBVIOUS
<1>1. /\ phase = "write" /\ format \in Lines /\ InRange /\ Advance
      /\ ImageTypeOK /\ OpenRecord /\ Loop /\ address \in Address /\ LeavesGaps
      /\ data \in Seq(Values) /\ Len(data) <= Room
  BY DEF Gather, Writing, Types, ImageTypeOK, LeavesGaps
<1>2. /\ n' \in Address /\ phase' \in {"write", "endless"} /\ Loop'
      /\ phase' = "write" => n' = n + 1
      /\ n \in InFile /\ n \in Address
      /\ image \in Image /\ image' = image /\ format \in Format /\ format' = format
      /\ start' = start /\ end' = end /\ low_address' = low_address
      /\ high_address' = high_address /\ bytes' = bytes
  BY <1>1, Looped
<1>3. /\ data \in Short /\ Len(data) \in Nat /\ Byte(n) \in Values /\ n \in Written
      /\ Append(data, Byte(n)) \in Short /\ <<Byte(n)>> \in Short
      /\ Len(Append(data, Byte(n))) = Len(data) + 1
      /\ <<Byte(n)>> \in Seq(Values) /\ Append(data, Byte(n)) \in Seq(Values)
      /\ Len(<<Byte(n)>>) = 1
  BY <1>1, Gathered, OpenShort DEF Short
<1>4. /\ Room = LineLength - 1 /\ Room' = Room /\ Room \in Nat /\ LineLength >= 2
      /\ << >> \in Seq(Values) /\ Len(<< >>) = 0
  BY <1>1, <1>2, RoomFacts, RoomSame, ImageFormatsAssumption DEF ImageFormatsAssumption
<1>5. FileType' /\ RecordsRight(file)' /\ segment' \in 0 .. Bank - 1
  <2>1. \/ file' = file /\ segment' = segment
        \/ \E d \in Short :
             /\ file' = file \o Closing(address, d)
             /\ segment' = IF format = "hex" /\ d # << >> THEN Upper(address) ELSE segment
    BY <1>3, Gathered
  <2>2. CASE file' = file /\ segment' = segment
    BY <1>1, <1>2, <2>2
       DEF Types, ImageTypeOK, FileType, RecordsRight, RecordRight, SumRight
  <2>3. ASSUME NEW d \in Short,
               file' = file \o Closing(address, d),
               segment' = IF format = "hex" /\ d # << >> THEN Upper(address) ELSE segment
        PROVE  FileType' /\ RecordsRight(file)' /\ segment' \in 0 .. Bank - 1
    BY <1>1, <1>2, <2>3, ClosedTypes
  <2> QED
    BY <2>1, <2>2, <2>3
<1>6. address' \in Address /\ data' \in Seq(Values) /\ Len(data') <= Room'
  <2>1. data' = <<Byte(n)>> => Len(data') <= Room
    BY <1>3, <1>4, ImageFormatsAssumption DEF ImageFormatsAssumption
  <2>2. data' = Append(data, Byte(n)) /\ Len(data') # LineLength => Len(data') <= Room
    BY <1>1, <1>3, <1>4, ImageFormatsAssumption DEF ImageFormatsAssumption
  <2>3. \/ address' = n /\ data' = <<Byte(n)>>
        \/ address' = address /\ data' = << >>
        \/ /\ address' = address /\ data' = Append(data, Byte(n))
           /\ Len(Append(data, Byte(n))) # LineLength
    BY Gathered
  <2>4. CASE address' = n /\ data' = <<Byte(n)>>
    BY <1>2, <1>3, <1>4, <2>1, <2>4
  <2>5. CASE address' = address /\ data' = << >>
    BY <1>1, <1>4, <2>5
  <2>6. CASE /\ address' = address /\ data' = Append(data, Byte(n))
             /\ Len(Append(data, Byte(n))) # LineLength
    BY <1>1, <1>3, <1>4, <2>2, <2>6
  <2> QED
    BY <2>3, <2>4, <2>5, <2>6
<1>7. ImageTypeOK'
  BY <1>1, <1>2, <1>5, <1>6 DEF ImageTypeOK
<1>8. OpenRecord'
  <2>1. SUFFICES ASSUME phase' = "write", data' # << >>
                 PROVE  /\ image.low_address <= address' /\ address' + Len(data') = n'
                        /\ Right(address', data')
    BY <1>1, <1>2 DEF OpenRecord, Right, Written, InFile, Lines
  <2>2. n' = n + 1 /\ n \in Int /\ image.low_address \in Int /\ image.low_address <= n
    BY <1>1, <1>2, <2>1, ImageConstants DEF Address, InFile
  <2>3. Written \subseteq Int
    BY <1>2, ImageConstants DEF Address
  <2>4. CASE address' = n /\ data' = <<Byte(n)>>
    BY <1>3, <2>2, <2>3, <2>4, RightOne
  <2>5. CASE data # << >> /\ address' = address /\ data' = Append(data, Byte(n))
    <3>1. /\ image.low_address <= address /\ address + Len(data) = n /\ Right(address, data)
      BY <1>1, <2>5 DEF OpenRecord
    <3>2. address \in Int
      BY <1>1 DEF Address
    <3>3. Right(address, Append(data, Byte(n)))
      BY <1>1, <1>2, <1>3, <3>1, <3>2, RightNext
    <3> QED
      BY <1>3, <2>2, <2>5, <3>1, <3>2, <3>3
  <2> QED
    BY <2>1, <2>4, <2>5, Gathered
<1> QED
  BY <1>2, <1>5, <1>7, <1>8 DEF Types

LEMMA WriteBinTypes == Types /\ WriteBin => Types'
<1> SUFFICES ASSUME Types, WriteBin PROVE Types'
  OBVIOUS
<1>1. /\ phase = "write" /\ format = "bin" /\ InRange /\ Advance
      /\ ImageTypeOK /\ Loop /\ file \in Seq(Values)
      /\ file' = Append(file, Byte(n))
      /\ address' = address /\ data' = data /\ segment' = segment
  BY DEF WriteBin, Writing, Types, FileType
<1>2. /\ n' \in Address /\ phase' \in {"write", "endless"} /\ Loop'
      /\ image \in Image /\ image' = image /\ format \in Format /\ format' = format
      /\ start' = start /\ end' = end /\ low_address' = low_address
      /\ high_address' = high_address /\ bytes' = bytes
  BY <1>1, Looped
<1>3. FileType' /\ ~LeavesGaps'
  <2>1. Append(file, Byte(n)) \in Seq(Values)
    BY <1>1, <1>2, ByteValue
  <2> QED
    BY <1>1, <1>2, <2>1 DEF FileType, LeavesGaps, Lines
<1>4. ImageTypeOK' /\ data = << >>
  <2>1. Room' = Room /\ Room = 0
    BY <1>1, <1>2, RoomSame DEF Room, Lines
  <2>2. data = << >>
    BY <1>1, <2>1 DEF ImageTypeOK
  <2> QED
    BY <1>1, <1>2, <2>1, <2>2 DEF ImageTypeOK
<1> QED
  BY <1>1, <1>2, <1>3, <1>4 DEF Types, OpenRecord

LEMMA WriteWdcTypes == Types /\ WriteWdc => Types'
<1> SUFFICES ASSUME Types, WriteWdc PROVE Types'
  OBVIOUS
<1>1. /\ phase = "write" /\ format = "wdc" /\ InRange /\ Advance
      /\ ImageTypeOK /\ OpenRecord /\ Loop /\ address \in Address /\ LeavesGaps
      /\ data \in Seq(Values) /\ Len(data) <= Room /\ segment' = segment
      /\ segment \in 0 .. Bank - 1
  BY DEF WriteWdc, Writing, Types, ImageTypeOK, LeavesGaps
<1>2. /\ n' \in Address /\ phase' \in {"write", "endless"} /\ Loop'
      /\ phase' = "write" => n' = n + 1
      /\ n \in InFile /\ n \in Address
      /\ image \in Image /\ image' = image /\ format \in Format /\ format' = format
      /\ start' = start /\ end' = end /\ low_address' = low_address
      /\ high_address' = high_address /\ bytes' = bytes
  BY <1>1, Looped
<1>3. /\ data \in Short /\ Len(data) \in Nat /\ Byte(n) \in Values
      /\ Append(data, Byte(n)) \in Seq(Values)
      /\ Len(Append(data, Byte(n))) = Len(data) + 1
  BY <1>1, <1>2, ByteValue, OpenShort DEF Short
<1>4. /\ Room = Bank /\ Room' = Room /\ Room \in Nat
      /\ << >> \in Seq(Values) /\ Len(<< >>) = 0 /\ Len(<< >>) <= Room
  BY <1>1, <1>2, RoomFacts, RoomSame
<1>5. CASE EndsBlock(n)
  <2>1. file' = file \o Closing(address, data) /\ data' = << >> /\ address' = address
    BY <1>1, <1>5 DEF WriteWdc, Closing
  <2>2. FileType' /\ RecordsRight(file)'
    BY <1>1, <1>2, <1>3, <2>1, ClosedTypes
  <2>3. ImageTypeOK'
    BY <1>1, <1>2, <1>4, <2>1 DEF ImageTypeOK
  <2> QED
    BY <1>2, <2>1, <2>2, <2>3 DEF Types, OpenRecord
<1>6. CASE ~EndsBlock(n)
  <2>1. /\ file' = file /\ data' = Append(data, Byte(n))
        /\ address' = IF data = << >> THEN n ELSE address
        /\ ~Empty(n) /\ Len(data) # Bank
    BY <1>6 DEF WriteWdc, EndsBlock
  <2>2. FileType' /\ RecordsRight(file)'
    BY <1>1, <1>2, <2>1 DEF Types, FileType, RecordsRight, RecordRight, SumRight
  <2>3. ImageTypeOK'
    <3>1. Len(data') <= Room'
      BY <1>1, <1>3, <1>4, <2>1, ImageNumbers
    <3> QED
      BY <1>1, <1>2, <1>3, <2>1, <3>1 DEF ImageTypeOK
  <2>4. OpenRecord'
    <3>1. SUFFICES ASSUME phase' = "write"
                   PROVE  /\ image.low_address <= address' /\ address' + Len(data') = n'
                          /\ Right(address', data')
      BY <1>1, <1>2 DEF OpenRecord, Right, Written, InFile, Lines
    <3>2. n' = n + 1 /\ n \in Int /\ image.low_address \in Int /\ image.low_address <= n
      BY <1>1, <1>2, <3>1, ImageConstants DEF Address, InFile
    <3>3. Written \subseteq Int /\ n \in Written
      BY <1>2, <2>1, ImageConstants DEF Address, Empty, Written
    <3>4. CASE data = << >>
      <4>1. data' = <<Byte(n)>> /\ address' = n /\ Len(data') = 1
        BY <2>1, <3>4
      <4> QED
        BY <3>2, <3>3, <4>1, RightOne
    <3>5. CASE data # << >>
      <4>1. /\ image.low_address <= address /\ address + Len(data) = n /\ Right(address, data)
        BY <1>1, <3>5 DEF OpenRecord
      <4>2. address \in Int
        BY <1>1 DEF Address
      <4>3. Right(address, Append(data, Byte(n)))
        BY <1>1, <1>2, <3>3, <4>1, <4>2, RightNext
      <4> QED
        BY <1>3, <2>1, <3>2, <3>5, <4>1, <4>2, <4>3
    <3> QED
      BY <3>4, <3>5
  <2> QED
    BY <1>2, <2>2, <2>3, <2>4 DEF Types
<1> QED
  BY <1>5, <1>6

LEMMA Uf2Record ==
  ASSUME NEW a \in Address, NEW d \in Seq(Values), d # << >>, NEW f \in Seq(Item)
  PROVE  \E r \in Item :
           /\ r.kind = "block" /\ r.address = a /\ r.data = Padded(d) /\ Len(r.data) = Base
           /\ PaddedTo(r, d)
           /\ f \o Uf2Block(a, d) = Append(f, r) /\ Append(f, r) \in Seq(Item)
<1> DEFINE r == Record("block", 4, a, Padded(d), 0)
<1>1. Base \in Nat \ {0} /\ Base <= Space
  BY ImageNumbers
<1>2. /\ Padded(d) \in Seq(Values) /\ Len(Padded(d)) = Base
      /\ \A i \in 1 .. Base : Padded(d)[i] = IF i <= Len(d) THEN d[i] ELSE 0
  <2>1. 0 \in Values
    BY DEF Values
  <2>2. \A i \in 1 .. Base : (IF i <= Len(d) THEN d[i] ELSE 0) \in Values
    BY <1>1, <2>1
  <2> QED
    BY <1>1, <2>2 DEF Padded
<1>3. 0 % Base \in Sums
  <2>1. 0 % Base = 0
    BY <1>1, Around
  <2> QED
    BY <1>1, <2>1 DEF Sums
<1>4. r \in Item
  BY <1>1, <1>2, <1>3 DEF Item, Record, Short
<1>5. r.kind = "block" /\ r.address = a /\ r.data = Padded(d) /\ Uf2Block(a, d) = <<r>>
  BY DEF Record, Uf2Block
<1> HIDE DEF r
<1>6. f \o Uf2Block(a, d) = Append(f, r) /\ Append(f, r) \in Seq(Item)
  BY <1>4, <1>5
<1> QED
  BY <1>2, <1>4, <1>5, <1>6 DEF PaddedTo

(* What the bytes of an open block of uf2 are. *)
LEMMA BytesNext ==
  ASSUME image \in Image, NEW a \in Int, NEW d \in Seq(Values), NEW m \in InFile,
         FromFile(a, d), a + Len(d) = m
  PROVE  FromFile(a, Append(d, Byte(m)))
<1>1. /\ Len(d) \in Nat /\ Len(Append(d, Byte(m))) = Len(d) + 1
      /\ \A i \in 1 .. Len(d) : Append(d, Byte(m))[i] = d[i]
      /\ Append(d, Byte(m))[Len(d) + 1] = Byte(m)
  BY ByteValue
<1>2. a + (Len(d) + 1) - 1 = m
  BY <1>1
<1> SUFFICES ASSUME NEW i \in 1 .. Len(d) + 1
             PROVE  a + i - 1 \in InFile /\ Append(d, Byte(m))[i] = Byte(a + i - 1)
  BY <1>1 DEF FromFile
<1>3. CASE i = Len(d) + 1
  BY <1>1, <1>2, <1>3
<1>4. CASE i # Len(d) + 1
  <2>1. i \in 1 .. Len(d)
    BY <1>1, <1>4
  <2> QED
    BY <1>1, <2>1 DEF FromFile
<1> QED
  BY <1>3, <1>4

LEMMA WriteUf2Types == Types /\ WriteUf2 => Types'
<1> SUFFICES ASSUME Types, WriteUf2 PROVE Types'
  OBVIOUS
<1> DEFINE a == IF data = << >> THEN n ELSE address
           d == Append(data, Byte(n))
<1>1. /\ phase = "write" /\ format = "uf2" /\ InRange /\ Advance
      /\ ImageTypeOK /\ OpenRecord /\ Loop /\ address \in Address /\ file \in Seq(Item)
      /\ data \in Seq(Values) /\ Len(data) <= Room /\ segment' = segment
      /\ address' = a
      /\ \/ Len(d) = Base /\ file' = file \o Uf2Block(a, d) /\ data' = << >>
         \/ Len(d) # Base /\ data' = d /\ file' = file
  BY DEF WriteUf2, Writing, Types, FileType, ImageTypeOK
<1>2. /\ n' \in Address /\ phase' \in {"write", "endless"} /\ Loop'
      /\ phase' = "write" => n' = n + 1
      /\ n \in InFile /\ n \in Address
      /\ image \in Image /\ image' = image /\ format \in Format /\ format' = format
      /\ start' = start /\ end' = end /\ low_address' = low_address
      /\ high_address' = high_address /\ bytes' = bytes
  BY <1>1, Looped
<1>3. /\ d \in Seq(Values) /\ Len(d) = Len(data) + 1 /\ Len(data) \in Nat /\ d # << >>
      /\ data # << >> => Len(data) \in Nat \ {0}
  BY <1>1, <1>2, ByteValue, OpenShort
<1>4. /\ Room = Base - 1 /\ Room' = Room /\ Room \in Nat /\ Base \in Nat
      /\ << >> \in Seq(Values) /\ Len(<< >>) = 0 /\ Len(<< >>) <= Room
  BY <1>1, <1>2, RoomFacts, RoomSame, ImageNumbers
<1>5. a \in Address /\ a + Len(data) = n /\ image.low_address <= a
      /\ FromFile(a, data)
  <2>1. n \in Int /\ image.low_address <= n
    BY <1>2 DEF Address, InFile
  <2>2. CASE data = << >>
    BY <1>2, <2>1, <2>2 DEF FromFile
  <2>3. CASE data # << >>
    BY <1>1, <2>3 DEF OpenRecord
  <2> QED
    BY <2>2, <2>3
<1> HIDE DEF a, d
<1>6. FileType'
  <2>1. file \o Uf2Block(a, d) \in Seq(Item)
    <3>1. PICK r \in Item :
            file \o Uf2Block(a, d) = Append(file, r) /\ Append(file, r) \in Seq(Item)
      BY <1>1, <1>3, <1>5, Uf2Record
    <3> QED
      BY <3>1
  <2>2. file' \in Seq(Item)
    BY <1>1, <2>1
  <2> QED
    BY <1>1, <1>2, <2>2 DEF FileType
<1>7. ImageTypeOK'
  <2>1. data' \in Seq(Values) /\ Len(data') <= Room'
    <3>1. Len(d) # Base => Len(d) <= Room
      BY <1>1, <1>3, <1>4
    <3>2. CASE data' = << >>
      BY <1>4, <3>2
    <3>3. CASE Len(d) # Base /\ data' = d
      BY <1>3, <1>4, <3>1, <3>3
    <3> QED
      BY <1>1, <3>2, <3>3
  <2> QED
    BY <1>1, <1>2, <1>5, <2>1 DEF ImageTypeOK
<1>8. OpenRecord'
  <2>1. SUFFICES ASSUME phase' = "write", data' # << >>
                 PROVE  /\ image.low_address <= a /\ a + Len(d) = n + 1
                        /\ FromFile(a, d)
    BY <1>1, <1>2 DEF OpenRecord, FromFile, LeavesGaps, Lines, InFile, Byte, Empty
  <2>2. a \in Int /\ n \in Int
    BY <1>2, <1>5 DEF Address
  <2>3. FromFile(a, d)
    BY <1>1, <1>2, <1>5, <2>2, BytesNext DEF d
  <2> QED
    BY <1>3, <1>5, <2>2, <2>3
<1>9. ~LeavesGaps'
  BY <1>1, <1>2 DEF LeavesGaps, Lines
<1> QED
  BY <1>2, <1>6, <1>7, <1>8, <1>9 DEF Types

LEMMA EndWriteTypes == Types /\ EndWrite => Types'
<1> SUFFICES ASSUME Types, EndWrite PROVE Types'
  OBVIOUS
<1>1. /\ phase = "write" /\ ~InRange /\ phase' = "read" /\ file' = file \o Rest
      /\ address' = image.low_address /\ data' = << >> /\ n' = 0 /\ segment' = 0
      /\ format' = format /\ image' = image /\ bytes' = bytes /\ start' = start /\ end' = end
      /\ low_address' = low_address /\ high_address' = high_address
      /\ ImageTypeOK /\ OpenRecord /\ Loop
  BY DEF EndWrite, Types, range
<1>2. /\ n \in Address /\ address \in Address /\ image \in Image /\ format \in Format
      /\ data \in Short /\ image.low_address \in Address /\ image.high_address \in Nat
  BY <1>1, OpenShort, ImageConstants DEF ImageTypeOK, Address
<1>3. 0 \in Address /\ 0 \in 0 .. Bank - 1 /\ Space \in Nat
  BY ImageNumbers DEF Address
<1>4. image.high_address < Space - 1
  BY <1>1, <1>2, <1>3 DEF InRange, Address
<1>5. FileType' /\ (LeavesGaps => RecordsRight(file)')
  <2>1. CASE LeavesGaps
    <3>1. file' = file \o Closing(address, data)
      BY <1>1, <2>1 DEF Rest, Closing, LeavesGaps, Lines
    <3> QED
      BY <1>1, <1>2, <2>1, <3>1, ClosedTypes
  <2>2. CASE format = "uf2"
    <3>1. file \in Seq(Item) /\ file' = file \o Uf2Block(address, data) /\ data \in Seq(Values)
      BY <1>1, <1>2, <2>2 DEF Rest, Lines, Types, FileType, ImageTypeOK
    <3>2. file' \in Seq(Item)
      <4>1. CASE data = << >>
        BY <3>1, <4>1 DEF Uf2Block
      <4>2. CASE data # << >>
        <5>1. PICK r \in Item :
                /\ file \o Uf2Block(address, data) = Append(file, r)
                /\ Append(file, r) \in Seq(Item)
          BY <1>2, <3>1, <4>2, Uf2Record
        <5> QED
          BY <3>1, <5>1
      <4> QED
        BY <4>1, <4>2
    <3> QED
      BY <1>1, <2>2, <3>2 DEF FileType, LeavesGaps, Lines
  <2>3. CASE format = "bin"
    <3>1. file \in Seq(Values) /\ file' = file \o << >>
      BY <1>1, <2>3 DEF Rest, Lines, Types, FileType
    <3> QED
      BY <1>1, <2>3, <3>1 DEF FileType, LeavesGaps, Lines
  <2> QED
    BY <1>2, <2>1, <2>2, <2>3 DEF Format, LeavesGaps, Lines
<1>6. ImageTypeOK'
  BY <1>1, <1>2, <1>3, RoomSame DEF ImageTypeOK
<1>7. OpenRecord' /\ Loop'
  BY <1>1, <1>4 DEF OpenRecord, Loop
<1>8. LeavesGaps' = LeavesGaps
  BY <1>1 DEF LeavesGaps
<1> QED
  BY <1>5, <1>6, <1>7, <1>8 DEF Types

LEMMA RecordOf ==
  ASSUME Types, file # << >>, format # "bin"
  PROVE  /\ file \in Seq(Item) /\ Head(file) \in Item /\ Tail(file) \in Seq(Item)
         /\ Head(file).address \in Address /\ Head(file).data \in Short
         /\ Head(file).kind = "linear" => Head(file).address \in 0 .. Bank - 1
<1>1. file \in Seq(Item)
  BY DEF Types, FileType
<1>2. Head(file) \in Item /\ Tail(file) \in Seq(Item)
  BY <1>1
<1>3. Bank \in Nat
  BY ImageNumbers
<1> QED
  BY <1>1, <1>2, <1>3 DEF Item, Address

LEMMA RightTaken ==
  ASSUME NEW f \in Seq(Item), f # << >>, RecordsRight(f)
  PROVE  RecordRight(Head(f)) /\ RecordsRight(Tail(f))
<1>1. /\ Len(f) \in Nat /\ Len(f) >= 1 /\ Tail(f) \in Seq(Item) /\ Len(Tail(f)) = Len(f) - 1
      /\ \A i \in 1 .. Len(f) - 1 : Tail(f)[i] = f[i + 1]
      /\ Head(f) = f[1]
  OBVIOUS
<1>2. \A i \in 1 .. Len(f) - 1 : i + 1 \in 1 .. Len(f)
  BY <1>1
<1>3. 1 \in 1 .. Len(f)
  BY <1>1
<1> QED
  BY <1>1, <1>2, <1>3 DEF RecordsRight

(* What the readers leave alone, and the file they take a record from. *)
LEMMA ReadTypes ==
  ASSUME Types, phase = "read", phase' \in {"read", "rejected"}, file # << >>,
         format' = format, image' = image, data' = data, file' = Tail(file)
  PROVE  FileType' /\ OpenRecord' /\ Loop' /\ (LeavesGaps => RecordsRight(file))'
<1>1. FileType'
  BY DEF Types, FileType
<1>2. OpenRecord' /\ Loop'
  BY DEF Types, OpenRecord, Loop
<1>3. ASSUME LeavesGaps
      PROVE  RecordsRight(file)'
  <2>1. file \in Seq(Item)
    BY <1>3, RecordOf DEF LeavesGaps, Lines
  <2>2. RecordsRight(Tail(file))
    BY <1>3, <2>1, RightTaken DEF Types
  <2> QED
    BY <2>2 DEF RecordsRight, RecordRight, SumRight
<1> QED
  BY <1>1, <1>2, <1>3 DEF LeavesGaps

(* What is in the memory of naken_util is there before and after bytes are *)
(* stored.                                                                 *)
LEMMA StoredTypes ==
  ASSUME ImageTypeOK, NEW a \in Int, NEW d \in Short, bytes' = Stored(a, d)
  PROVE  DOMAIN bytes' \subseteq Address /\ \A b \in DOMAIN bytes' : bytes'[b] \in Values
<1> DEFINE to == {(a + i - 1) % Space : i \in 1 .. Len(d)}
<1>1. /\ DOMAIN Stored(a, d) = DOMAIN bytes \cup to
      /\ \A i \in 1 .. Len(d) : Stored(a, d)[(a + i - 1) % Space] = d[i]
      /\ \A b \in DOMAIN bytes :
           (\A i \in 1 .. Len(d) : (a + i - 1) % Space # b) => Stored(a, d)[b] = bytes[b]
  BY StoredThere
<1>2. to \subseteq Address
  <2>1. Space \in Nat \ {0}
    BY ImageNumbers
  <2>2. \A x \in Int : x % Space \in Address
    BY <2>1, Divided DEF Address
  <2>3. \A i \in 1 .. Len(d) : a + i - 1 \in Int
    BY DEF Short
  <2> QED
    BY <2>2, <2>3
<1>3. \A i \in 1 .. Len(d) : d[i] \in Values
  BY DEF Short
<1>4. ASSUME NEW b \in DOMAIN bytes'
      PROVE  bytes'[b] \in Values
  <2>1. CASE b \in to
    BY <1>1, <1>3, <2>1
  <2>2. CASE b \notin to
    BY <1>1, <1>4, <2>2 DEF ImageTypeOK
  <2> QED
    BY <2>1, <2>2
<1> QED
  BY <1>1, <1>2, <1>4 DEF ImageTypeOK

LEMMA ReadLinearTypes == Types /\ ReadLinear => Types'
<1> SUFFICES ASSUME Types, ReadLinear PROVE Types'
  OBVIOUS
<1>1. /\ phase = "read" /\ format = "hex" /\ file # << >> /\ Head(file).kind = "linear"
      /\ segment' = Head(file).address /\ file' = Tail(file)
      /\ phase' \in {"read", "rejected"}
      /\ format' = format /\ image' = image /\ n' = n /\ address' = address /\ data' = data
      /\ bytes' = bytes /\ start' = start /\ end' = end
      /\ low_address' = low_address /\ high_address' = high_address
  BY DEF ReadLinear, FileHas, writer, range
<1>2. segment' \in 0 .. Bank - 1
  BY <1>1, RecordOf
<1>3. Room' = Room
  BY <1>1 DEF Room
<1>4. ImageTypeOK'
  BY <1>1, <1>2, <1>3 DEF Types, ImageTypeOK
<1>5. FileType' /\ OpenRecord' /\ Loop' /\ (LeavesGaps => RecordsRight(file))'
  BY <1>1, ReadTypes
<1> QED
  BY <1>4, <1>5 DEF Types

LEMMA SignedType ==
  ASSUME NEW a \in Int
  PROVE  Signed(a) \in Int
<1>1. Space \in Nat \ {0}
  BY ImageNumbers
<1>2. a % Space \in Int
  BY <1>1, Divided
<1> QED
  BY <1>1, <1>2 DEF Signed

(* Where a line is read, in the 32 bits of an address. *)
LEMMA LinePlace ==
  ASSUME Types, format \in Lines, file # << >>
  PROVE  PlaceOf(segment, Head(file)) \in Int
<1>1. Head(file).address \in Address
  BY RecordOf DEF Lines
<1>2. segment \in Int /\ Bank \in Int
  BY ImageNumbers DEF Types, ImageTypeOK
<1>3. segment * Bank \in Int /\ Head(file).address \in Int
  BY <1>1, <1>2 DEF Address
<1> QED
  BY <1>3 DEF PlaceOf

LEMMA ReadLineTypes == Types /\ ReadLine => Types'
<1> SUFFICES ASSUME Types, ReadLine PROVE Types'
  OBVIOUS
<1> DEFINE r == Head(file)
           at == PlaceOf(segment, r)
<1>1. /\ phase = "read" /\ format \in Lines /\ file # << >> /\ ImageTypeOK
      /\ file' = Tail(file) /\ phase' \in {"read", "rejected"}
      /\ format' = format /\ image' = image /\ n' = n /\ address' = address /\ data' = data
      /\ segment' = segment /\ low_address' = low_address /\ high_address' = high_address
  BY DEF ReadLine, FileHas, writer, range, Types
<1>2. /\ start' = IF start = -1 \/ Signed(at) < start THEN Signed(at) ELSE start
      /\ end' \in EndOf(Signed(at), Len(r.data))
      /\ bytes' = Stored(at, r.data)
  BY DEF ReadLine, PlaceOf
<1>3. r.data \in Short /\ Len(r.data) \in Int /\ at \in Int /\ Signed(at) \in Int
  <2>1. r.data \in Short /\ at \in Int
    BY <1>1, RecordOf, LinePlace DEF Lines
  <2>2. Signed(at) \in Int
    BY <2>1, SignedType
  <2> QED
    BY <2>1, <2>2 DEF Short
<1> HIDE DEF at
<1>4. start' \in Int /\ end' \in Int
  BY <1>1, <1>2, <1>3 DEF EndOf, ImageTypeOK
<1>5. DOMAIN bytes' \subseteq Address /\ \A b \in DOMAIN bytes' : bytes'[b] \in Values
  BY <1>1, <1>2, <1>3, StoredTypes
<1>6. Room' = Room
  BY <1>1 DEF Room
<1>7. ImageTypeOK'
  BY <1>1, <1>4, <1>5, <1>6 DEF ImageTypeOK
<1>8. FileType' /\ OpenRecord' /\ Loop' /\ (LeavesGaps => RecordsRight(file))'
  BY <1>1, ReadTypes
<1> QED
  BY <1>7, <1>8 DEF Types

LEMMA ReadBinTypes == Types /\ ReadBin => Types'
<1> SUFFICES ASSUME Types, ReadBin PROVE Types'
  OBVIOUS
<1>1. /\ phase = "read" /\ format = "bin" /\ file # << >> /\ ImageTypeOK
      /\ bytes' = Stored(address, <<Head(file)>>) /\ address' = (address + 1) % Space
      /\ file' = Tail(file) /\ phase' = "read"
      /\ format' = format /\ image' = image /\ n' = n /\ data' = data
      /\ segment' = segment /\ start' = start /\ end' = end
      /\ low_address' = low_address /\ high_address' = high_address
  BY DEF ReadBin, FileHas, range, Types
<1>2. Space \in Nat \ {0} /\ Space >= 1 /\ address \in Int
  BY <1>1, ImageNumbers DEF ImageTypeOK, Address
<1>3. <<Head(file)>> \in Short
  <2>1. file \in Seq(Values)
    BY <1>1 DEF Types, FileType
  <2>2. Head(file) \in Values
    BY <1>1, <2>1
  <2> QED
    BY <1>2, <2>2 DEF Short
<1>4. address' \in Address
  <2>1. (address + 1) % Space \in 0 .. Space - 1
    BY <1>2, Divided
  <2> QED
    BY <1>1, <2>1 DEF Address
<1>5. DOMAIN bytes' \subseteq Address /\ \A b \in DOMAIN bytes' : bytes'[b] \in Values
  BY <1>1, <1>2, <1>3, StoredTypes
<1>6. Room' = Room
  BY <1>1 DEF Room
<1>7. ImageTypeOK'
  BY <1>1, <1>4, <1>5, <1>6 DEF ImageTypeOK
<1>8. FileType' /\ OpenRecord' /\ Loop' /\ (LeavesGaps => RecordsRight(file))'
  BY <1>1, ReadTypes
<1> QED
  BY <1>7, <1>8 DEF Types

LEMMA BoundsType ==
  ASSUME ImageTypeOK, NEW a \in Address, NEW d \in Short
  PROVE  Lowest(a, d) \in Address /\ Highest(a, d) \in Address
<1>1. /\ Space \in Nat /\ Space >= 1 /\ a \in Nat /\ a < Space /\ Len(d) \in Nat
      /\ d # << >> => Len(d) >= 1
      /\ low_address \in Address /\ high_address \in Address
  BY ImageNumbers DEF Address, Short, ImageTypeOK
<1>2. Lowest(a, d) \in Address
  <2>1. 0 \in Address
    BY <1>1 DEF Address
  <2> QED
    BY <1>1, <2>1 DEF Lowest
<1>3. Highest(a, d) \in Address
  <2>1. Space - 1 \in Address
    BY <1>1 DEF Address
  <2>2. d # << >> /\ ~(a + Len(d) > Space) => a + Len(d) - 1 \in Address
    BY <1>1 DEF Address
  <2> QED
    BY <1>1, <2>1, <2>2 DEF Highest
<1> QED
  BY <1>2, <1>3

LEMMA ReadBlockTypes == Types /\ ReadBlock => Types'
<1> SUFFICES ASSUME Types, ReadBlock PROVE Types'
  OBVIOUS
<1> DEFINE r == Head(file)
<1>1. /\ phase = "read" /\ format \in {"wdc", "uf2"} /\ file # << >> /\ ImageTypeOK
      /\ bytes' = Stored(r.address, r.data)
      /\ low_address' = Lowest(r.address, r.data) /\ high_address' = Highest(r.address, r.data)
      /\ file' = Tail(file) /\ phase' = "read"
      /\ format' = format /\ image' = image /\ n' = n /\ address' = address /\ data' = data
      /\ segment' = segment /\ start' = start /\ end' = end
  BY DEF ReadBlock, FileHas, writer, Types
<1>2. r.address \in Address /\ r.data \in Short /\ r.address \in Int
  BY <1>1, RecordOf DEF Address
<1>3. low_address' \in Address /\ high_address' \in Address
  BY <1>1, <1>2, BoundsType
<1>4. DOMAIN bytes' \subseteq Address /\ \A b \in DOMAIN bytes' : bytes'[b] \in Values
  BY <1>1, <1>2, StoredTypes
<1>5. Room' = Room
  BY <1>1 DEF Room
<1>6. ImageTypeOK'
  BY <1>1, <1>3, <1>4, <1>5 DEF ImageTypeOK
<1>7. FileType' /\ OpenRecord' /\ Loop' /\ (LeavesGaps => RecordsRight(file))'
  BY <1>1, ReadTypes
<1> QED
  BY <1>6, <1>7 DEF Types

LEMMA EndReadTypes == Types /\ EndRead => Types'
<1> SUFFICES ASSUME Types, EndRead PROVE Types'
  OBVIOUS
<1>1. /\ phase = "read" /\ ImageTypeOK /\ phase' \in {"loaded", "rejected"}
      /\ format' = format /\ image' = image /\ n' = n /\ address' = address /\ data' = data
      /\ segment' = segment /\ file' = file /\ bytes' = bytes /\ start' = start /\ end' = end
      /\ \/ low_address' = start % Space /\ high_address' = end % Space
         \/ low_address' = image.low_address /\ high_address' = (address - 1) % Space
         \/ low_address' = low_address /\ high_address' = high_address
  BY DEF EndRead, writer, range, Types
<1>2. \A x \in Int : x % Space \in Address
  <2>1. Space \in Nat \ {0}
    BY ImageNumbers
  <2> QED
    BY <2>1, Divided DEF Address
<1>3. start \in Int /\ end \in Int /\ address - 1 \in Int /\ image.low_address \in Address
  BY <1>1, ImageConstants DEF ImageTypeOK, Address
<1>4. low_address' \in Address /\ high_address' \in Address
  BY <1>1, <1>2, <1>3 DEF ImageTypeOK
<1>5. Room' = Room
  BY <1>1 DEF Room
<1>6. ImageTypeOK'
  BY <1>1, <1>4, <1>5 DEF ImageTypeOK
<1>7. FileType' /\ OpenRecord' /\ Loop' /\ (LeavesGaps => RecordsRight(file))'
  BY <1>1 DEF Types, FileType, OpenRecord, Loop, LeavesGaps, RecordsRight, RecordRight, SumRight
<1> QED
  BY <1>6, <1>7 DEF Types

LEMMA TypesSame == Types /\ UNCHANGED imagevars => Types'
BY DEF imagevars, writer, range, Types, ImageTypeOK, Room, FileType, OpenRecord, Loop, LeavesGaps,
       RecordsRight, RecordRight, SumRight, Right, FromFile, Written, InFile, Byte, Empty

LEMMA TypesNext == Types /\ [ImageNext]_imagevars => Types'
BY SkipEmptyTypes, GatherTypes, WriteBinTypes, WriteWdcTypes, WriteUf2Types, EndWriteTypes,
   ReadLinearTypes, ReadLineTypes, ReadBinTypes, ReadBlockTypes, EndReadTypes, TypesSame
   DEF ImageNext

LEMMA KeptPrimed ==
  ASSUME format' = format, image' = image, Kept(file', segment', address', data', n')
  PROVE  Kept(file, segment, address, data, n)'
<1>1. PICK S : /\ Chain(file', 0, S) /\ S[Len(file')] = segment'
               /\ ~TooFar => Intact(file', S)
               /\ Possible => \A b \in Written :
                    b < n' => Holds(file', S, b) \/ (data' # << >> /\ address' <= b)
  BY DEF Kept
<1>2. Written' = Written /\ TooFar' = TooFar /\ Possible' = Possible
  BY DEF Written, InFile, TooFar, TooLong, Possible
<1>3. Chain(file, 0, S)' /\ (S[Len(file)] = segment)'
  BY <1>1 DEF Chain
<1>4. TooFar \/ Intact(file, S)'
  BY <1>1, <1>2 DEF Intact, Right, PlaceOf
<1>5. ~Possible \/ \A b \in Written : b < n'
                   => Holds(file, S, b)' \/ (data' # << >> /\ address' <= b)
  BY <1>1 DEF Holds, InRecord, PlaceOf
<1> QED
  BY <1>2, <1>3, <1>4, <1>5 DEF Kept

LEMMA HeldPrimed ==
  ASSUME format' = format, image' = image, Held(file', segment', DOMAIN bytes')
  PROVE  Held(file, segment, DOMAIN bytes)'
<1>1. PICK S : /\ Chain(file', segment', S)
               /\ ~TooFar => Intact(file', S)
               /\ Possible => \A b \in Written : Holds(file', S, b) \/ b \in DOMAIN bytes'
  BY DEF Held
<1>2. Written' = Written /\ TooFar' = TooFar /\ Possible' = Possible
  BY DEF Written, InFile, TooFar, TooLong, Possible
<1>3. Chain(file, segment, S)'
  BY <1>1 DEF Chain
<1>4. TooFar \/ Intact(file, S)'
  BY <1>1, <1>2 DEF Intact, Right, PlaceOf
<1>5. ~Possible \/ \A b \in Written : Holds(file, S, b)' \/ b \in DOMAIN bytes'
  BY <1>1 DEF Holds, InRecord, PlaceOf
<1> QED
  BY <1>2, <1>3, <1>4, <1>5 DEF Held

(* The loop of the formats that leave gaps out, with what it keeps. *)
LEMMA KeptNow ==
  ASSUME Types, GapsLeftOut, LeavesGaps, phase = "write"
  PROVE  /\ Kept(file, segment, address, data, n)
         /\ image \in Image /\ segment \in 0 .. Bank - 1 /\ file \in Seq(Item)
         /\ address \in Address /\ address \in Int /\ data \in Short /\ n \in Int
         /\ data \in Seq(Values)
         /\ Written \subseteq Int
         /\ data # << >> => /\ Right(address, data) /\ address + Len(data) = n
                            /\ Len(data) \in Nat \ {0} /\ address <= n
                            /\ address <= image.high_address
<1>1. /\ Kept(file, segment, address, data, n) /\ ImageTypeOK /\ OpenRecord /\ Loop
      /\ format # "bin"
  BY DEF GapsLeftOut, Types, LeavesGaps, Lines
<1>2. /\ image \in Image /\ segment \in 0 .. Bank - 1 /\ file \in Seq(Item)
      /\ address \in Address /\ n \in Address /\ data \in Seq(Values)
  BY <1>1 DEF ImageTypeOK, Types, FileType
<1>3. /\ address \in Int /\ n \in Int /\ Written \subseteq Int
      /\ image.high_address \in Int /\ image.low_address \in Int
  BY <1>2, ImageConstants DEF Address
<1>4. data \in Short /\ (data # << >> => Len(data) \in Nat \ {0})
  BY <1>1, OpenShort
<1>5. ASSUME data # << >>
      PROVE  /\ Right(address, data) /\ address + Len(data) = n /\ address <= n
             /\ address <= image.high_address
  <2>1. /\ Right(address, data) /\ address + Len(data) = n /\ image.low_address <= address
    BY <1>1, <1>5 DEF OpenRecord
  <2>2. n <= image.high_address + 1 \/ n = image.low_address
    BY <1>1 DEF Loop
  <2> QED
    BY <1>3, <1>4, <1>5, <2>1, <2>2
<1> QED
  BY <1>1, <1>2, <1>3, <1>4, <1>5

(* A record that is open is closed at a gap. *)
LEMMA ClosedAtGap ==
  ASSUME Types, GapsLeftOut, LeavesGaps, phase = "write",
         Possible => n \notin Written,
         file' = file \o Closing(address, data), data' = << >>, address' = address,
         segment' = IF format = "hex" /\ data # << >> THEN Upper(address) ELSE segment,
         n' = n + 1
  PROVE  Kept(file', segment', address', data', n')
<1>1. /\ Kept(file, segment, address, data, n)
      /\ image \in Image /\ segment \in 0 .. Bank - 1 /\ file \in Seq(Item)
      /\ address \in Address /\ address \in Int /\ data \in Short /\ n \in Int
      /\ Written \subseteq Int
      /\ data # << >> => /\ Right(address, data) /\ address + Len(data) = n
                         /\ address <= image.high_address
  BY KeptNow
<1>2. Kept(file', segment', address, << >>, n)
  BY <1>1, ClosedKept
<1>3. Possible => \A b \in Written : b < n + 1 => b < n
  BY <1>1
<1>4. Kept(file', segment', address, << >>, n + 1)
  BY <1>1, <1>2, <1>3, KeptOpen
<1> QED
  BY <1>4

LEMMA SkipEmptyKept ==
  Types /\ GapsLeftOut /\ SkipEmpty /\ phase' = "write" =>
    Kept(file', segment', address', data', n')
<1> SUFFICES ASSUME Types, GapsLeftOut, SkipEmpty, phase' = "write"
             PROVE  Kept(file', segment', address', data', n')
  OBVIOUS
<1>1. /\ phase = "write" /\ format \in Lines /\ InRange /\ Advance /\ Empty(n)
      /\ ImageTypeOK /\ Loop /\ LeavesGaps
  BY DEF SkipEmpty, Writing, Types, LeavesGaps
<1>2. n' = n + 1
  BY <1>1, Looped
<1>3. file' = file \o Closing(address, data)
  BY <1>1 DEF SkipEmpty, Closing, Lines
<1>4. n \notin Written
  BY <1>1 DEF Empty, Written
<1>5. /\ data' = << >> /\ address' = address
      /\ segment' = IF format = "hex" /\ data # << >> THEN Upper(address) ELSE segment
  BY DEF SkipEmpty, Wrote
<1> QED
  BY <1>1, <1>2, <1>3, <1>4, <1>5, ClosedAtGap

LEMMA GatherKept ==
  Types /\ GapsLeftOut /\ Gather /\ phase' = "write" =>
    Kept(file', segment', address', data', n')
<1> SUFFICES ASSUME Types, GapsLeftOut, Gather, phase' = "write"
             PROVE  Kept(file', segment', address', data', n')
  OBVIOUS
<1>1. /\ phase = "write" /\ format \in Lines /\ InRange /\ Advance
      /\ ImageTypeOK /\ OpenRecord /\ Loop /\ LeavesGaps
  BY DEF Gather, Writing, Types, LeavesGaps
<1>2. n' = n + 1 /\ n \in Written
  BY <1>1, Looped, Gathered
<1>3. /\ Kept(file, segment, address, data, n)
      /\ image \in Image /\ segment \in 0 .. Bank - 1 /\ file \in Seq(Item)
      /\ address \in Address /\ address \in Int /\ data \in Short /\ n \in Int
      /\ data \in Seq(Values) /\ Written \subseteq Int
      /\ data # << >> => /\ Right(address, data) /\ address + Len(data) = n
                         /\ Len(data) \in Nat \ {0} /\ address <= n
                         /\ address <= image.high_address
  BY <1>1, KeptNow
<1>4. Byte(n) \in Values /\ n + 1 \in Int
  BY <1>2, <1>3, Gathered
<1>5. ASSUME file' = file \o Closing(address, data),
             segment' = IF format = "hex" /\ data # << >> THEN Upper(address) ELSE segment,
             address' = n, data' = <<Byte(n)>>
      PROVE  Kept(file', segment', address', data', n')
  <2>1. Kept(file', segment', n, << >>, n)
    BY <1>1, <1>3, <1>5, ClosedKept
  <2>2. /\ <<Byte(n)>> # << >>
        /\ \A b \in Written : b < n + 1 => b < n \/ n <= b
    BY <1>3
  <2>3. Kept(file', segment', n, <<Byte(n)>>, n + 1)
    BY <1>3, <1>4, <2>1, <2>2, KeptOpen
  <2> QED
    BY <1>2, <1>5, <2>3
<1>6. ASSUME data # << >>
      PROVE  /\ Kept(file, segment, address, Append(data, Byte(n)), n + 1)
             /\ Append(data, Byte(n)) # << >> /\ Append(data, Byte(n)) \in Short
             /\ Right(address, Append(data, Byte(n)))
             /\ address + Len(Append(data, Byte(n))) = n + 1
  <2>1. /\ Append(data, Byte(n)) # << >>
        /\ Append(data, Byte(n)) \in Short /\ Len(Append(data, Byte(n))) = Len(data) + 1
    <3>1. Append(data, Byte(n)) \in Short /\ Len(Append(data, Byte(n))) = Len(data) + 1
      BY <1>1, <1>4, OpenShort
    <3>2. Append(data, Byte(n)) # << >>
      BY <1>3, <3>1
    <3> QED
      BY <3>1, <3>2
  <2>2. /\ data # << >> => Append(data, Byte(n)) # << >> /\ address <= address
        /\ \A b \in Written : b < n + 1 => b < n \/ (Append(data, Byte(n)) # << >> /\ address <= b)
    BY <1>3, <1>6, <2>1
  <2>3. Kept(file, segment, address, Append(data, Byte(n)), n + 1)
    BY <1>3, <1>4, <2>1, <2>2, KeptOpen
  <2>4. Right(address, Append(data, Byte(n)))
    BY <1>2, <1>3, <1>6, RightNext
  <2>5. address + (Len(data) + 1) = n + 1
    BY <1>3, <1>6
  <2> QED
    BY <2>1, <2>3, <2>4, <2>5
<1>7. ASSUME NEW d \in Short, d = Append(data, Byte(n)), data # << >>,
             file' = file \o Closing(address, d),
             segment' = IF format = "hex" /\ d # << >> THEN Upper(address) ELSE segment,
             address' = address, data' = << >>
      PROVE  Kept(file', segment', address', data', n')
  <2>1. /\ Kept(file, segment, address, d, n + 1) /\ Right(address, d)
        /\ address + Len(d) = n + 1
    BY <1>6, <1>7
  <2>2. Kept(file', segment', address, << >>, n + 1)
    BY <1>1, <1>3, <1>4, <1>7, <2>1, ClosedKept
  <2> QED
    BY <1>2, <1>7, <2>2
<1>8. ASSUME data # << >>, file' = file, segment' = segment, address' = address,
             data' = Append(data, Byte(n))
      PROVE  Kept(file', segment', address', data', n')
  BY <1>2, <1>6, <1>8
<1> QED
  BY <1>5, <1>6, <1>7, <1>8, Gathered

LEMMA WriteWdcKept ==
  Types /\ GapsLeftOut /\ WriteWdc /\ phase' = "write" =>
    Kept(file', segment', address', data', n')
<1> SUFFICES ASSUME Types, GapsLeftOut, WriteWdc, phase' = "write"
             PROVE  Kept(file', segment', address', data', n')
  OBVIOUS
<1>1. /\ phase = "write" /\ format = "wdc" /\ InRange /\ Advance
      /\ ImageTypeOK /\ OpenRecord /\ Loop /\ LeavesGaps /\ segment' = segment
  BY DEF WriteWdc, Writing, Types, LeavesGaps
<1>2. n' = n + 1 /\ n \in InFile
  BY <1>1, Looped
<1>3. /\ Kept(file, segment, address, data, n)
      /\ image \in Image /\ segment \in 0 .. Bank - 1 /\ file \in Seq(Item)
      /\ address \in Address /\ address \in Int /\ data \in Short /\ n \in Int
      /\ data \in Seq(Values) /\ Written \subseteq Int
      /\ data # << >> => /\ Right(address, data) /\ address + Len(data) = n
                         /\ Len(data) \in Nat \ {0} /\ address <= n
                         /\ address <= image.high_address
  BY <1>1, KeptNow
<1>4. CASE EndsBlock(n)
  <2>1. file' = file \o Closing(address, data) /\ data' = << >> /\ address' = address
    BY <1>1, <1>4 DEF WriteWdc, Closing
  <2>2. ASSUME Possible, n \in Written
        PROVE  FALSE
    <3>1. Len(data) = Bank
      BY <1>4, <2>2 DEF EndsBlock, Empty, Written
    <3>2. Bank \in Nat /\ Bank >= 1
      BY ImageNumbers
    <3>3. data # << >>
      BY <3>1, <3>2
    <3>4. address + Bank = n
      BY <1>3, <3>1, <3>3
    <3>5. ASSUME NEW b \in address .. address + Bank
          PROVE  b \in Written
      <4>1. CASE b = n
        BY <2>2, <4>1
      <4>2. CASE b # n
        <5>1. b - address + 1 \in 1 .. Len(data)
          BY <1>3, <3>1, <3>2, <3>4, <4>2
        <5>2. address + (b - address + 1) - 1 = b
          BY <1>3, <3>2
        <5>3. address + (b - address + 1) - 1 \in Written
          BY <1>3, <3>3, <5>1 DEF Right
        <5> QED
          BY <5>2, <5>3
      <4> QED
        BY <4>1, <4>2
    <3>6. address \in Written
      BY <1>3, <3>2, <3>5
    <3>7. address .. address + Bank \subseteq Written
      BY <3>5
    <3> QED
      BY <1>1, <2>2, <3>6, <3>7 DEF Possible, TooLong
  <2>3. segment' = IF format = "hex" /\ data # << >> THEN Upper(address) ELSE segment
    BY <1>1
  <2> QED
    BY <1>1, <1>2, <2>1, <2>2, <2>3, ClosedAtGap
<1>5. CASE ~EndsBlock(n)
  <2>1. /\ file' = file /\ data' = Append(data, Byte(n))
        /\ address' = IF data = << >> THEN n ELSE address
    BY <1>5 DEF WriteWdc
  <2>2. Byte(n) \in Values /\ n + 1 \in Int
    BY <1>3, ByteValue
  <2>3. data' # << >> /\ address' \in Int
    BY <1>3, <2>1, <2>2
  <2>4. data # << >> => address' <= address
    BY <1>3, <2>1
  <2>5. \A b \in Written : b < n + 1 => b < n \/ address' <= b
    BY <1>3, <2>1
  <2>6. Kept(file, segment, address', data', n + 1)
    BY <1>3, <2>2, <2>3, <2>4, <2>5, KeptOpen
  <2> QED
    BY <1>1, <1>2, <2>1, <2>6
<1> QED
  BY <1>4, <1>5

LEMMA EndWriteHeld ==
  Types /\ GapsLeftOut /\ EndWrite /\ LeavesGaps => Held(file', segment', DOMAIN bytes')
<1> SUFFICES ASSUME Types, GapsLeftOut, EndWrite, LeavesGaps
             PROVE  Held(file', segment', DOMAIN bytes')
  OBVIOUS
<1>1. phase = "write" /\ ~InRange /\ file' = file \o Rest /\ segment' = 0
  BY DEF EndWrite
<1>2. /\ Kept(file, segment, address, data, n)
      /\ image \in Image /\ segment \in 0 .. Bank - 1 /\ file \in Seq(Item)
      /\ address \in Address /\ data \in Short /\ n \in Int
      /\ data # << >> => /\ Right(address, data) /\ address + Len(data) = n
                         /\ address <= image.high_address
  BY <1>1, KeptNow
<1>3. file' = file \o Closing(address, data)
  BY <1>1 DEF Rest, Closing, LeavesGaps, Lines
<1>4. Kept(file', IF format = "hex" /\ data # << >> THEN Upper(address) ELSE segment,
           address, << >>, n)
  BY <1>2, <1>3, ClosedKept
<1>5. \A b \in Written : b < n
  <2>1. image.high_address \in Int /\ n > image.high_address
    BY <1>1, <1>2, ImageConstants DEF InRange, Address
  <2> QED
    BY <1>2, <2>1 DEF Written, InFile
<1>6. Held(file', 0, DOMAIN bytes')
  BY <1>4, <1>5, KeptHeld
<1> QED
  BY <1>1, <1>6

(* A record is read: its bytes are stored where those of the program are.  *)
LEMMA RecordStored ==
  ASSUME Types, GapsLeftOut, LeavesGaps, phase = "read", file # << >>,
         Head(file).kind # "linear",
         bytes' = Stored(PlaceOf(segment, Head(file)), Head(file).data)
  PROVE  /\ Held(Tail(file), segment, DOMAIN bytes')
         /\ ~TooFar =>
              LET p == PlaceOf(segment, Head(file))
                  k == Len(Head(file).data)
              IN /\ k \in Nat \ {0} /\ p \in Address /\ p + k - 1 \in Address
                 /\ DOMAIN bytes' = DOMAIN bytes \cup p .. p + k - 1
                 /\ p .. p + k - 1 \subseteq Written
                 /\ \A b \in DOMAIN bytes' : b \in Written /\ bytes'[b] = image.bytes[b]
<1> DEFINE r == Head(file)
           p == PlaceOf(segment, r)
           to == {(p + i - 1) % Space : i \in 1 .. Len(r.data)}
<1>1. /\ Held(file, segment, DOMAIN bytes) /\ (~TooFar => BytesRight)
      /\ image \in Image /\ format # "bin"
  BY DEF GapsLeftOut, Types, ImageTypeOK, LeavesGaps, Lines
<1>2. /\ file \in Seq(Item) /\ r.data \in Short /\ Len(r.data) \in Nat
      /\ r.address \in Int /\ segment \in Int
  BY <1>1, RecordOf DEF Address, Short, Types, ImageTypeOK
<1>3. p \in Int
  <2>1. Bank \in Int
    BY ImageNumbers
  <2>2. segment * Bank \in Int
    BY <1>2, <2>1
  <2> QED
    BY <1>2, <2>2 DEF PlaceOf
<1>4. /\ DOMAIN bytes' = DOMAIN bytes \cup to
      /\ \A i \in 1 .. Len(r.data) : bytes'[(p + i - 1) % Space] = r.data[i]
      /\ \A b \in DOMAIN bytes :
           (\A i \in 1 .. Len(r.data) : (p + i - 1) % Space # b) => bytes'[b] = bytes[b]
  <2> HIDE DEF p
  <2> QED
    BY <1>2, <1>3, StoredThere DEF p
<1>5. Written \subseteq Address /\ Space \in Nat \ {0}
  BY <1>1, ImageConstants, ImageNumbers
<1>6. ASSUME NEW b \in Written, InRecord(segment, r, b)
      PROVE  b \in DOMAIN bytes'
  <2>1. p <= b /\ b < p + Len(r.data) /\ b \in Address
    BY <1>5, <1>6 DEF InRecord
  <2> HIDE DEF p
  <2>2. b \in Int /\ b % Space = b
    BY <1>5, <2>1, Around DEF Address
  <2>3. b - p + 1 \in 1 .. Len(r.data) /\ p + (b - p + 1) - 1 = b
    BY <1>2, <1>3, <2>1, <2>2
  <2>4. (p + (b - p + 1) - 1) % Space = b
    BY <2>2, <2>3
  <2>5. b \in to
    BY <2>3, <2>4
  <2> QED
    BY <1>4, <2>5
<1>7. Held(Tail(file), segment, DOMAIN bytes')
  <2>1. DOMAIN bytes \cup {b \in Written : InRecord(segment, r, b)} \subseteq DOMAIN bytes'
    BY <1>4, <1>6
  <2>2. Held(Tail(file), IF r.kind = "linear" THEN r.address ELSE segment, DOMAIN bytes')
    BY <1>1, <1>2, <2>1, HeldTaken
  <2> QED
    BY <2>2
<1>8. ASSUME ~TooFar
      PROVE  /\ Len(r.data) \in Nat \ {0} /\ p \in Address /\ p + Len(r.data) - 1 \in Address
             /\ DOMAIN bytes' = DOMAIN bytes \cup p .. p + Len(r.data) - 1
             /\ p .. p + Len(r.data) - 1 \subseteq Written
             /\ \A b \in DOMAIN bytes' : b \in Written /\ bytes'[b] = image.bytes[b]
  <2>1. r.data # << >> /\ Right(p, r.data)
    BY <1>1, <1>2, <1>8, HeldFirst
  <2> HIDE DEF p
  <2>2. Len(r.data) \in Nat \ {0}
    BY <1>2, <2>1 DEF Short
  <2>3. \A i \in 1 .. Len(r.data) :
          /\ p + i - 1 \in Written /\ r.data[i] = image.bytes[p + i - 1]
          /\ (p + i - 1) % Space = p + i - 1
    <3>1. \A x \in Address : x % Space = x
      BY <1>5, Around DEF Address
    <3> QED
      BY <1>5, <2>1, <3>1 DEF Right
  <2>4. p .. p + Len(r.data) - 1 \subseteq Written
    <3>1. SUFFICES ASSUME NEW b \in p .. p + Len(r.data) - 1 PROVE b \in Written
      OBVIOUS
    <3>2. b - p + 1 \in 1 .. Len(r.data) /\ p + (b - p + 1) - 1 = b
      BY <1>2, <1>3
    <3> QED
      BY <2>3, <3>2
  <2>5. p \in p .. p + Len(r.data) - 1 /\ p + Len(r.data) - 1 \in p .. p + Len(r.data) - 1
    BY <1>3, <2>2
  <2>6. to = p .. p + Len(r.data) - 1
    <3>1. to \subseteq p .. p + Len(r.data) - 1
      <4>1. to = {p + i - 1 : i \in 1 .. Len(r.data)}
        BY <2>3
      <4> HIDE DEF to
      <4> QED
        BY <1>2, <1>3, <4>1
    <3>2. ASSUME NEW b \in p .. p + Len(r.data) - 1
          PROVE  b \in to
      <4>1. b - p + 1 \in 1 .. Len(r.data) /\ p + (b - p + 1) - 1 = b
        BY <1>2, <1>3
      <4>2. (p + (b - p + 1) - 1) % Space = b
        BY <2>3, <4>1
      <4> QED
        BY <4>1, <4>2
    <3> QED
      BY <3>1, <3>2
  <2>7. ASSUME NEW b \in DOMAIN bytes'
        PROVE  b \in Written /\ bytes'[b] = image.bytes[b]
    <3>1. CASE \E i \in 1 .. Len(r.data) : (p + i - 1) % Space = b
      BY <1>4, <2>3, <3>1
    <3>2. CASE \A i \in 1 .. Len(r.data) : (p + i - 1) % Space # b
      <4>1. b \in DOMAIN bytes
        BY <1>4, <2>7, <3>2
      <4> QED
        BY <1>1, <1>4, <1>8, <3>2, <4>1 DEF BytesRight
    <3> QED
      BY <3>1, <3>2
  <2> QED
    BY <1>4, <1>5, <2>2, <2>4, <2>5, <2>6, <2>7
<1> QED
  BY <1>7, <1>8

LEMMA GapsInit == ImageInit => GapsLeftOut
<1> SUFFICES ASSUME ImageInit, LeavesGaps
             PROVE  Kept(file, segment, address, data, n)
  BY DEF GapsLeftOut, ImageInit
<1>1. /\ image \in Image /\ file = << >> /\ segment = 0 /\ data = << >>
      /\ n = image.low_address
  BY DEF ImageInit, LeavesGaps, Lines
<1>2. Bank \in Nat /\ Bank >= 1
  BY ImageNumbers
<1> DEFINE S == [i \in 0 .. 0 |-> 0]
<1>3. Chain(file, 0, S) /\ S[Len(file)] = segment
  BY <1>1, <1>2 DEF Chain
<1>4. Intact(file, S)
  BY <1>1 DEF Intact
<1>5. \A b \in Written : ~(b < n)
  <2>1. Written \subseteq InFile /\ n \in Int
    BY <1>1, ImageConstants DEF Address
  <2>2. \A b \in InFile : b \in Int /\ n <= b
    BY <1>1 DEF InFile
  <2>3. \A b \in Int : n <= b => ~(b < n)
    BY <2>1
  <2> QED
    BY <2>1, <2>2, <2>3
<1> HIDE DEF S
<1> QED
  BY <1>3, <1>4, <1>5 DEF Kept

LEMMA GapsNext ==
  ASSUME Types, GapsLeftOut, [ImageNext]_imagevars
  PROVE  GapsLeftOut'
<1>1. /\ format' = format /\ image' = image
      /\ LeavesGaps' = LeavesGaps /\ Written' = Written /\ TooFar' = TooFar
  <2>1. format' = format /\ image' = image
    BY DEF ImageNext, SkipEmpty, Gather, WriteBin, WriteWdc, WriteUf2, Advance, EndWrite,
           ReadLinear, ReadLine, ReadBin, ReadBlock, EndRead, imagevars
  <2> QED
    BY <2>1 DEF LeavesGaps, Written, InFile, TooFar
<1> SUFFICES ASSUME LeavesGaps
             PROVE  /\ phase' = "write" => Kept(file, segment, address, data, n)'
                    /\ phase' = "read" =>
                         /\ Held(file, segment, DOMAIN bytes)'
                         /\ ~TooFar => BytesRight'
  BY <1>1 DEF GapsLeftOut
<1>2. CASE UNCHANGED imagevars
  <2>1. /\ phase = phase' /\ file' = file /\ segment' = segment /\ address' = address
        /\ data' = data /\ n' = n /\ bytes' = bytes
    BY <1>2 DEF imagevars, writer
  <2>2. phase = "write" => Kept(file', segment', address', data', n')
    BY <2>1 DEF GapsLeftOut
  <2>3. phase = "read" => Held(file', segment', DOMAIN bytes') /\ (~TooFar => BytesRight)
    BY <2>1 DEF GapsLeftOut
  <2>4. BytesRight' = BytesRight
    BY <1>1, <2>1 DEF BytesRight
  <2> QED
    BY <1>1, <2>1, <2>2, <2>3, <2>4, KeptPrimed, HeldPrimed
<1>3. CASE SkipEmpty \/ Gather \/ WriteWdc
  <2>1. phase' # "read"
    BY <1>3 DEF SkipEmpty, Gather, WriteWdc, Writing, Advance
  <2>2. phase' = "write" => Kept(file', segment', address', data', n')
    BY <1>3, SkipEmptyKept, GatherKept, WriteWdcKept
  <2> QED
    BY <1>1, <2>1, <2>2, KeptPrimed
<1>4. CASE WriteBin \/ WriteUf2
  BY <1>4 DEF WriteBin, WriteUf2, Writing, LeavesGaps, Lines
<1>5. CASE EndWrite
  <2>1. phase' = "read" /\ bytes' = << >>
    BY <1>5 DEF EndWrite, Types, Loop
  <2>2. Held(file, segment, DOMAIN bytes)'
    BY <1>1, <1>5, EndWriteHeld, HeldPrimed
  <2>3. BytesRight'
    BY <2>1 DEF BytesRight
  <2> QED
    BY <2>1, <2>2, <2>3
<1>6. CASE ReadLinear
  <2>1. /\ phase = "read" /\ file # << >> /\ Head(file).kind = "linear"
        /\ segment' = Head(file).address /\ file' = Tail(file) /\ bytes' = bytes
        /\ phase' # "write"
    BY <1>6 DEF ReadLinear, FileHas
  <2>2. Held(file, segment, DOMAIN bytes) /\ (~TooFar => BytesRight) /\ file \in Seq(Item)
    BY <2>1 DEF GapsLeftOut, Types, FileType, LeavesGaps, Lines
  <2>3. Held(Tail(file), IF Head(file).kind = "linear" THEN Head(file).address ELSE segment,
             DOMAIN bytes)
    BY <2>1, <2>2, HeldTaken
  <2>4. Held(file', segment', DOMAIN bytes')
    BY <2>1, <2>3
  <2>5. BytesRight' = BytesRight
    BY <1>1, <2>1 DEF BytesRight
  <2> QED
    BY <1>1, <2>1, <2>2, <2>4, <2>5, HeldPrimed
<1>7. CASE ReadLine \/ ReadBlock
  <2>1. /\ phase = "read" /\ file # << >> /\ file' = Tail(file) /\ segment' = segment
        /\ phase' # "write"
    BY <1>7 DEF ReadLine, ReadBlock, FileHas
  <2>2. Head(file).kind # "linear"
    <3>1. CASE ReadLine
      BY <3>1 DEF ReadLine
    <3>2. CASE ReadBlock
      <4>1. format = "wdc" /\ file \in Seq(Item) /\ RecordsRight(file)
        BY <3>2, <2>1 DEF ReadBlock, FileHas, LeavesGaps, Lines, Types, FileType
      <4>2. RecordRight(Head(file))
        BY <2>1, <4>1, RightTaken
      <4> QED
        BY <4>1, <4>2 DEF RecordRight, Lines
    <3> QED
      BY <1>7, <3>1, <3>2
  <2>3. bytes' = Stored(PlaceOf(segment, Head(file)), Head(file).data)
    BY <1>7 DEF ReadLine, ReadBlock, FileHas, PlaceOf
  <2>4. /\ Held(Tail(file), segment, DOMAIN bytes')
        /\ ~TooFar => \A b \in DOMAIN bytes' : b \in Written /\ bytes'[b] = image.bytes[b]
    BY <2>1, <2>2, <2>3, RecordStored
  <2>5. ~TooFar => BytesRight'
    BY <1>1, <2>4 DEF BytesRight
  <2>6. Held(file', segment', DOMAIN bytes')
    BY <2>1, <2>4
  <2> QED
    BY <1>1, <2>1, <2>5, <2>6, HeldPrimed
<1>8. CASE ReadBin
  BY <1>8 DEF ReadBin, FileHas, LeavesGaps, Lines
<1>9. CASE EndRead
  BY <1>9 DEF EndRead
<1> QED
  BY <1>2, <1>3, <1>4, <1>5, <1>6, <1>7, <1>8, <1>9 DEF ImageNext

LEMMA SignedValue ==
  /\ \A x \in Address : Signed(x) = IF x >= Space \div 2 THEN x - Space ELSE x
  /\ \A x \in -Space .. -1 : x + Space >= Space \div 2 => Signed(x) = x
<1>1. Space \in Nat \ {0} /\ Space \div 2 \in Int
  BY ImageNumbers, Divided
<1>2. \A x \in Address : x % Space = x
  BY <1>1, Around DEF Address
<1>3. \A x \in -Space .. -1 : x % Space = x + Space
  <2>1. PICK p \in Nat \ {0} : p = Space
    BY <1>1
  <2>2. \A x \in -p .. -1 : x \in Int
    BY <2>1
  <2>3. \A x \in -p .. -1 : x % p = x + p
    BY <2>2, Around
  <2> QED
    BY <2>1, <2>3
<1>4. ASSUME NEW x \in -Space .. -1, x + Space >= Space \div 2
      PROVE  Signed(x) = x
  <2>1. Signed(x) = (x + Space) - Space
    BY <1>3, <1>4 DEF Signed
  <2> QED
    BY <1>1, <2>1
<1> QED
  BY <1>2, <1>4 DEF Signed

LEMMA HalfSpace ==
  Space \div 2 \in Nat /\ Reach <= Space \div 2 /\ Space \div 2 < Space
<1>1. PICK h \in Int, r \in 0 .. 1 : h = Space \div 2 /\ Space = h * 2 + r
  <2>1. Space \in Int /\ Space \div 2 \in Int /\ Space % 2 \in 0 .. 1
    BY ImageNumbers, Divided
  <2>2. Space = (Space \div 2) * 2 + (Space % 2)
    BY ImageNumbers, Divided
  <2> QED
    BY <2>1, <2>2
<1>2. Space \in Nat /\ Reach \in Nat /\ 2 * Reach <= Space /\ Space >= 4
  BY ImageNumbers
<1> QED
  BY <1>1, <1>2

(* Where no comparison of addresses crosses 2^31, they are ordered.        *)
LEMMA OneSign ==
  ASSUME image \in Image, image.high_address < Space - 1, ~CrossesSign
  PROVE  \E o \in Int : \A x \in Written :
           Signed(x) = x + o /\ x + o # -1 /\ Signed(x + o + 1) = x + o + 1
<1>1. PICK h \in Nat : h = Space \div 2 /\ h < Space /\ Space \in Nat
  BY HalfSpace, ImageNumbers
<1>2. \A x \in Written : x \in Nat /\ x < Space - 1 /\ x \in Address /\ x + 1 \in Address
  <2>1. Written \subseteq Address /\ Written \subseteq InFile /\ image.high_address \in Int
        /\ image.low_address \in Int
    BY ImageConstants DEF Address
  <2>2. \A x \in Written : x <= image.high_address /\ x \in Nat
    BY <2>1 DEF InFile, Address
  <2> QED
    BY <1>1, <2>1, <2>2 DEF Address
<1>3. /\ \A x \in Address : Signed(x) = IF x >= h THEN x - Space ELSE x
      /\ \A x \in -Space .. -1 : x + Space >= h => Signed(x) = x
  BY <1>1, SignedValue
<1>4. \/ \A x \in Written : x < h - 1
      \/ \A x \in Written : x >= h
  BY <1>1, <1>2 DEF CrossesSign
<1>5. CASE \A x \in Written : x < h - 1
  <2>1. \A x \in Written : Signed(x) = x + 0 /\ x + 0 # -1 /\ Signed(x + 0 + 1) = x + 0 + 1
    <3>1. SUFFICES ASSUME NEW x \in Written
                   PROVE  Signed(x) = x /\ x # -1 /\ Signed(x + 1) = x + 1
      BY <1>2
    <3>2. x < h - 1 /\ x \in Nat /\ x \in Address /\ x + 1 \in Address
      BY <1>2, <1>5
    <3>3. ~(x >= h) /\ ~(x + 1 >= h)
      BY <1>1, <3>2
    <3> QED
      BY <1>3, <3>2, <3>3
  <2> QED
    BY <2>1
<1>6. CASE \A x \in Written : x >= h
  <2>1. PICK o \in Int : o = -Space
    BY <1>1
  <2>2. \A x \in Written : Signed(x) = x + o /\ x + o # -1 /\ Signed(x + o + 1) = x + o + 1
    <3>1. SUFFICES ASSUME NEW x \in Written
                   PROVE  Signed(x) = x + o /\ x + o # -1 /\ Signed(x + o + 1) = x + o + 1
      OBVIOUS
    <3>2. x >= h /\ x \in Nat /\ x \in Address /\ x < Space - 1
      BY <1>2, <1>6
    <3>3. Signed(x) = x - Space
      BY <1>3, <3>2
    <3>4. x + o + 1 \in -Space .. -1 /\ x + o + 1 + Space >= h
      BY <1>1, <2>1, <3>2
    <3>5. Signed(x + o + 1) = x + o + 1
      BY <1>3, <3>4
    <3> QED
      BY <1>1, <2>1, <3>2, <3>3, <3>5
  <2> QED
    BY <2>2
<1> QED
  BY <1>4, <1>5, <1>6

(* The bounds of the bytes grow with a record.                             *)
LEMMA BoundsGrown ==
  ASSUME NEW B \in SUBSET Int, NEW p \in Int, NEW k \in Nat \ {0}, NEW C,
         C = B \cup p .. p + k - 1
  PROVE  /\ B = {} => p \in C /\ p + k - 1 \in C /\ \A b \in C : p <= b /\ b <= p + k - 1
         /\ \A lo, hi \in B : (\A b \in B : lo <= b /\ b <= hi) =>
              LET x == IF p < lo THEN p ELSE lo
                  y == IF p + k > hi THEN p + k - 1 ELSE hi
              IN x \in C /\ y \in C /\ \A b \in C : x <= b /\ b <= y
<1>1. p \in C /\ p + k - 1 \in C /\ \A b \in p .. p + k - 1 : p <= b /\ b <= p + k - 1
  BY SMT
<1>2. ASSUME NEW lo \in B, NEW hi \in B, \A b \in B : lo <= b /\ b <= hi
      PROVE  LET x == IF p < lo THEN p ELSE lo
                 y == IF p + k > hi THEN p + k - 1 ELSE hi
             IN x \in C /\ y \in C /\ \A b \in C : x <= b /\ b <= y
  <2> DEFINE x == IF p < lo THEN p ELSE lo
             y == IF p + k > hi THEN p + k - 1 ELSE hi
  <2>1. x \in C /\ y \in C
    BY <1>1
  <2>2. lo \in Int /\ hi \in Int
    OBVIOUS
  <2>3. x \in Int /\ y \in Int /\ x <= lo /\ x <= p /\ hi <= y /\ p + k - 1 <= y
    BY <2>2
  <2> HIDE DEF x, y
  <2>4. \A b \in B : x <= b /\ b <= y
    <3>1. \A b \in B : b \in Int /\ lo <= b /\ b <= hi
      BY <1>2
    <3> QED
      BY <2>2, <2>3, <3>1
  <2>5. \A b \in p .. p + k - 1 : x <= b /\ b <= y
    BY <2>3
  <2> QED
    BY <2>1, <2>4, <2>5 DEF x, y
<1> QED
  BY <1>1, <1>2

LEMMA RangesInit == ImageInit => Ranges /\ Blocks
<1> SUFFICES ASSUME ImageInit PROVE Blocks
  BY DEF Ranges, ImageInit
<1>1. image \in Image /\ phase = "write" /\ n = image.low_address
  BY DEF ImageInit
<1>2. \A b \in Written : b >= n
  <2>1. Written \subseteq InFile /\ image.low_address \in Int /\ image.high_address \in Int
    BY <1>1, ImageConstants DEF Address
  <2> QED
    BY <1>1, <2>1 DEF InFile
<1> QED
  BY <1>1, <1>2 DEF Blocks

(* A line extends the range of read_hex() and read_srec().                 *)
LEMMA LineRange ==
  ASSUME Types, GapsLeftOut, Ranges, ReadLine, ~TooFar, ~CrossesSign
  PROVE  \E lo, hi \in DOMAIN bytes' :
           /\ \A b \in DOMAIN bytes' : lo <= b /\ b <= hi
           /\ start' = Signed(lo) /\ end' = Signed(hi)
<1> DEFINE p == PlaceOf(segment, Head(file))
           k == Len(Head(file).data)
<1>1. /\ phase = "read" /\ format \in Lines /\ file # << >> /\ LeavesGaps
      /\ Head(file).kind # "linear" /\ image \in Image /\ image.high_address < Space - 1
      /\ bytes' = Stored(p, Head(file).data) /\ BytesRight
  BY DEF ReadLine, FileHas, LeavesGaps, Types, ImageTypeOK, Loop, PlaceOf, GapsLeftOut
<1>2. /\ start' = IF start = -1 \/ Signed(p) < start THEN Signed(p) ELSE start
      /\ end' \in EndOf(Signed(p), k)
  BY DEF ReadLine, PlaceOf
<1>3. /\ k \in Nat \ {0} /\ DOMAIN bytes' = DOMAIN bytes \cup p .. p + k - 1
      /\ p .. p + k - 1 \subseteq Written /\ p \in Int
  <2>1. p \in Address => p \in Int
    BY DEF Address
  <2> QED
    BY <1>1, <2>1, RecordStored
<1>4. PICK o \in Int : \A x \in Written :
         Signed(x) = x + o /\ x + o # -1 /\ Signed(x + o + 1) = x + o + 1
  BY <1>1, OneSign
<1>5. /\ DOMAIN bytes \in SUBSET Int /\ DOMAIN bytes \subseteq Written
  <2>1. \A b \in DOMAIN bytes : b \in Written
    BY <1>1 DEF BytesRight
  <2>2. \A b \in Written : b \in Int
    BY <1>1, ImageConstants DEF Address
  <2> QED
    BY <2>1, <2>2
<1> HIDE DEF p, k
<1>6. p \in Written /\ p + k - 1 \in Written
  BY <1>3
<1>7. Signed(p) = p + o /\ Signed(p + k - 1) = p + k - 1 + o
  BY <1>4, <1>6
<1>8. Signed(Signed(p) + k) = Signed(p) + k
  <2>1. (p + k - 1) + o + 1 = Signed(p) + k
    BY <1>3, <1>4, <1>7
  <2> QED
    BY <1>4, <1>6, <2>1
<1>9. end' = IF start = -1 \/ Signed(p) + k > end THEN Signed(p) + k - 1 ELSE end
  BY <1>2, <1>8 DEF EndOf
<1>10. CASE DOMAIN bytes = {} /\ start = -1
  <2>1. p \in DOMAIN bytes' /\ p + k - 1 \in DOMAIN bytes'
        /\ \A b \in DOMAIN bytes' : p <= b /\ b <= p + k - 1
    BY <1>3, <1>5, <1>10, BoundsGrown
  <2>2. start' = Signed(p) /\ end' = Signed(p + k - 1)
    <3>1. Signed(p) + k - 1 = p + k - 1 + o
      BY <1>3, <1>7
    <3> QED
      BY <1>2, <1>7, <1>9, <1>10, <3>1
  <2> QED
    BY <2>1, <2>2
<1>11. ASSUME NEW lo \in DOMAIN bytes, NEW hi \in DOMAIN bytes, Bounds(lo, hi),
              start = Signed(lo), end = Signed(hi)
       PROVE  \E x, y \in DOMAIN bytes' :
                /\ \A b \in DOMAIN bytes' : x <= b /\ b <= y
                /\ start' = Signed(x) /\ end' = Signed(y)
  <2>1. PICK x \in Int, y \in Int : /\ x = IF p < lo THEN p ELSE lo
                                    /\ y = IF p + k > hi THEN p + k - 1 ELSE hi
    BY <1>3, <1>5
  <2>2. x \in DOMAIN bytes' /\ y \in DOMAIN bytes' /\ \A b \in DOMAIN bytes' : x <= b /\ b <= y
    BY <1>3, <1>5, <1>11, <2>1, BoundsGrown DEF Bounds
  <2>3. Signed(lo) = lo + o /\ Signed(hi) = hi + o /\ start # -1 /\ lo \in Int /\ hi \in Int
    BY <1>4, <1>5, <1>11
  <2>4. start' = Signed(x)
    <3>1. start' = IF p + o < lo + o THEN Signed(p) ELSE Signed(lo)
      BY <1>2, <1>7, <1>11, <2>3
    <3>2. p + o < lo + o <=> p < lo
      BY <1>3, <1>4, <2>3
    <3> QED
      BY <2>1, <3>1, <3>2
  <2>5. end' = Signed(y)
    <3>1. end' = IF Signed(p) + k > Signed(hi) THEN Signed(p) + k - 1 ELSE Signed(hi)
      BY <1>9, <1>11, <2>3
    <3>2. Signed(p) + k > Signed(hi) <=> p + k > hi
      BY <1>3, <1>4, <1>7, <2>3
    <3>3. Signed(p) + k - 1 = Signed(p + k - 1)
      BY <1>3, <1>7
    <3> QED
      BY <2>1, <3>1, <3>2, <3>3
  <2> QED
    BY <2>2, <2>4, <2>5
<1>12. \/ DOMAIN bytes = {} /\ start = -1
       \/ \E lo, hi \in DOMAIN bytes : Bounds(lo, hi) /\ start = Signed(lo) /\ end = Signed(hi)
  BY <1>1 DEF Ranges
<1> QED
  BY <1>10, <1>11, <1>12

(* A block extends the range of naken_util.                                *)
LEMMA BlockRange ==
  ASSUME Types, GapsLeftOut, Ranges, ReadBlock, format = "wdc", ~TooFar
  PROVE  /\ low_address' \in DOMAIN bytes' /\ high_address' \in DOMAIN bytes'
         /\ \A b \in DOMAIN bytes' : low_address' <= b /\ b <= high_address'
<1> DEFINE p == Head(file).address
           d == Head(file).data
           k == Len(d)
<1>1. /\ phase = "read" /\ file # << >> /\ LeavesGaps /\ PlaceOf(segment, Head(file)) = p
      /\ image \in Image /\ file \in Seq(Item) /\ RecordsRight(file)
      /\ bytes' = Stored(p, d) /\ BytesRight
      /\ low_address' = Lowest(p, d) /\ high_address' = Highest(p, d)
      /\ low_address \in Address /\ high_address \in Address
  BY DEF ReadBlock, FileHas, LeavesGaps, Types, FileType, ImageTypeOK, PlaceOf, GapsLeftOut, Lines
<1>2. Head(file).kind # "linear"
  <2>1. RecordRight(Head(file))
    BY <1>1, RightTaken
  <2> QED
    BY <2>1 DEF RecordRight, Lines
<1>3. /\ k \in Nat \ {0} /\ DOMAIN bytes' = DOMAIN bytes \cup p .. p + k - 1
      /\ p \in Address /\ p + k - 1 \in Address
  BY <1>1, <1>2, RecordStored
<1>4. DOMAIN bytes \in SUBSET Int
  <2>1. \A b \in DOMAIN bytes : b \in Written
    BY <1>1 DEF BytesRight
  <2>2. \A b \in Written : b \in Int
    BY <1>1, ImageConstants DEF Address
  <2> QED
    BY <2>1, <2>2
<1>5. d # << >>
  BY <1>3
<1>6. Space \in Nat /\ p \in Int /\ 0 <= p /\ p <= Space - 1 /\ p + k - 1 <= Space - 1
      /\ low_address \in Int /\ high_address \in Int
  BY <1>1, <1>3, ImageNumbers DEF Address
<1>7. /\ low_address' = IF low_address <= p THEN low_address ELSE p
      /\ high_address' = IF high_address >= p + k - 1 THEN high_address ELSE p + k - 1
  <2>1. ~(p + k > Space)
    BY <1>3, <1>6
  <2> QED
    BY <1>1, <1>5, <2>1 DEF Lowest, Highest
<1> HIDE DEF p, k, d
<1>8. CASE DOMAIN bytes = {} /\ low_address = Space - 1 /\ high_address = 0
  <2>1. /\ p \in DOMAIN bytes' /\ p + k - 1 \in DOMAIN bytes'
        /\ \A b \in DOMAIN bytes' : p <= b /\ b <= p + k - 1
    BY <1>3, <1>4, <1>6, <1>8, BoundsGrown
  <2>2. low_address' = p
    BY <1>6, <1>7, <1>8
  <2>3. high_address' = p + k - 1
    BY <1>3, <1>6, <1>7, <1>8
  <2> QED
    BY <2>1, <2>2, <2>3
<1>9. CASE Bounds(low_address, high_address)
  <2>1. PICK x \in Int, y \in Int :
          /\ x = IF p < low_address THEN p ELSE low_address
          /\ y = IF p + k > high_address THEN p + k - 1 ELSE high_address
    BY <1>3, <1>6
  <2>2. x \in DOMAIN bytes' /\ y \in DOMAIN bytes' /\ \A b \in DOMAIN bytes' : x <= b /\ b <= y
    BY <1>3, <1>4, <1>6, <1>9, <2>1, BoundsGrown DEF Bounds
  <2>3. low_address' = x
    BY <1>6, <1>7, <2>1
  <2>4. high_address' = y
    BY <1>3, <1>6, <1>7, <2>1
  <2> QED
    BY <2>2, <2>3, <2>4
<1> QED
  BY <1>1, <1>8, <1>9 DEF Ranges

LEMMA RangesNext ==
  ASSUME Types, GapsLeftOut, Ranges, [ImageNext]_imagevars
  PROVE  Ranges'
<1>1. /\ format' = format /\ image' = image /\ Written' = Written
      /\ TooFar' = TooFar /\ CrossesSign' = CrossesSign
  <2>1. format' = format /\ image' = image
    BY DEF ImageNext, SkipEmpty, Gather, WriteBin, WriteWdc, WriteUf2, Advance, EndWrite,
           ReadLinear, ReadLine, ReadBin, ReadBlock, EndRead, imagevars
  <2> QED
    BY <2>1 DEF Written, InFile, TooFar, CrossesSign
<1>2. ASSUME phase' = phase, bytes' = bytes, start' = start, end' = end,
             low_address' = low_address, high_address' = high_address
      PROVE  Ranges'
  BY <1>1, <1>2 DEF Ranges, Bounds, Signed
<1>3. CASE phase' # "read"
  BY <1>3 DEF Ranges
<1>4. CASE ReadLine
  <2>1. format \in Lines
    BY <1>4 DEF ReadLine, FileHas
  <2>2. ~TooFar /\ ~CrossesSign =>
          \E lo, hi \in DOMAIN bytes' :
            /\ \A b \in DOMAIN bytes' : lo <= b /\ b <= hi
            /\ start' = Signed(lo) /\ end' = Signed(hi)
    BY <1>4, LineRange
  <2> QED
    BY <1>1, <2>1, <2>2 DEF Ranges, Bounds, Signed, Lines
<1>5. CASE ReadBlock
  <2>1. format \in {"wdc", "uf2"}
    BY <1>5 DEF ReadBlock, FileHas
  <2>2. CASE format = "wdc"
    <3>1. ~TooFar =>
            /\ low_address' \in DOMAIN bytes' /\ high_address' \in DOMAIN bytes'
            /\ \A b \in DOMAIN bytes' : low_address' <= b /\ b <= high_address'
      BY <1>5, <2>2, BlockRange
    <3> QED
      BY <1>1, <2>2, <3>1 DEF Ranges, Bounds, Lines
  <2>3. CASE format = "uf2"
    BY <1>1, <2>3 DEF Ranges, Lines
  <2> QED
    BY <2>1, <2>2, <2>3
<1>6. CASE ReadBin
  BY <1>1, <1>6 DEF ReadBin, FileHas, Ranges, Lines
<1>7. CASE ReadLinear /\ phase' = "read"
  <2>1. /\ phase' = phase /\ bytes' = bytes /\ start' = start /\ end' = end
        /\ low_address' = low_address /\ high_address' = high_address
    BY <1>7 DEF ReadLinear, FileHas, range
  <2> QED
    BY <1>2, <2>1
<1>8. CASE EndWrite
  <2>1. /\ bytes' = << >> /\ start' = -1 /\ low_address' = Space - 1 /\ high_address' = 0
    BY <1>8 DEF EndWrite, Types, Loop, range
  <2> QED
    BY <2>1 DEF Ranges
<1>9. CASE UNCHANGED imagevars
  <2>1. /\ phase' = phase /\ bytes' = bytes /\ start' = start /\ end' = end
        /\ low_address' = low_address /\ high_address' = high_address
    BY <1>9 DEF imagevars, range
  <2> QED
    BY <1>2, <2>1
<1>10. CASE SkipEmpty \/ Gather \/ WriteBin \/ WriteWdc \/ WriteUf2 \/ EndRead
  BY <1>3, <1>10 DEF SkipEmpty, Gather, WriteBin, WriteWdc, WriteUf2, Writing, Advance, EndRead
<1> QED
  BY <1>3, <1>4, <1>5, <1>6, <1>7, <1>8, <1>9, <1>10 DEF ImageNext

LEMMA BlocksNext ==
  ASSUME Types, Blocks, [ImageNext]_imagevars
  PROVE  Blocks'
<1>1. /\ format' = format /\ image' = image /\ Written' = Written
  <2>1. format' = format /\ image' = image
    BY DEF ImageNext, SkipEmpty, Gather, WriteBin, WriteWdc, WriteUf2, Advance, EndWrite,
           ReadLinear, ReadLine, ReadBin, ReadBlock, EndRead, imagevars
  <2> QED
    BY <2>1 DEF Written, InFile
<1> SUFFICES ASSUME format = "wdc"
             PROVE  Blocks'
  BY <1>1 DEF Blocks
<1>2. /\ ImageTypeOK /\ OpenRecord /\ Loop /\ file \in Seq(Item) /\ RecordsRight(file)
      /\ image \in Image /\ n \in Int /\ Written \subseteq Int /\ image.high_address \in Int
      /\ data \in Seq(Values)
  <2>1. ImageTypeOK /\ OpenRecord /\ Loop /\ file \in Seq(Item) /\ RecordsRight(file)
    BY DEF Types, FileType, LeavesGaps, Lines
  <2>2. image \in Image /\ n \in Address /\ data \in Seq(Values)
    BY <2>1 DEF ImageTypeOK
  <2> QED
    BY <2>1, <2>2, ImageConstants DEF Address
<1>3. CASE WriteWdc
  <2>1. phase = "write" /\ InRange /\ Advance /\ phase' # "read"
    BY <1>3 DEF WriteWdc, Writing, Advance
  <2> SUFFICES ASSUME phase' = "write", file' = << >>, data' = << >>
               PROVE  \A b \in Written : b >= n'
    BY <1>1, <2>1 DEF Blocks
  <2>2. n' = n + 1
    BY <1>2, <2>1, Looped
  <2>3. EndsBlock(n) /\ file' = file \o WdcBlock(address, data)
    <3>1. CASE ~EndsBlock(n)
      <4>1. data' = Append(data, Byte(n))
        BY <1>3, <3>1 DEF WriteWdc
      <4>2. Byte(n) \in Values
        BY <1>2, ByteValue
      <4>3. data' # << >>
        BY <1>2, <4>1, <4>2
      <4> QED
        BY <4>3
    <3> QED
      BY <1>3, <3>1 DEF WriteWdc
  <2>4. data = << >>
    <3>1. SUFFICES ASSUME data # << >> PROVE FALSE
      OBVIOUS
    <3>2. WdcBlock(address, data) = <<Record("block", 3, address % Reach, data, 0)>>
      BY <3>1 DEF WdcBlock
    <3>3. Len(file \o WdcBlock(address, data)) = Len(file) + 1
      BY <1>2, <3>2
    <3> QED
      BY <1>2, <2>3, <3>3
  <2>5. file = << >>
    <3>1. WdcBlock(address, data) = << >>
      BY <2>4 DEF WdcBlock
    <3> QED
      BY <1>2, <2>3, <3>1
  <2>6. n \notin Written
    <3>1. Bank >= 1 /\ Bank \in Nat
      BY ImageNumbers
    <3>2. Len(data) # Bank
      BY <2>4, <3>1
    <3> QED
      BY <2>3, <3>2 DEF EndsBlock, Empty, Written
  <2>7. \A b \in Written : b >= n
    BY <2>1, <2>4, <2>5 DEF Blocks
  <2> QED
    BY <1>2, <2>2, <2>6, <2>7
<1>4. CASE EndWrite
  <2>1. phase = "write" /\ ~InRange /\ phase' = "read" /\ file' = file \o WdcBlock(address, data)
    BY <1>4 DEF EndWrite, Rest, Lines
  <2> SUFFICES ASSUME file' = << >>
               PROVE  Written = {}
    BY <1>1, <2>1 DEF Blocks
  <2>2. data = << >>
    <3>1. SUFFICES ASSUME data # << >> PROVE FALSE
      OBVIOUS
    <3>2. WdcBlock(address, data) = <<Record("block", 3, address % Reach, data, 0)>>
      BY <3>1 DEF WdcBlock
    <3>3. Len(file \o WdcBlock(address, data)) = Len(file) + 1
      BY <1>2, <3>2
    <3> QED
      BY <1>2, <2>1, <3>3
  <2>3. file = << >>
    <3>1. WdcBlock(address, data) = << >>
      BY <2>2 DEF WdcBlock
    <3> QED
      BY <1>2, <2>1, <3>1
  <2>4. \A b \in Written : b >= n
    BY <2>1, <2>2, <2>3 DEF Blocks
  <2>5. \A b \in Written : b <= image.high_address
    BY <1>2, ImageConstants DEF Written, InFile
  <2>6. n > image.high_address
    BY <1>2, <2>1 DEF InRange
  <2> QED
    BY <1>2, <2>4, <2>5, <2>6
<1>5. CASE ReadBlock
  <2>1. /\ file # << >> /\ low_address' = Lowest(Head(file).address, Head(file).data)
        /\ phase' = "read"
    BY <1>5 DEF ReadBlock, FileHas
  <2>2. RecordRight(Head(file))
    BY <1>2, <2>1, RightTaken
  <2>3. Head(file).address < Reach /\ Head(file).data # << >> /\ Head(file).address \in Int
    BY <2>1, <2>2, RecordOf DEF RecordRight, Lines, Address
  <2>4. low_address \in Int /\ Reach \in Int /\ Reach > 0
    BY <1>2, ImageNumbers DEF ImageTypeOK, Address
  <2>5. low_address' < Reach
    BY <2>1, <2>3, <2>4 DEF Lowest
  <2> QED
    BY <2>1, <2>5 DEF Blocks
<1>6. CASE UNCHANGED imagevars
  BY <1>1, <1>6 DEF imagevars, writer, range, Blocks
<1>7. CASE SkipEmpty \/ Gather \/ WriteBin \/ WriteUf2 \/ ReadLinear \/ ReadLine \/ ReadBin \/ EndRead
  BY <1>7 DEF SkipEmpty, Gather, WriteBin, WriteUf2, ReadLinear, ReadLine, ReadBin, FileHas,
              Writing, EndRead, Blocks, Lines
<1> QED
  BY <1>3, <1>4, <1>5, <1>6, <1>7 DEF ImageNext

(* The blocks that follow each other fill the address space evenly.        *)
LEMMA BlockFits ==
  ASSUME NEW k \in Nat, k * Base < Space
  PROVE  k * Base + Base <= Space
<1>1. Base \in Nat /\ Base >= 1 /\ Reach \in Nat /\ Space = Base * Reach
  BY ImageNumbers
<1>2. ~(k >= Reach)
  <2>1. SUFFICES ASSUME k >= Reach PROVE FALSE
    OBVIOUS
  <2>2. Base * k >= Base * Reach
    BY <1>1, <2>1
  <2>3. Base * k = k * Base
    BY <1>1
  <2>4. Base * Reach \in Int /\ Base * k \in Int
    BY <1>1
  <2> QED
    BY <1>1, <2>2, <2>3, <2>4
<1>3. k + 1 <= Reach
  BY <1>1, <1>2
<1>4. Base * (k + 1) <= Base * Reach
  BY <1>1, <1>3
<1>5. Base * (k + 1) = k * Base + Base
  BY <1>1
<1> QED
  BY <1>1, <1>4, <1>5

LEMMA PlaceValue ==
  ASSUME NEW r, NEW j, NEW p \in 0 .. 2 * Space - 1, r.address + j - 1 = p
  PROVE  /\ p < Space => Place(r, j) = p
         /\ p >= Space => Place(r, j) = p - Space
<1>1. PICK s \in Nat \ {0} : s = Space
  BY ImageNumbers
<1>2. p \in Int /\ (p \in 0 .. s - 1 \/ p \in s .. 2 * s - 1)
  BY <1>1
<1>3. p \in 0 .. s - 1 => p % s = p
  BY <1>2, Around
<1>4. p \in s .. 2 * s - 1 => p % s = p - s
  BY <1>2, Around
<1>5. Place(r, j) = p % s
  BY <1>1 DEF Place
<1>6. (p < s => Place(r, j) = p) /\ (p >= s => Place(r, j) = p - s)
  BY <1>1, <1>2, <1>3, <1>4, <1>5
<1> QED
  BY <1>1, <1>6

(* A block that is full, or the last one: what is behind its bytes is not  *)
(* in the program, past the last address neither.                          *)
LEMMA PaddedRight ==
  ASSUME image \in Image, NEW a \in Address, NEW d \in Seq(Values), NEW r,
         Len(d) \in 1 .. Base,
         FromFile(a, d), a + Base <= image.low_address + Space,
         Len(d) = Base \/ a + Len(d) > image.high_address,
         r.address = a, PaddedTo(r, d)
  PROVE  /\ BlockRight(r)
         /\ \A b \in Int : a <= b /\ b < a + Len(d) => \E j \in 1 .. Base : Place(r, j) = b
<1>1. /\ Base \in Nat /\ Base >= 1 /\ Space \in Nat /\ Space >= 1 /\ Base <= Space
      /\ Len(d) \in Nat /\ Len(d) >= 1 /\ Len(d) <= Base
      /\ a \in Nat /\ a < Space /\ image.low_address \in Nat /\ image.high_address \in Nat
  <2>1. Base \in Nat /\ Base >= 1 /\ Space \in Nat /\ Space >= 1 /\ Base <= Space
    BY ImageNumbers
  <2>2. Len(d) \in Nat
    OBVIOUS
  <2>3. Len(d) >= 1 /\ Len(d) <= Base
    BY <2>1, <2>2
  <2>4. image.low_address \in Nat /\ image.high_address \in Nat
    BY <2>1, ImageConstants DEF Address
  <2>5. a \in Nat /\ a < Space
    BY <2>1 DEF Address
  <2> QED
    BY <2>1, <2>2, <2>3, <2>4, <2>5
<1>2. InFile \subseteq Address /\ Written \subseteq InFile
  BY ImageConstants
<1>3. ASSUME NEW j \in 1 .. Base, NEW p \in Int, a + j - 1 = p
      PROVE  /\ p < Space => Place(r, j) = p
             /\ p >= Space => Place(r, j) = p - Space
  <2>1. p \in 0 .. 2 * Space - 1
    BY <1>1, <1>3
  <2>2. r.address + j - 1 = p
    BY <1>3
  <2> QED
    BY <2>1, <2>2, PlaceValue
<1>4. ASSUME NEW j \in 1 .. Base, j <= Len(d)
      PROVE  /\ Place(r, j) = a + j - 1 /\ a + j - 1 \in InFile
             /\ r.data[j] = Byte(Place(r, j))
  <2>1. j \in 1 .. Len(d)
    BY <1>1, <1>4
  <2>2. /\ a + j - 1 \in InFile /\ d[j] = Byte(a + j - 1)
        /\ r.data[j] = d[j]
    BY <1>4, <2>1 DEF FromFile, PaddedTo
  <2>3. Place(r, j) = a + j - 1
    <3>1. a + j - 1 \in Address
      BY <1>2, <2>2
    <3>2. a + j - 1 \in Int /\ 0 <= a + j - 1 /\ a + j - 1 < Space
      BY <1>1, <3>1 DEF Address
    <3> QED
      BY <1>3, <3>2 DEF Place
  <2> QED
    BY <1>4, <2>2, <2>3
<1>5. ASSUME NEW j \in 1 .. Base, ~(j <= Len(d))
      PROVE  r.data[j] = 0 /\ Place(r, j) \notin Written
  <2>1. r.data[j] = 0 /\ a + Len(d) > image.high_address
    <3>1. r.data[j] = 0
      BY <1>5 DEF PaddedTo
    <3>2. Len(d) # Base
      BY <1>1, <1>5
    <3> QED
      BY <3>1, <3>2
  <2>2. PICK p \in Int : p = a + j - 1
    BY <1>1
  <2>3. Place(r, j) = p \/ Place(r, j) = p - Space
    BY <1>1, <1>3, <2>2
  <2>4. p > image.high_address /\ p >= 0
    <3>1. j \in Int /\ j > Len(d)
      BY <1>1, <1>5
    <3>2. p >= a + Len(d)
      BY <1>1, <2>2, <3>1
    <3> QED
      BY <1>1, <2>1, <2>2, <3>2
  <2>5. p \notin InFile
    BY <1>1, <2>4 DEF InFile
  <2>6. p - Space \notin InFile
    <3>1. p - Space < image.low_address
      BY <1>1, <2>2
    <3> QED
      BY <1>1, <3>1 DEF InFile
  <2> QED
    BY <1>2, <2>1, <2>3, <2>5, <2>6
<1>6. BlockRight(r)
  <2>1. SUFFICES ASSUME NEW j \in 1 .. Base
                 PROVE  /\ r.data[j] \in {0, Byte(Place(r, j))}
                        /\ Place(r, j) \in Written => r.data[j] = image.bytes[Place(r, j)]
    BY DEF BlockRight
  <2>2. \A b \in Written : Byte(b) = image.bytes[b]
    BY DEF Byte, Empty, Written
  <2>3. CASE j <= Len(d)
    BY <1>4, <2>2, <2>3
  <2>4. CASE ~(j <= Len(d))
    BY <1>5, <2>4
  <2> QED
    BY <2>3, <2>4
<1>7. ASSUME NEW b \in Int, a <= b, b < a + Len(d)
      PROVE  \E j \in 1 .. Base : Place(r, j) = b
  <2>1. b - a + 1 \in 1 .. Base /\ b - a + 1 <= Len(d) /\ a + (b - a + 1) - 1 = b
    <3>1. PICK x \in Int : x = b - a + 1
      BY <1>1
    <3>2. x >= 1 /\ a + x - 1 = b
      BY <1>1, <1>7, <3>1
    <3>3. x <= Len(d) /\ x <= Base
      BY <1>1, <1>7, <3>1
    <3>4. x \in 1 .. Base
      BY <1>1, <3>2, <3>3
    <3> QED
      BY <3>1, <3>2, <3>3, <3>4
  <2>2. Place(r, b - a + 1) = b
    BY <1>4, <2>1
  <2> QED
    BY <2>1, <2>2
<1> QED
  BY <1>6, <1>7

LEMMA BlockAppended ==
  ASSUME NEW f \in Seq(Item), NEW r \in Item, BlocksRight(f, {}), BlockRight(r),
         Len(r.data) = Base
  PROVE  /\ BlocksRight(Append(f, r), {})
         /\ \A b : BlockHolds(f, b) \/ (\E j \in 1 .. Base : Place(r, j) = b) =>
                     BlockHolds(Append(f, r), b)
<1>1. /\ Len(f) \in Nat /\ Append(f, r) \in Seq(Item) /\ Len(Append(f, r)) = Len(f) + 1
      /\ \A i \in 1 .. Len(f) : Append(f, r)[i] = f[i]
      /\ Append(f, r)[Len(f) + 1] = r
  OBVIOUS
<1>2. /\ \A i \in 1 .. Len(f) : i \in 1 .. Len(f) + 1
      /\ Len(f) + 1 \in 1 .. Len(f) + 1
      /\ \A i \in 1 .. Len(f) + 1 : i \in 1 .. Len(f) \/ i = Len(f) + 1
  BY <1>1
<1>3. BlocksRight(Append(f, r), {})
  BY <1>1, <1>2 DEF BlocksRight
<1>4. ASSUME NEW b, BlockHolds(f, b)
      PROVE  BlockHolds(Append(f, r), b)
  <2>1. PICK i \in 1 .. Len(f) : BlockRight(f[i]) /\ \E j \in 1 .. Base : Place(f[i], j) = b
    BY <1>4 DEF BlockHolds
  <2> QED
    BY <1>1, <1>2, <2>1 DEF BlockHolds
<1>5. ASSUME NEW b, \E j \in 1 .. Base : Place(r, j) = b
      PROVE  BlockHolds(Append(f, r), b)
  BY <1>1, <1>2, <1>5 DEF BlockHolds
<1> QED
  BY <1>3, <1>4, <1>5

(* A block that is read: what it leaves of the file and of the bytes.      *)
LEMMA BlockTaken ==
  ASSUME NEW f \in Seq(Item), f # << >>, NEW B, BlocksRight(f, B), NEW C
  PROVE  /\ Len(Head(f).data) = Base
         /\ BlockRight(Head(f)) \/ (B = {} /\ IsPico(Head(f)))
         /\ BlocksRight(Tail(f), C)
         /\ \A b : BlockHolds(f, b) =>
              \/ BlockHolds(Tail(f), b)
              \/ BlockRight(Head(f)) /\ \E j \in 1 .. Base : Place(Head(f), j) = b
<1>1. /\ Len(f) \in Nat /\ Len(f) >= 1 /\ Tail(f) \in Seq(Item) /\ Len(Tail(f)) = Len(f) - 1
      /\ \A i \in 1 .. Len(f) - 1 : Tail(f)[i] = f[i + 1]
      /\ Head(f) = f[1]
  OBVIOUS
<1>2. /\ 1 \in 1 .. Len(f)
      /\ \A i \in 1 .. Len(f) - 1 : i + 1 \in 1 .. Len(f) /\ i + 1 # 1
      /\ \A i \in 1 .. Len(f) : i = 1 \/ (i - 1 \in 1 .. Len(f) - 1 /\ (i - 1) + 1 = i)
  BY <1>1
<1>3. /\ Len(Head(f).data) = Base
      /\ BlockRight(Head(f)) \/ (B = {} /\ IsPico(Head(f)))
  BY <1>1, <1>2 DEF BlocksRight
<1>4. BlocksRight(Tail(f), C)
  <2>1. SUFFICES ASSUME NEW i \in 1 .. Len(f) - 1
                 PROVE  Len(Tail(f)[i].data) = Base /\ BlockRight(Tail(f)[i])
    BY <1>1 DEF BlocksRight
  <2>2. i + 1 \in 1 .. Len(f) /\ i + 1 # 1 /\ Tail(f)[i] = f[i + 1]
    BY <1>1, <1>2
  <2>3. Len(f[i + 1].data) = Base /\ BlockRight(f[i + 1])
    BY <2>2 DEF BlocksRight
  <2> QED
    BY <2>2, <2>3
<1>5. ASSUME NEW b, BlockHolds(f, b)
      PROVE  \/ BlockHolds(Tail(f), b)
             \/ BlockRight(Head(f)) /\ \E j \in 1 .. Base : Place(Head(f), j) = b
  <2>1. PICK i \in 1 .. Len(f) : BlockRight(f[i]) /\ \E j \in 1 .. Base : Place(f[i], j) = b
    BY <1>5 DEF BlockHolds
  <2>2. CASE i = 1
    BY <1>1, <2>1, <2>2
  <2>3. CASE i # 1
    <3>1. i - 1 \in 1 .. Len(f) - 1 /\ Tail(f)[i - 1] = f[i]
      BY <1>1, <1>2, <2>3
    <3> QED
      BY <1>1, <2>1, <3>1 DEF BlockHolds
  <2> QED
    BY <2>2, <2>3
<1> QED
  BY <1>3, <1>4, <1>5

LEMMA Uf2Primed ==
  ASSUME format' = format, image' = image,
         phase' \in {"write", "read"} => BlocksRight(file', DOMAIN bytes'),
         phase' = "write" =>
           /\ \E k \in Nat : n' = image.low_address + k * Base + Len(data')
           /\ \A b \in Written :
                b < n' => BlockHolds(file', b) \/ (data' # << >> /\ address' <= b),
         phase' = "read" =>
           /\ \A b \in DOMAIN bytes' : bytes'[b] \in {0, Byte(b), Pico}
           /\ \A b \in Written :
                BlockHolds(file', b) \/ (b \in DOMAIN bytes' /\ bytes'[b] = image.bytes[b])
  PROVE  Uf2Blocks'
<1>1. /\ Written' = Written /\ \A b : Byte(b)' = Byte(b)
  BY DEF Written, InFile, Byte, Empty
<1>2. \A r : BlockRight(r)' = BlockRight(r)
  BY <1>1 DEF BlockRight, Place, Byte, Empty
<1>3. BlocksRight(file', DOMAIN bytes') = BlocksRight(file, DOMAIN bytes)'
  BY DEF BlocksRight, BlockRight, IsPico, Place, Written, InFile, Byte, Empty
<1>4. \A b : BlockHolds(file', b) = BlockHolds(file, b)'
  BY DEF BlockHolds, BlockRight, Place, Written, InFile, Byte, Empty
<1>5. phase' \in {"write", "read"} => BlocksRight(file, DOMAIN bytes)'
  BY <1>3
<1>6. phase' = "write" =>
        /\ \E k \in Nat : n' = image'.low_address + k * Base + Len(data')
        /\ \A b \in Written' :
             b < n' => BlockHolds(file, b)' \/ (data' # << >> /\ address' <= b)
  <2>1. SUFFICES ASSUME phase' = "write"
                 PROVE  /\ \E k \in Nat : n' = image'.low_address + k * Base + Len(data')
                        /\ \A b \in Written' :
                             b < n' => BlockHolds(file, b)' \/ (data' # << >> /\ address' <= b)
    OBVIOUS
  <2>2. \E k \in Nat : n' = image'.low_address + k * Base + Len(data')
    BY <2>1
  <2>3. ASSUME NEW b \in Written', b < n'
        PROVE  BlockHolds(file, b)' \/ (data' # << >> /\ address' <= b)
    <3>1. BlockHolds(file', b) \/ (data' # << >> /\ address' <= b)
      BY <1>1, <2>1, <2>3
    <3> QED
      BY <1>4, <3>1
  <2> QED
    BY <2>2, <2>3
<1>7. phase' = "read" =>
        /\ \A b \in DOMAIN bytes' : bytes'[b] \in {0, Byte(b)', Pico}
        /\ \A b \in Written' :
             BlockHolds(file, b)' \/ (b \in DOMAIN bytes' /\ bytes'[b] = image'.bytes[b])
  <2>1. SUFFICES ASSUME phase' = "read"
                 PROVE  /\ \A b \in DOMAIN bytes' : bytes'[b] \in {0, Byte(b)', Pico}
                        /\ \A b \in Written' :
                             \/ BlockHolds(file, b)'
                             \/ b \in DOMAIN bytes' /\ bytes'[b] = image'.bytes[b]
    OBVIOUS
  <2>2. \A b \in DOMAIN bytes' : bytes'[b] \in {0, Byte(b)', Pico}
    BY <1>1, <2>1
  <2>3. ASSUME NEW b \in Written'
        PROVE  BlockHolds(file, b)' \/ (b \in DOMAIN bytes' /\ bytes'[b] = image'.bytes[b])
    <3>1. BlockHolds(file', b) \/ (b \in DOMAIN bytes' /\ bytes'[b] = image.bytes[b])
      BY <1>1, <2>1, <2>3
    <3> QED
      BY <1>4, <3>1
  <2> QED
    BY <2>2, <2>3
<1> QED
  BY <1>5, <1>6, <1>7 DEF Uf2Blocks

LEMMA Uf2Init == ImageInit => Uf2Blocks
<1> SUFFICES ASSUME ImageInit, format = "uf2" PROVE Uf2Blocks
  BY DEF Uf2Blocks
<1> DEFINE r == Record("block", 4, PicoAddress, [i \in 1 .. Base |-> Pico], 0)
<1>1. /\ image \in Image /\ phase = "write" /\ n = image.low_address /\ file = <<r>>
      /\ DOMAIN bytes = {} /\ data = << >>
  BY DEF ImageInit
<1>2. Base \in Nat
  BY ImageNumbers
<1>3. Len(r.data) = Base /\ IsPico(r)
  <2>1. r.data = [i \in 1 .. Base |-> Pico]
    BY DEF Record
  <2> HIDE DEF r
  <2>2. \A i \in 1 .. Base : r.data[i] = Pico
    BY <2>1
  <2> QED
    BY <1>2, <2>1, <2>2 DEF IsPico
<1> HIDE DEF r
<1>4. BlocksRight(file, DOMAIN bytes)
  <2>1. Len(file) = 1 /\ file[1] = r /\ \A i \in 1 .. 1 : i = 1
    BY <1>1
  <2> QED
    BY <1>1, <1>3, <2>1 DEF BlocksRight
<1>5. \E k \in Nat : n = image.low_address + k * Base + Len(data)
  <2>1. image.low_address \in Int
    BY <1>1, ImageConstants DEF Address
  <2>2. Len(data) = 0 /\ 0 * Base = 0
    BY <1>1, <1>2
  <2>3. n = image.low_address + 0 * Base + Len(data)
    BY <1>1, <2>1, <2>2
  <2> QED
    BY <2>3
<1>6. \A b \in Written : ~(b < n)
  <2>1. Written \subseteq InFile /\ n \in Int
    BY <1>1, ImageConstants DEF Address
  <2>2. \A b \in InFile : b \in Int /\ n <= b
    BY <1>1 DEF InFile
  <2> QED
    BY <2>1, <2>2
<1> QED
  BY <1>1, <1>4, <1>5, <1>6 DEF Uf2Blocks

LEMMA WriteUf2Blocks ==
  ASSUME Types, Uf2Blocks, WriteUf2
  PROVE  Uf2Blocks'
<1> DEFINE a == IF data = << >> THEN n ELSE address
           d == Append(data, Byte(n))
<1>1. /\ phase = "write" /\ format = "uf2" /\ InRange /\ Advance
      /\ ImageTypeOK /\ OpenRecord /\ Loop /\ file \in Seq(Item)
      /\ data \in Seq(Values) /\ Len(data) <= Room /\ DOMAIN bytes = {}
      /\ address' = a
      /\ \/ Len(d) = Base /\ file' = file \o Uf2Block(a, d) /\ data' = << >>
         \/ Len(d) # Base /\ data' = d /\ file' = file
  BY DEF WriteUf2, Writing, Types, FileType, ImageTypeOK, Loop
<1>2. /\ phase' = "write" => n' = n + 1
      /\ phase' # "read"
      /\ n \in InFile /\ n \in Address /\ address \in Address
      /\ image \in Image /\ image' = image /\ format' = format /\ bytes' = bytes
  <2>1. phase' # "read"
    BY <1>1 DEF Advance
  <2> QED
    BY <1>1, <2>1, Looped DEF ImageTypeOK
<1>3. /\ d \in Seq(Values) /\ Len(d) = Len(data) + 1 /\ Len(data) \in Nat /\ d # << >>
      /\ data # << >> => Len(data) \in Nat \ {0}
  BY <1>1, <1>2, ByteValue, OpenShort
<1>4. a \in Address /\ a + Len(data) = n /\ FromFile(a, data)
  <2>1. n \in Int
    BY <1>2 DEF Address
  <2>2. CASE data = << >>
    BY <1>2, <2>1, <2>2 DEF FromFile
  <2>3. CASE data # << >>
    BY <1>1, <1>2, <2>3 DEF OpenRecord
  <2> QED
    BY <2>2, <2>3
<1>5. PICK k \in Nat : n = image.low_address + k * Base + Len(data)
  BY <1>1 DEF Uf2Blocks
<1>6. /\ BlocksRight(file, {})
      /\ \A b \in Written : b < n => BlockHolds(file, b) \/ (data # << >> /\ a <= b)
  BY <1>1 DEF Uf2Blocks
<1> HIDE DEF a
<1>7. FromFile(a, d)
  <2>1. a \in Int
    BY <1>4 DEF Address
  <2> QED
    BY <1>1, <1>2, <1>4, <2>1, BytesNext
<1> HIDE DEF d
<1>8. /\ a \in Int /\ n \in Int /\ Written \subseteq Int /\ Base \in Nat
      /\ image.low_address \in Int /\ Base <= Space /\ Space \in Nat /\ a < Space
      /\ k * Base \in Int /\ image.low_address >= 0
  BY <1>2, <1>4, ImageNumbers, ImageConstants DEF Address
<1>9. a = image.low_address + k * Base
  BY <1>3, <1>4, <1>5, <1>8
<1> SUFFICES ASSUME phase' = "write"
             PROVE  /\ BlocksRight(file', {})
                    /\ \E j \in Nat : n + 1 = image.low_address + j * Base + Len(data')
                    /\ \A b \in Written :
                         b < n + 1 => BlockHolds(file', b) \/ (data' # << >> /\ a <= b)
  BY <1>1, <1>2, Uf2Primed
<1>10. CASE Len(d) # Base /\ data' = d /\ file' = file
  <2>1. n + 1 = image.low_address + k * Base + Len(data')
    BY <1>3, <1>5, <1>8, <1>10
  <2>2. ASSUME NEW b \in Written, b < n + 1
        PROVE  BlockHolds(file', b) \/ (data' # << >> /\ a <= b)
    <3>1. CASE b = n
      BY <1>3, <1>4, <1>8, <1>10, <3>1
    <3>2. CASE b # n
      BY <1>3, <1>6, <1>8, <1>10, <2>2, <3>2
    <3> QED
      BY <3>1, <3>2
  <2> QED
    BY <1>6, <1>10, <2>1, <2>2
<1>11. CASE Len(d) = Base /\ file' = file \o Uf2Block(a, d) /\ data' = << >>
  <2>1. PICK r \in Item : /\ r.address = a /\ Len(r.data) = Base /\ PaddedTo(r, d)
                          /\ file \o Uf2Block(a, d) = Append(file, r)
    BY <1>1, <1>3, <1>4, Uf2Record
  <2>2. a + Base <= image.low_address + Space
    <3>1. k * Base < Space
      BY <1>8, <1>9
    <3>2. k * Base + Base <= Space
      BY <3>1, BlockFits
    <3> QED
      BY <1>8, <1>9, <3>2
  <2>3. /\ BlockRight(r)
        /\ \A b \in Int : a <= b /\ b < a + Len(d) => \E j \in 1 .. Base : Place(r, j) = b
    <3>1. Len(d) \in 1 .. Base
      BY <1>3, <1>11
    <3> QED
      BY <1>2, <1>3, <1>4, <1>7, <1>11, <2>1, <2>2, <3>1, PaddedRight
  <2>4. /\ BlocksRight(Append(file, r), {})
        /\ \A b : BlockHolds(file, b) \/ (\E j \in 1 .. Base : Place(r, j) = b) =>
                    BlockHolds(Append(file, r), b)
    BY <1>1, <1>6, <2>1, <2>3, BlockAppended
  <2>5. \E j \in Nat : n + 1 = image.low_address + j * Base + Len(data')
    <3>1. Len(data') = 0
      BY <1>11
    <3>2. (k + 1) * Base = k * Base + Base
      BY <1>8
    <3>3. n + 1 = image.low_address + (k + 1) * Base + Len(data')
      BY <1>3, <1>5, <1>8, <1>11, <3>1, <3>2
    <3> QED
      BY <3>3
  <2>6. ASSUME NEW b \in Written, b < n + 1
        PROVE  BlockHolds(Append(file, r), b)
    <3>1. CASE a <= b
      <4>1. b \in Int /\ b < a + Len(d)
        BY <1>3, <1>4, <1>8, <2>6
      <4> QED
        BY <2>3, <2>4, <3>1, <4>1
    <3>2. CASE ~(a <= b)
      <4>1. b < n
        BY <1>3, <1>4, <1>8, <2>6, <3>2
      <4>2. BlockHolds(file, b)
        BY <1>6, <3>2, <4>1
      <4> QED
        BY <2>4, <4>2
    <3> QED
      BY <3>1, <3>2
  <2> QED
    BY <1>11, <2>1, <2>4, <2>5, <2>6
<1> QED
  BY <1>1, <1>10, <1>11 DEF d, a

LEMMA EndWriteBlocks ==
  ASSUME Types, Uf2Blocks, EndWrite, format = "uf2"
  PROVE  Uf2Blocks'
<1>1. /\ phase = "write" /\ ~InRange /\ phase' = "read" /\ file' = file \o Uf2Block(address, data)
      /\ format' = format /\ image' = image /\ bytes' = bytes
  BY DEF EndWrite, Rest, Lines
<1>2. /\ ImageTypeOK /\ OpenRecord /\ Loop /\ file \in Seq(Item) /\ bytes = << >>
      /\ data \in Seq(Values) /\ Len(data) <= Room /\ image \in Image
      /\ address \in Address /\ n \in Address
  BY <1>1 DEF Types, FileType, ImageTypeOK, Loop
<1>3. DOMAIN bytes = {}
  BY <1>2
<1>4. PICK k \in Nat : n = image.low_address + k * Base + Len(data)
  BY <1>1 DEF Uf2Blocks
<1>5. /\ BlocksRight(file, {})
      /\ \A b \in Written : b < n => BlockHolds(file, b) \/ (data # << >> /\ address <= b)
  BY <1>1, <1>3 DEF Uf2Blocks
<1>6. /\ n \in Int /\ Written \subseteq Int /\ Base \in Nat /\ image.low_address \in Int
      /\ image.high_address \in Int /\ Space \in Nat /\ k * Base \in Int /\ address < Space
      /\ image.low_address >= 0 /\ address \in Int
  BY <1>2, ImageNumbers, ImageConstants DEF Address
<1>7. n > image.high_address /\ \A b \in Written : b < n
  <2>1. n > image.high_address
    BY <1>1, <1>6 DEF InRange
  <2>2. \A b \in Written : b <= image.high_address
    BY <1>2, <1>6, ImageConstants DEF InFile
  <2> QED
    BY <1>6, <2>1, <2>2
<1> SUFFICES /\ BlocksRight(file', {})
             /\ \A b \in Written : BlockHolds(file', b)
  BY <1>1, <1>2, <1>3, Uf2Primed
<1>8. CASE data = << >>
  <2>1. file' = file
    BY <1>1, <1>2, <1>8 DEF Uf2Block
  <2> QED
    BY <1>5, <1>7, <1>8, <2>1
<1>9. CASE data # << >>
  <2>1. /\ address + Len(data) = n /\ FromFile(address, data)
    BY <1>1, <1>2, <1>9 DEF OpenRecord
  <2>2. Len(data) \in Nat \ {0} /\ Len(data) < Base
    <3>1. Len(data) \in Nat \ {0}
      BY <1>1, <1>2, <1>9, OpenShort
    <3>2. Room = Base - 1
      BY <1>1, <1>2, RoomFacts DEF ImageTypeOK
    <3> QED
      BY <1>2, <1>6, <3>1, <3>2
  <2>3. PICK r \in Item : /\ r.address = address /\ Len(r.data) = Base /\ PaddedTo(r, data)
                          /\ file \o Uf2Block(address, data) = Append(file, r)
    BY <1>2, <1>9, Uf2Record
  <2>4. address + Base <= image.low_address + Space
    <3>1. address = image.low_address + k * Base
      BY <1>4, <1>6, <2>1, <2>2
    <3>2. k * Base < Space
      BY <1>6, <3>1
    <3>3. k * Base + Base <= Space
      BY <3>2, BlockFits
    <3> QED
      BY <1>6, <3>1, <3>3
  <2>5. /\ BlockRight(r)
        /\ \A b \in Int : address <= b /\ b < address + Len(data) =>
                            \E j \in 1 .. Base : Place(r, j) = b
    <3>1. Len(data) \in 1 .. Base /\ address + Len(data) > image.high_address
      BY <1>6, <1>7, <2>1, <2>2
    <3> QED
      BY <1>2, <2>1, <2>3, <2>4, <3>1, PaddedRight
  <2>6. /\ BlocksRight(Append(file, r), {})
        /\ \A b : BlockHolds(file, b) \/ (\E j \in 1 .. Base : Place(r, j) = b) =>
                    BlockHolds(Append(file, r), b)
    BY <1>2, <1>5, <2>3, <2>5, BlockAppended
  <2>7. ASSUME NEW b \in Written
        PROVE  BlockHolds(Append(file, r), b)
    <3>1. b < n /\ b \in Int
      BY <1>6, <1>7
    <3>2. CASE address <= b
      BY <2>1, <2>5, <2>6, <3>1, <3>2
    <3>3. CASE ~(address <= b)
      BY <1>5, <2>6, <3>1, <3>3
    <3> QED
      BY <3>2, <3>3
  <2> QED
    BY <1>1, <2>3, <2>6, <2>7
<1> QED
  BY <1>8, <1>9

LEMMA ReadUf2Blocks ==
  ASSUME Types, Uf2Blocks, ReadBlock, format = "uf2"
  PROVE  Uf2Blocks'
<1> DEFINE r == Head(file)
           a == r.address
           d == r.data
<1>1. /\ phase = "read" /\ phase' = "read" /\ file # << >> /\ file' = Tail(file)
      /\ bytes' = Stored(a, d)
      /\ format' = format /\ image' = image
  BY DEF ReadBlock, FileHas
<1>2. /\ file \in Seq(Item) /\ d \in Short /\ a \in Int
  BY <1>1, RecordOf DEF Address
<1>3. /\ BlocksRight(file, DOMAIN bytes)
      /\ \A b \in DOMAIN bytes : bytes[b] \in {0, Byte(b), Pico}
      /\ \A b \in Written :
           BlockHolds(file, b) \/ (b \in DOMAIN bytes /\ bytes[b] = image.bytes[b])
  BY <1>1 DEF Uf2Blocks
<1>4. /\ Len(d) = Base
      /\ BlockRight(r) \/ (DOMAIN bytes = {} /\ IsPico(r))
      /\ BlocksRight(Tail(file), DOMAIN bytes')
      /\ \A b : BlockHolds(file, b) =>
           \/ BlockHolds(Tail(file), b)
           \/ BlockRight(r) /\ \E j \in 1 .. Base : Place(r, j) = b
  BY <1>1, <1>2, <1>3, BlockTaken
<1>5. /\ DOMAIN bytes' = DOMAIN bytes \cup {Place(r, j) : j \in 1 .. Base}
      /\ \A j \in 1 .. Base : bytes'[Place(r, j)] = d[j]
      /\ \A b \in DOMAIN bytes : (\A j \in 1 .. Base : Place(r, j) # b) => bytes'[b] = bytes[b]
  <2>1. /\ DOMAIN Stored(a, d) = DOMAIN bytes \cup {(a + j - 1) % Space : j \in 1 .. Len(d)}
        /\ \A j \in 1 .. Len(d) : Stored(a, d)[(a + j - 1) % Space] = d[j]
        /\ \A b \in DOMAIN bytes :
             (\A j \in 1 .. Len(d) : (a + j - 1) % Space # b) => Stored(a, d)[b] = bytes[b]
    <3> HIDE DEF a, d
    <3> QED
      BY <1>2, StoredThere
  <2> QED
    BY <1>1, <1>4, <2>1 DEF Place
<1> HIDE DEF a, r
<1>6. ASSUME NEW b \in DOMAIN bytes'
      PROVE  bytes'[b] \in {0, Byte(b), Pico}
  <2>1. CASE \E j \in 1 .. Base : Place(r, j) = b
    <3>1. PICK j \in 1 .. Base : Place(r, j) = b
      BY <2>1
    <3>2. bytes'[b] = d[j]
      BY <1>5, <3>1
    <3>3. d[j] \in {0, Byte(b)} \/ d[j] = Pico
      BY <1>4, <3>1 DEF BlockRight, IsPico
    <3> QED
      BY <3>2, <3>3
  <2>2. CASE \A j \in 1 .. Base : Place(r, j) # b
    <3>1. b \in DOMAIN bytes
      BY <1>5, <1>6, <2>2
    <3> QED
      BY <1>3, <1>5, <2>2, <3>1
  <2> QED
    BY <2>1, <2>2
<1>7. ASSUME NEW b \in Written
      PROVE  BlockHolds(Tail(file), b) \/ (b \in DOMAIN bytes' /\ bytes'[b] = image.bytes[b])
  <2>1. ASSUME BlockRight(r), NEW j \in 1 .. Base, Place(r, j) = b
        PROVE  b \in DOMAIN bytes' /\ bytes'[b] = image.bytes[b]
    <3>1. d[j] = image.bytes[b]
      BY <1>7, <2>1 DEF BlockRight
    <3> QED
      BY <1>5, <2>1, <3>1
  <2>2. CASE BlockHolds(file, b)
    BY <1>4, <2>1, <2>2
  <2>3. CASE b \in DOMAIN bytes /\ bytes[b] = image.bytes[b]
    <3>1. BlockRight(r)
      BY <1>4, <2>3
    <3>2. CASE \E j \in 1 .. Base : Place(r, j) = b
      BY <2>1, <3>1, <3>2
    <3>3. CASE \A j \in 1 .. Base : Place(r, j) # b
      BY <1>5, <2>3, <3>3
    <3> QED
      BY <3>2, <3>3
  <2> QED
    BY <1>3, <2>2, <2>3
<1> QED
  BY <1>1, <1>4, <1>6, <1>7, Uf2Primed

LEMMA FormatStays ==
  ASSUME [ImageNext]_imagevars
  PROVE  format' = format /\ image' = image
BY DEF ImageNext, SkipEmpty, Gather, WriteBin, WriteWdc, WriteUf2, Advance, EndWrite,
       ReadLinear, ReadLine, ReadBin, ReadBlock, EndRead, imagevars

LEMMA Uf2Next ==
  ASSUME Types, Uf2Blocks, [ImageNext]_imagevars
  PROVE  Uf2Blocks'
<1>1. format' = format /\ image' = image
  BY FormatStays
<1>2. CASE format # "uf2"
  BY <1>1, <1>2 DEF Uf2Blocks
<1>3. CASE format = "uf2" /\ UNCHANGED imagevars
  <2>1. /\ phase' = phase /\ file' = file /\ bytes' = bytes /\ n' = n /\ data' = data
        /\ address' = address
    BY <1>3 DEF imagevars, writer
  <2>2. phase \in {"write", "read"} => BlocksRight(file, DOMAIN bytes)
    BY <1>3 DEF Uf2Blocks
  <2>3. phase = "write" =>
          /\ \E k \in Nat : n = image.low_address + k * Base + Len(data)
          /\ \A b \in Written : b < n => BlockHolds(file, b) \/ (data # << >> /\ address <= b)
    BY <1>3 DEF Uf2Blocks
  <2>4. phase = "read" =>
          /\ \A b \in DOMAIN bytes : bytes[b] \in {0, Byte(b), Pico}
          /\ \A b \in Written :
               BlockHolds(file, b) \/ (b \in DOMAIN bytes /\ bytes[b] = image.bytes[b])
    BY <1>3 DEF Uf2Blocks
  <2> QED
    BY <1>1, <2>1, <2>2, <2>3, <2>4, Uf2Primed
<1>4. CASE format = "uf2" /\ EndRead
  <2>1. phase' \in {"loaded", "rejected"}
    BY <1>4 DEF EndRead
  <2> QED
    BY <2>1 DEF Uf2Blocks
<1>5. CASE format = "uf2" /\ (SkipEmpty \/ Gather \/ WriteBin \/ WriteWdc \/ ReadLinear \/ ReadLine \/ ReadBin)
  BY <1>5 DEF SkipEmpty, Gather, WriteBin, WriteWdc, ReadLinear, ReadLine, ReadBin, FileHas,
              Writing, Lines
<1> QED
  BY <1>2, <1>3, <1>4, <1>5, WriteUf2Blocks, EndWriteBlocks, ReadUf2Blocks DEF ImageNext

LEMMA BinInit == ImageInit => BinBytes
<1> SUFFICES ASSUME ImageInit, format = "bin" PROVE BinBytes
  BY DEF BinBytes
<1>1. /\ image \in Image /\ phase = "write" /\ n = image.low_address /\ file = << >>
  BY DEF ImageInit
<1>2. n - image.low_address = 0
  BY <1>1, ImageConstants DEF Address
<1> QED
  BY <1>1, <1>2 DEF BinBytes

LEMMA WriteBinBytes ==
  ASSUME Types, BinBytes, WriteBin
  PROVE  BinBytes'
<1>1. /\ phase = "write" /\ format = "bin" /\ InRange /\ Advance /\ ImageTypeOK /\ Loop
      /\ file \in Seq(Values) /\ file' = Append(file, Byte(n))
  BY DEF WriteBin, Writing, Types, FileType
<1>2. /\ phase' = "write" => n' = n + 1
      /\ phase' # "read" /\ image \in Image /\ image' = image /\ format' = format /\ n \in Address
  <2>1. phase' # "read"
    BY <1>1 DEF Advance
  <2> QED
    BY <1>1, <2>1, Looped
<1>3. /\ Len(file) = n - image.low_address
      /\ \A i \in 1 .. Len(file) : file[i] = Byte(image.low_address + i - 1)
  BY <1>1 DEF BinBytes
<1>4. n \in Int /\ image.low_address \in Int
  BY <1>2, ImageConstants DEF Address
<1>5. /\ Len(file) \in Nat /\ Len(file') = Len(file) + 1
      /\ \A i \in 1 .. Len(file) : file'[i] = file[i]
      /\ file'[Len(file) + 1] = Byte(n)
  <2>1. Byte(n) \in Values
    BY <1>2, ByteValue
  <2> QED
    BY <1>1, <2>1
<1>6. image.low_address + (Len(file) + 1) - 1 = n
  BY <1>3, <1>4, <1>5
<1>7. ASSUME NEW i \in 1 .. Len(file) + 1
      PROVE  file'[i] = Byte(image.low_address + i - 1)
  <2>1. CASE i = Len(file) + 1
    BY <1>5, <1>6, <2>1
  <2>2. CASE i # Len(file) + 1
    <3>1. i \in 1 .. Len(file)
      BY <1>5, <2>2
    <3> QED
      BY <1>3, <1>5, <3>1
  <2> QED
    BY <2>1, <2>2
<1>8. phase' = "write" => Len(file') = n' - image'.low_address
  <2>1. PICK l \in Int, m \in Int : l = image.low_address /\ m = n
    BY <1>4
  <2>2. Len(file) = m - l /\ Len(file') = Len(file) + 1
    BY <1>3, <1>5, <2>1
  <2>3. Len(file') = (m + 1) - l
    BY <1>5, <2>1, <2>2
  <2> QED
    BY <1>2, <2>1, <2>3
<1>9. \A i \in 1 .. Len(file') : file'[i] = Byte(image.low_address + i - 1)'
  <2>1. \A i \in 1 .. Len(file') : file'[i] = Byte(image.low_address + i - 1)
    BY <1>5, <1>7
  <2> QED
    BY <1>2, <2>1 DEF Byte, Empty
<1> QED
  BY <1>2, <1>8, <1>9 DEF BinBytes

LEMMA EndWriteBytes ==
  ASSUME Types, BinBytes, EndWrite, format = "bin"
  PROVE  BinBytes'
<1>1. /\ phase = "write" /\ ~InRange /\ phase' = "read" /\ file' = file \o << >>
      /\ address' = image.low_address /\ format' = format /\ image' = image /\ bytes' = bytes
      /\ ImageTypeOK /\ Loop /\ file \in Seq(Values)
  BY DEF EndWrite, Rest, Lines, Types, FileType
<1>2. /\ bytes = << >> /\ image \in Image /\ n \in Address
      /\ n <= image.high_address + 1 \/ n = image.low_address
  BY <1>1 DEF Loop, ImageTypeOK
<1>3. n \in Int /\ image.low_address \in Int /\ image.high_address \in Int
  BY <1>2, ImageConstants DEF Address
<1>4. /\ file' = file /\ Len(file) = n - image.low_address
      /\ \A i \in 1 .. Len(file) : file[i] = Byte(image.low_address + i - 1)
  BY <1>1 DEF BinBytes
<1>5. /\ \/ image.low_address + Len(file) = image.high_address + 1
         \/ image.low_address > image.high_address /\ file = << >>
  <2>1. n > image.high_address
    BY <1>1, <1>3 DEF InRange
  <2>2. CASE n = image.high_address + 1
    BY <1>3, <1>4, <2>2
  <2>3. CASE n = image.low_address
    <3>1. Len(file) = 0
      BY <1>3, <1>4, <2>3
    <3>2. file = << >>
      BY <1>1, <3>1
    <3> QED
      BY <2>1, <2>3, <3>2
  <2> QED
    BY <1>2, <1>3, <2>1, <2>2, <2>3
<1>6. DOMAIN bytes = image.low_address .. image.low_address - 1
  BY <1>2, <1>3
<1>7. \A b \in DOMAIN bytes : bytes[b] = Byte(b)
  BY <1>2
<1>8. \A b : Byte(b)' = Byte(b)
  BY <1>1 DEF Byte, Empty
<1>9. phase' = "read" /\ image'.low_address <= address'
  BY <1>1, <1>3
<1>10. \/ address' + Len(file') = image'.high_address + 1
       \/ address' = image'.low_address /\ address' > image'.high_address /\ file' = << >>
  BY <1>1, <1>4, <1>5
<1>11. \A i \in 1 .. Len(file') : file'[i] = Byte(address' + i - 1)
  BY <1>1, <1>4
<1>12. /\ DOMAIN bytes' = image'.low_address .. address' - 1
       /\ \A b \in DOMAIN bytes' : bytes'[b] = Byte(b)
  BY <1>1, <1>6, <1>7
<1>13. /\ \A i \in 1 .. Len(file') : file'[i] = Byte(address + i - 1)'
       /\ \A b \in DOMAIN bytes' : bytes'[b] = Byte(b)'
  BY <1>1, <1>11, <1>12 DEF Byte, Empty
<1> QED
  BY <1>9, <1>10, <1>12, <1>13 DEF BinBytes

LEMMA ReadBinBytes ==
  ASSUME Types, BinBytes, ReadBin
  PROVE  BinBytes'
<1>1. /\ phase = "read" /\ phase' = "read" /\ format = "bin" /\ file # << >>
      /\ bytes' = Stored(address, <<Head(file)>>) /\ address' = (address + 1) % Space
      /\ file' = Tail(file) /\ format' = format /\ image' = image
      /\ file \in Seq(Values) /\ image \in Image /\ address \in Address
      /\ image.high_address < Space - 1
  BY DEF ReadBin, FileHas, Types, FileType, ImageTypeOK, Loop
<1>2. /\ image.low_address <= address
      /\ address + Len(file) = image.high_address + 1
      /\ \A i \in 1 .. Len(file) : file[i] = Byte(address + i - 1)
      /\ DOMAIN bytes = image.low_address .. address - 1
      /\ \A b \in DOMAIN bytes : bytes[b] = Byte(b)
  BY <1>1 DEF BinBytes
<1>3. /\ Len(file) \in Nat /\ Len(file) >= 1 /\ Tail(file) \in Seq(Values)
      /\ Len(Tail(file)) = Len(file) - 1
      /\ \A i \in 1 .. Len(file) - 1 : Tail(file)[i] = file[i + 1]
      /\ Head(file) = file[1] /\ Head(file) \in Values
  BY <1>1
<1>4. /\ address \in Int /\ 0 <= address /\ image.low_address \in Int /\ image.high_address \in Int
      /\ Space \in Nat /\ Space >= 1
  <2>1. Space \in Nat /\ Space >= 1
    BY ImageNumbers
  <2>2. \A a \in Address : a \in Int /\ 0 <= a
    BY DEF Address
  <2>3. image.low_address \in Address /\ image.high_address \in Address
    BY <1>1, ImageConstants
  <2> QED
    BY <1>1, <2>1, <2>2, <2>3
<1>5. address + 1 < Space
  BY <1>1, <1>2, <1>3, <1>4
<1>6. address' = address + 1
  <2>1. PICK p \in Int : p = address + 1 /\ p \in 0 .. Space - 1
    BY <1>4, <1>5
  <2>2. p % Space = p
    <3>1. PICK s \in Nat \ {0} : s = Space
      BY <1>4
    <3>2. p \in 0 .. s - 1
      BY <2>1, <3>1
    <3>3. p % s = p
      BY <3>2, Around
    <3> QED
      BY <3>1, <3>3
  <2> QED
    BY <1>1, <2>1, <2>2
<1>7. Head(file) = Byte(address)
  <2>1. 1 \in 1 .. Len(file) /\ address + 1 - 1 = address
    BY <1>3, <1>4
  <2>2. file[1] = Byte(address + 1 - 1)
    BY <1>2, <2>1
  <2> QED
    BY <1>3, <2>1, <2>2
<1>8. /\ DOMAIN bytes' = DOMAIN bytes \cup {address} /\ bytes'[address] = Head(file)
      /\ \A b \in DOMAIN bytes : b # address => bytes'[b] = bytes[b]
  <2> DEFINE d == <<Head(file)>>
  <2>1. d \in Short /\ Len(d) = 1 /\ d[1] = Head(file) /\ \A i \in 1 .. 1 : i = 1
    BY <1>3, <1>4 DEF Short
  <2>2. (address + 1 - 1) % Space = address
    <3>1. address \in 0 .. Space - 1 /\ address + 1 - 1 = address
      BY <1>4, <1>5
    <3>2. address % Space = address
      BY <1>4, <3>1, Around
    <3> QED
      BY <3>1, <3>2
  <2>3. 1 \in 1 .. Len(d)
    BY <2>1
  <2> HIDE DEF d
  <2>4. /\ DOMAIN Stored(address, d) = DOMAIN bytes \cup {(address + i - 1) % Space : i \in 1 .. Len(d)}
        /\ \A i \in 1 .. Len(d) : Stored(address, d)[(address + i - 1) % Space] = d[i]
        /\ \A b \in DOMAIN bytes :
             (\A i \in 1 .. Len(d) : (address + i - 1) % Space # b) =>
               Stored(address, d)[b] = bytes[b]
    BY <1>4, <2>1, StoredThere
  <2>5. {(address + i - 1) % Space : i \in 1 .. Len(d)} = {address}
    BY <2>1, <2>2, <2>3
  <2>6. Stored(address, d)[address] = Head(file)
    BY <2>1, <2>2, <2>3, <2>4
  <2>7. ASSUME NEW b \in DOMAIN bytes, b # address
        PROVE  Stored(address, d)[b] = bytes[b]
    <3>1. \A i \in 1 .. Len(d) : (address + i - 1) % Space # b
      BY <2>1, <2>2, <2>7
    <3> QED
      BY <2>4, <3>1
  <2> QED
    BY <1>1, <2>4, <2>5, <2>6, <2>7 DEF d
<1>9. DOMAIN bytes' = image.low_address .. (address + 1) - 1
  BY <1>2, <1>4, <1>8
<1>10. \A b \in DOMAIN bytes' : bytes'[b] = Byte(b)
  BY <1>2, <1>7, <1>8
<1>11. \A i \in 1 .. Len(Tail(file)) : Tail(file)[i] = Byte((address + 1) + i - 1)
  <2>1. SUFFICES ASSUME NEW i \in 1 .. Len(file) - 1
                 PROVE  Tail(file)[i] = Byte((address + 1) + i - 1)
    BY <1>3
  <2>2. i + 1 \in 1 .. Len(file) /\ address + (i + 1) - 1 = (address + 1) + i - 1
    BY <1>3, <1>4
  <2>3. file[i + 1] = Byte(address + (i + 1) - 1)
    BY <1>2, <2>2
  <2> QED
    BY <1>3, <2>2, <2>3
<1>12. image.low_address <= address + 1 /\ (address + 1) + Len(Tail(file)) = image.high_address + 1
  BY <1>2, <1>3, <1>4
<1> QED
  BY <1>1, <1>6, <1>9, <1>10, <1>11, <1>12 DEF BinBytes, Byte, Empty

LEMMA BinNext ==
  ASSUME Types, BinBytes, [ImageNext]_imagevars
  PROVE  BinBytes'
<1>1. format' = format /\ image' = image
  BY FormatStays
<1>2. CASE format # "bin"
  BY <1>1, <1>2 DEF BinBytes
<1>3. CASE format = "bin" /\ UNCHANGED imagevars
  BY <1>1, <1>3 DEF imagevars, writer, BinBytes, Byte, Empty
<1>4. CASE format = "bin" /\ EndRead
  BY <1>4 DEF EndRead, BinBytes
<1>5. CASE format = "bin" /\ (SkipEmpty \/ Gather \/ WriteUf2 \/ WriteWdc \/ ReadLinear \/ ReadLine \/ ReadBlock)
  BY <1>5 DEF SkipEmpty, Gather, WriteUf2, WriteWdc, ReadLinear, ReadLine, ReadBlock, FileHas,
              Writing, Lines
<1> QED
  BY <1>2, <1>3, <1>4, <1>5, WriteBinBytes, EndWriteBytes, ReadBinBytes DEF ImageNext

(* What is read when a file is at its end.                                 *)
LEMMA AllRead ==
  ASSUME Types, GapsLeftOut, Uf2Blocks, BinBytes, phase = "read", file = << >>, Possible
  PROVE  /\ \A a \in Written : a \in DOMAIN bytes /\ bytes[a] = image.bytes[a]
         /\ format \in Lines \cup {"wdc"} => DOMAIN bytes = Written
         /\ format = "bin" => DOMAIN bytes = InFile /\ \A a \in InFile : bytes[a] = Byte(a)
         /\ format = "uf2" => \A a \in DOMAIN bytes : bytes[a] \in {0, Byte(a), Pico}
<1>1. /\ ImageTypeOK /\ image \in Image /\ format \in Format /\ Len(file) = 0 /\ ~TooFar
      /\ address \in Int /\ image.low_address \in Int /\ image.high_address \in Int
  <2>1. ImageTypeOK /\ Len(file) = 0 /\ ~TooFar
    BY DEF Types, Possible
  <2>2. image \in Image /\ address \in Int
    BY <2>1 DEF ImageTypeOK, Address
  <2> QED
    BY <2>1, <2>2, ImageConstants DEF Address, ImageTypeOK
<1>2. \A b \in Written : Byte(b) = image.bytes[b]
  BY DEF Byte, Empty, Written
<1>3. CASE LeavesGaps
  <2>1. Held(file, segment, DOMAIN bytes) /\ BytesRight
    BY <1>1, <1>3 DEF GapsLeftOut
  <2>2. \A b \in Written : b \in DOMAIN bytes
    <3>1. PICK S : \A b \in Written : Holds(file, S, b) \/ b \in DOMAIN bytes
      BY <2>1 DEF Held
    <3>2. \A b : ~Holds(file, S, b)
      BY <1>1 DEF Holds
    <3> QED
      BY <3>1, <3>2
  <2>3. format \notin {"bin", "uf2"}
    BY <1>3 DEF LeavesGaps, Lines
  <2>4. DOMAIN bytes = Written
    BY <2>1, <2>2 DEF BytesRight
  <2> QED
    BY <2>1, <2>3, <2>4 DEF BytesRight
<1>4. CASE format = "uf2"
  <2>1. \A b : ~BlockHolds(file, b)
    BY <1>1 DEF BlockHolds
  <2> QED
    BY <1>4, <2>1 DEF Uf2Blocks, Lines
<1>5. CASE format = "bin"
  <2>1. /\ \/ address = image.high_address + 1
           \/ address = image.low_address /\ address > image.high_address
        /\ DOMAIN bytes = image.low_address .. address - 1
        /\ \A b \in DOMAIN bytes : bytes[b] = Byte(b)
    BY <1>1, <1>5 DEF BinBytes
  <2>2. DOMAIN bytes = InFile
    BY <1>1, <2>1 DEF InFile
  <2>3. Written \subseteq InFile
    BY DEF Written
  <2> QED
    BY <1>2, <1>5, <2>1, <2>2, <2>3 DEF Lines
<1> QED
  BY <1>1, <1>3, <1>4, <1>5 DEF Format, LeavesGaps, Lines

LEMMA BytesAtEnd ==
  ASSUME ImageInv, EndRead
  PROVE  BytesComeBack'
<1>1. /\ phase = "read" /\ file = << >> /\ format' = format /\ image' = image /\ bytes' = bytes
      /\ Types /\ GapsLeftOut /\ Uf2Blocks /\ BinBytes /\ format \in Format
  BY DEF EndRead, ImageInv, Types, ImageTypeOK
<1>2. /\ Possible' = Possible /\ Written' = Written /\ InFile' = InFile
      /\ \A a : Byte(a)' = Byte(a)
  BY <1>1 DEF Possible, TooFar, TooLong, Written, InFile, Byte, Empty
<1>3. ASSUME Possible
      PROVE  /\ \A a \in Written : a \in DOMAIN bytes /\ bytes[a] = image.bytes[a]
             /\ \A a \in DOMAIN bytes \ Written :
                  \/ format = "bin" /\ a \in InFile /\ bytes[a] = 0
                  \/ format = "uf2" /\ bytes[a] \in {0, Byte(a), Pico}
  <2>1. /\ \A a \in Written : a \in DOMAIN bytes /\ bytes[a] = image.bytes[a]
        /\ format \in Lines \cup {"wdc"} => DOMAIN bytes = Written
        /\ format = "bin" => DOMAIN bytes = InFile /\ \A a \in InFile : bytes[a] = Byte(a)
        /\ format = "uf2" => \A a \in DOMAIN bytes : bytes[a] \in {0, Byte(a), Pico}
    BY <1>1, <1>3, AllRead
  <2>2. \A a \in InFile \ Written : Byte(a) = 0
    BY DEF Written, Byte, Empty
  <2>3. CASE format \in Lines \cup {"wdc"}
    BY <2>1, <2>3
  <2>4. CASE format = "bin"
    BY <2>1, <2>2, <2>4
  <2>5. CASE format = "uf2"
    BY <2>1, <2>5
  <2> QED
    BY <1>1, <2>3, <2>4, <2>5 DEF Format, Lines
<1>4. ASSUME Possible'
      PROVE  /\ \A a \in Written' : a \in DOMAIN bytes' /\ bytes'[a] = image'.bytes[a]
             /\ \A a \in DOMAIN bytes' \ Written' :
                  \/ format' = "bin" /\ a \in InFile' /\ bytes'[a] = 0
                  \/ format' = "uf2" /\ bytes'[a] \in {0, Byte(a)', Pico}
  BY <1>1, <1>2, <1>3, <1>4
<1> QED
  BY <1>4 DEF BytesComeBack, Possible

(* The lowest and the highest address of a set. *)
LEMMA EndsOf ==
  ASSUME NEW S \in SUBSET Int, NEW lo \in S, NEW hi \in S, \A b \in S : lo <= b /\ b <= hi
  PROVE  lo <= hi /\ Ends(S) = {lo, hi}
<1>1. lo \in Int /\ hi \in Int /\ lo <= hi
  OBVIOUS
<1>2. ASSUME NEW a \in S, \A b \in S : a <= b
      PROVE  a = lo
  <2>1. a <= lo /\ lo <= a /\ a \in Int
    BY <1>2
  <2> QED
    BY <1>1, <2>1
<1>3. ASSUME NEW a \in S, \A b \in S : b <= a
      PROVE  a = hi
  <2>1. a <= hi /\ hi <= a /\ a \in Int
    BY <1>3
  <2> QED
    BY <1>1, <2>1
<1>4. Ends(S) \subseteq {lo, hi}
  BY <1>2, <1>3 DEF Ends
<1>5. lo \in Ends(S) /\ hi \in Ends(S)
  BY DEF Ends
<1> QED
  BY <1>1, <1>4, <1>5

(* The int of an address comes back as the address. *)
LEMMA SignedBack ==
  ASSUME NEW a \in Address
  PROVE  Signed(a) % Space = a
<1>1. PICK s \in Nat \ {0} : s = Space
  BY ImageNumbers
<1>2. a \in Int /\ a \in 0 .. s - 1
  BY <1>1 DEF Address
<1>3. a % s = a /\ (a - s) % s = a
  <2>1. a - s \in -s .. -1 /\ a - s \in Int
    BY <1>1, <1>2
  <2>2. (a - s) % s = (a - s) + s
    BY <2>1, Around
  <2>3. (a - s) + s = a
    BY <1>1, <1>2
  <2> QED
    BY <1>2, <2>2, <2>3, Around
<1>4. Signed(a) = a \/ Signed(a) = a - s
  <2>1. a % Space = a
    BY <1>1, <1>3
  <2> QED
    BY <1>1, <2>1 DEF Signed
<1>5. CASE Signed(a) = a
  BY <1>1, <1>3, <1>5
<1>6. CASE Signed(a) = a - s
  BY <1>1, <1>3, <1>6
<1> QED
  BY <1>4, <1>5, <1>6

LEMMA RangeAtEnd ==
  ASSUME ImageInv, EndRead
  PROVE  RangeComesBack'
<1>1. /\ phase = "read" /\ file = << >> /\ format' = format /\ image' = image
      /\ Types /\ GapsLeftOut /\ Uf2Blocks /\ BinBytes /\ Ranges /\ format \in Format
      /\ image \in Image /\ address \in Int /\ image.high_address < Space - 1
  <2>1. address \in Address => address \in Int
    BY DEF Address
  <2> QED
    BY <2>1 DEF EndRead, ImageInv, Types, ImageTypeOK, Loop
<1>2. /\ Possible' = Possible /\ Written' = Written /\ InFile' = InFile
      /\ CrossesSign' = CrossesSign /\ Ends(InFile)' = Ends(InFile)
      /\ Ends(Written)' = Ends(Written)
  BY <1>1 DEF Possible, TooFar, TooLong, Written, InFile, CrossesSign, Ends
<1>3. /\ Written \subseteq Int /\ InFile \subseteq Int /\ Written \subseteq Address
      /\ image.low_address \in Int /\ image.high_address \in Int
      /\ image.low_address >= 0
  BY <1>1, ImageConstants DEF Address
<1>4. ASSUME Possible, Written # {}, format \in Lines, ~CrossesSign
      PROVE  /\ low_address' <= high_address'
             /\ {low_address', high_address'} = Ends(Written)
  <2>1. DOMAIN bytes = Written
    BY <1>1, <1>4, AllRead
  <2>2. ~TooFar
    BY <1>4 DEF Possible
  <2>3. PICK lo \in DOMAIN bytes, hi \in DOMAIN bytes :
          Bounds(lo, hi) /\ start = Signed(lo) /\ end = Signed(hi)
    BY <1>1, <1>4, <2>1, <2>2 DEF Ranges
  <2>4. lo \in Address /\ hi \in Address
    BY <1>3, <2>1
  <2>5. low_address' = start % Space /\ high_address' = end % Space
    BY <1>4 DEF EndRead, Lines
  <2>6. low_address' = lo /\ high_address' = hi
    BY <2>3, <2>4, <2>5, SignedBack
  <2>7. \A b \in Written : lo <= b /\ b <= hi
    BY <2>1, <2>3 DEF Bounds
  <2> QED
    BY <1>3, <2>1, <2>6, <2>7, EndsOf
<1>5. ASSUME Possible, Written # {}, format = "wdc"
      PROVE  /\ low_address' <= high_address'
             /\ {low_address', high_address'} = Ends(Written)
  <2>1. DOMAIN bytes = Written
    BY <1>1, <1>5, AllRead
  <2>2. ~TooFar
    BY <1>5 DEF Possible
  <2>3. Bounds(low_address, high_address)
    BY <1>1, <1>5, <2>1, <2>2 DEF Ranges
  <2>4. low_address' = low_address /\ high_address' = high_address
    BY <1>5 DEF EndRead, Lines, range
  <2>5. /\ low_address \in Written /\ high_address \in Written
        /\ \A b \in Written : low_address <= b /\ b <= high_address
    BY <2>1, <2>3 DEF Bounds
  <2> QED
    BY <1>3, <2>4, <2>5, EndsOf
<1>6. ASSUME Written # {}, format = "bin"
      PROVE  /\ low_address' <= high_address'
             /\ {low_address', high_address'} = Ends(InFile)
  <2>1. PICK b \in Written : image.low_address <= b /\ b <= image.high_address /\ b \in Int
    BY <1>3, <1>6 DEF Written, InFile
  <2>2. /\ image.low_address \in InFile /\ image.high_address \in InFile
        /\ \A c \in InFile : image.low_address <= c /\ c <= image.high_address
    BY <1>3, <2>1 DEF InFile
  <2>3. address - 1 = image.high_address
    <3>1. /\ \/ address + Len(file) = image.high_address + 1
             \/ address = image.low_address /\ address > image.high_address
    BY <1>1, <1>6 DEF BinBytes
    <3>2. Len(file) = 0
      BY <1>1
    <3> QED
      BY <1>1, <1>3, <2>1, <3>1, <3>2
  <2>4. high_address' = image.high_address
    <3>1. PICK s \in Nat \ {0} : s = Space
      BY ImageNumbers
    <3>2. image.high_address \in 0 .. s - 1
      BY <1>1, <1>3, <2>1, <3>1
    <3>3. image.high_address % s = image.high_address
      BY <3>2, Around
    <3>4. high_address' = (address - 1) % Space
      BY <1>6 DEF EndRead, Lines
    <3> QED
      BY <2>3, <3>1, <3>3, <3>4
  <2>5. low_address' = image.low_address
    BY <1>6 DEF EndRead, Lines
  <2> QED
    BY <1>3, <2>2, <2>4, <2>5, EndsOf
<1>7. format \in Lines \/ format = "wdc" \/ format = "bin" \/ format = "uf2"
  BY <1>1 DEF Format, Lines
<1>8. ASSUME format # "uf2", Possible, Written # {}, ~(format \in Lines /\ CrossesSign)
      PROVE  /\ low_address' <= high_address'
             /\ {low_address', high_address'} =
                  IF format = "bin" THEN Ends(InFile) ELSE Ends(Written)
  BY <1>4, <1>5, <1>6, <1>7, <1>8 DEF Lines
<1>9. ASSUME format' # "uf2", Possible', Written' # {}, ~(format' \in Lines /\ CrossesSign')
      PROVE  /\ low_address' <= high_address'
             /\ {low_address', high_address'} =
                  IF format' = "bin" THEN Ends(InFile)' ELSE Ends(Written)'
  BY <1>1, <1>2, <1>8, <1>9
<1> QED
  BY <1>9 DEF RangeComesBack, Possible

(* A file is rejected for its sums, or for the address a reader returns.   *)
LEMMA AcceptedNext ==
  ASSUME ImageInv, [ImageNext]_imagevars
  PROVE  FilesAccepted'
<1>1. format' = format /\ image' = image /\ Written' = Written
  <2>1. format' = format /\ image' = image
    BY FormatStays
  <2> QED
    BY <2>1 DEF Written, InFile
<1>2. /\ Types /\ Blocks /\ FilesAccepted /\ ImageTypeOK /\ format \in Format
      /\ LeavesGaps => RecordsRight(file)
  BY DEF ImageInv, Types, ImageTypeOK
<1>3. CASE UNCHANGED imagevars
  BY <1>1, <1>2, <1>3 DEF FilesAccepted, imagevars
<1>4. CASE SkipEmpty \/ Gather \/ WriteBin \/ WriteWdc \/ WriteUf2 \/ EndWrite \/ ReadBin \/ ReadBlock
  BY <1>4 DEF SkipEmpty, Gather, WriteBin, WriteWdc, WriteUf2, Writing, Advance, EndWrite,
              ReadBin, ReadBlock, FileHas, FilesAccepted
<1>5. CASE ReadLinear
  <2>1. format = "hex" /\ file # << >> /\ Head(file).kind = "linear"
    BY <1>5 DEF ReadLinear, FileHas
  <2>2. file \in Seq(Item) /\ RecordsRight(file)
    BY <1>2, <2>1, RecordOf DEF LeavesGaps, Lines
  <2>3. RecordRight(Head(file))
    BY <2>1, <2>2, RightTaken
  <2>4. phase' = "read"
    BY <1>5, <2>1, <2>3 DEF ReadLinear, RecordRight, SumRight
  <2> QED
    BY <2>4 DEF FilesAccepted
<1>6. CASE ReadLine /\ format \in {"hex", "srec32"}
  <2>1. file # << >> /\ Head(file).kind = "data"
    BY <1>6 DEF ReadLine, FileHas
  <2>2. file \in Seq(Item) /\ RecordsRight(file)
    BY <1>2, <1>6, <2>1, RecordOf DEF LeavesGaps, Lines
  <2>3. SumRight(Head(file))
    BY <1>6, <2>1, <2>2, RightTaken DEF RecordRight
  <2>4. phase' = "read"
    BY <1>6, <2>1, <2>3 DEF ReadLine, SumRight
  <2> QED
    BY <2>4 DEF FilesAccepted
<1>7. CASE ReadLine /\ format \notin {"hex", "srec32"}
  BY <1>1, <1>7 DEF ReadLine, FileHas, Lines, FilesAccepted
<1>8. CASE EndRead /\ format \notin {"bin", "wdc"}
  <2>1. Returned = 0 /\ Returned >= 0
    BY <1>8 DEF Returned
  <2>2. phase' = "loaded"
    BY <1>8, <2>1 DEF EndRead
  <2> QED
    BY <2>2 DEF FilesAccepted
<1>9. CASE EndRead /\ format = "wdc" /\ Written # {}
  <2>1. low_address < Reach /\ low_address \in Address
    BY <1>2, <1>9 DEF EndRead, Blocks, ImageTypeOK
  <2>2. low_address \in Int /\ low_address >= 0 /\ ~(low_address >= Space \div 2)
    BY <2>1, HalfSpace, ImageNumbers DEF Address
  <2>3. Signed(low_address) = low_address
    BY <2>1, <2>2, SignedValue
  <2>4. Returned >= 0
    BY <1>9, <2>2, <2>3 DEF Returned
  <2>5. phase' = "loaded"
    BY <1>9, <2>4 DEF EndRead
  <2> QED
    BY <2>5 DEF FilesAccepted
<1>10. CASE EndRead /\ (format = "bin" \/ (format = "wdc" /\ Written = {}))
  BY <1>1, <1>10 DEF FilesAccepted
<1> QED
  BY <1>3, <1>4, <1>5, <1>6, <1>7, <1>8, <1>9, <1>10 DEF ImageNext

LEMMA ImageInvInit == ImageInit => ImageInv
<1> SUFFICES ASSUME ImageInit PROVE ImageInv
  OBVIOUS
<1>1. phase = "write"
  BY DEF ImageInit
<1>2. BytesComeBack /\ RangeComesBack /\ FilesAccepted
  BY <1>1 DEF BytesComeBack, RangeComesBack, FilesAccepted
<1> QED
  BY <1>2, TypesInit, GapsInit, RangesInit, Uf2Init, BinInit DEF ImageInv

LEMMA ImageInvNext == ImageInv /\ [ImageNext]_imagevars => ImageInv'
<1> SUFFICES ASSUME ImageInv, [ImageNext]_imagevars PROVE ImageInv'
  OBVIOUS
<1>1. Types' /\ GapsLeftOut' /\ Blocks' /\ Ranges' /\ Uf2Blocks' /\ BinBytes'
  BY TypesNext, GapsNext, BlocksNext, RangesNext, Uf2Next, BinNext DEF ImageInv
<1>2. FilesAccepted'
  BY AcceptedNext
<1>3. CASE EndRead
  BY <1>1, <1>2, <1>3, BytesAtEnd, RangeAtEnd DEF ImageInv
<1>4. CASE UNCHANGED imagevars
  <2>1. BytesComeBack' /\ RangeComesBack'
    BY <1>4 DEF ImageInv, BytesComeBack, RangeComesBack, TooFar, TooLong, CrossesSign, Ends,
                Written, InFile, Byte, Empty, imagevars, range
  <2> QED
    BY <1>1, <1>2, <2>1 DEF ImageInv
<1>5. CASE ImageNext /\ ~EndRead
  <2>1. phase' # "loaded"
    BY <1>5 DEF ImageNext, SkipEmpty, Gather, WriteBin, WriteWdc, WriteUf2, Writing, Advance,
                EndWrite, ReadLinear, ReadLine, ReadBin, ReadBlock, FileHas
  <2>2. BytesComeBack' /\ RangeComesBack'
    BY <2>1 DEF BytesComeBack, RangeComesBack
  <2> QED
    BY <1>1, <1>2, <2>2 DEF ImageInv
<1> QED
  BY <1>3, <1>4, <1>5

LEMMA ImageInvAlways == ImageSpec => []ImageInv
<1>1. ImageInit => ImageInv
  BY ImageInvInit
<1>2. ImageInv /\ [ImageNext]_imagevars => ImageInv'
  BY ImageInvNext
<1> QED
  BY <1>1, <1>2, PTL DEF ImageSpec

(* Whatever the image, its range and the format, what the writers and      *)
(* readers of files keep is of its type, and no open record is longer than *)
(* its format has room for: a line of hex or S-records is written before   *)
(* it is longer than LineLength (write_hex.cpp:72), a block of wdc before  *)
(* its length is more than two bytes have room for (write_wdc.cpp:42).     *)
THEOREM ImageTypesCorrect == ImageSpec => []ImageTypeOK
<1>1. ImageInv => ImageTypeOK
  BY DEF ImageInv, Types
<1> QED
  BY <1>1, ImageInvAlways, PTL

(* Whatever the image, the bytes naken_asm wrote are in the memory of      *)
(* naken_util, each where it was, and nothing else but what bin and uf2    *)
(* fill gaps with (write_hex.cpp:72, read_hex.cpp:62, write_uf2.cpp).      *)
THEOREM ImageBytesComeBack == ImageSpec => []BytesComeBack
<1>1. ImageInv => BytesComeBack
  BY DEF ImageInv
<1> QED
  BY <1>1, ImageInvAlways, PTL

(* Whatever the image, the range naken_util finds in a file is that of the *)
(* bytes in it, where it does not cross the sign of read_hex()'s           *)
(* comparisons (read_hex.cpp:110).                                         *)
THEOREM ImageRangeComesBack == ImageSpec => []RangeComesBack
<1>1. ImageInv => RangeComesBack
  BY DEF ImageInv
<1> QED
  BY <1>1, ImageInvAlways, PTL

(* Whatever the image, naken_util accepts what naken_asm wrote as hex,     *)
(* wdc, uf2 and S3 lines: the checksums agree (read_hex.cpp:170).          *)
THEOREM ImageFilesAccepted == ImageSpec => []FilesAccepted
<1>1. ImageInv => FilesAccepted
  BY DEF ImageInv
<1> QED
  BY <1>1, ImageInvAlways, PTL

----------------------------------------------------------------------------

Oper == Binary \X (1 .. MaxTokens)
Wide == [values : Seq(Value), opers : Seq(Oper), count : Nat, unary : Value]

Even(f) == Len(f.values) = Len(f.opers)

(* k values and m operators. *)
Sound(f) ==
  \E k, m \in 0 .. 2 :
    /\ Len(f.values) = k /\ Len(f.opers) = m
    /\ k = m \/ k = m + 1
    /\ f.count = k + m
    /\ f.unary # << >> => k = m

Calls(calls) ==
  /\ calls \in Seq(Frame) /\ calls # << >>
  /\ \A i \in DOMAIN calls : Sound(calls[i])
  /\ \A i \in 1 .. Len(calls) - 1 : Even(calls[i])

(* The calls below the last one wait for it. *)
IInv ==
  /\ TypeOK
  /\ AssertionsHold
  /\ Calls(frames)
  /\ next # "none" => src # << >>

----------------------------------------------------------------------------

LEMMA FrameIsWide == \A f \in Frame : f \in Wide
BY DEF Frame, Wide, Oper

LEMMA ApplyType ==
  ASSUME NEW d \in Value, NEW s \in Value, NEW oper \in Oper
  PROVE  Apply(d, s, oper) \in Value
<1>1. oper \in Symbol
  BY DEF Oper, Symbol, Tokens
<1> QED
  BY <1>1 DEF Apply, Value

(* The two ways to replace two neighbours of a short sequence by one value. *)
LEMMA ShorterByOne ==
  ASSUME NEW S, NEW s \in Seq(S), NEW v \in S, NEW k \in 2 .. 3, Len(s) = k
  PROVE  /\ s[1] \in S /\ s[2] \in S /\ s[k - 1] \in S /\ s[k] \in S
         /\ Append(SubSeq(s, 1, k - 2), v) \in Seq(S)
         /\ Len(Append(SubSeq(s, 1, k - 2), v)) = k - 1
         /\ <<v>> \o SubSeq(s, 3, k) \in Seq(S)
         /\ Len(<<v>> \o SubSeq(s, 3, k)) = k - 1
OBVIOUS

(* One operator and one value are gone. *)
LEMMA ExecuteStep ==
  ASSUME NEW f \in Wide, NEW k \in 2 .. 3, NEW m \in 1 .. 2,
         Len(f.values) = k, Len(f.opers) = m
  PROVE  /\ Execute(f) \in Wide
         /\ Len(Execute(f).values) = k - 1 /\ Len(Execute(f).opers) = m - 1
         /\ Execute(f).count = f.count /\ Execute(f).unary = f.unary
<1>1. f.values \in Seq(Value) /\ f.opers \in Seq(Oper)
  BY DEF Wide
<1>2. \A v \in Value :
        /\ Append(SubSeq(f.values, 1, k - 2), v) \in Seq(Value)
        /\ Len(Append(SubSeq(f.values, 1, k - 2), v)) = k - 1
        /\ <<v>> \o SubSeq(f.values, 3, k) \in Seq(Value)
        /\ Len(<<v>> \o SubSeq(f.values, 3, k)) = k - 1
  BY <1>1, ShorterByOne
<1>3. /\ f.values[1] \in Value /\ f.values[2] \in Value
      /\ f.values[k - 1] \in Value /\ f.values[k] \in Value
  <2>1. << >> \in Value
    BY DEF Value
  <2> QED
    BY <1>1, <2>1, ShorterByOne
<1>4. f.opers[1] \in Oper /\ (m = 2 => f.opers[2] \in Oper)
  BY <1>1
<1>5. CASE TakeLast(f)
  <2>1. m = 2
    BY <1>5 DEF TakeLast
  <2> DEFINE v == Apply(f.values[k - 1], f.values[k], f.opers[2])
             values == Append(SubSeq(f.values, 1, k - 2), v)
             opers == <<f.opers[1]>>
  <2>2. v \in Value
    BY <1>3, <1>4, <2>1, ApplyType
  <2>3. values \in Seq(Value) /\ Len(values) = k - 1
    BY <1>2, <2>2
  <2>4. opers \in Seq(Oper) /\ Len(opers) = m - 1
    BY <1>4, <2>1
  <2>5. Execute(f) = Call(values, opers, f.count, f.unary)
    BY <1>5 DEF Execute
  <2> HIDE DEF values, opers
  <2> QED
    BY <2>3, <2>4, <2>5 DEF Call, Wide
<1>6. CASE ~TakeLast(f)
  <2> DEFINE v == Apply(f.values[1], f.values[2], f.opers[1])
             values == <<v>> \o SubSeq(f.values, 3, k)
             opers == Tail(f.opers)
  <2>1. v \in Value
    BY <1>3, <1>4, ApplyType
  <2>2. values \in Seq(Value) /\ Len(values) = k - 1
    BY <1>2, <2>1
  <2>3. opers \in Seq(Oper) /\ Len(opers) = m - 1
    BY <1>1
  <2>4. Execute(f) = Call(values, opers, f.count, f.unary)
    BY <1>6 DEF Execute, WithoutFirst
  <2> HIDE DEF values, opers
  <2> QED
    BY <2>2, <2>3, <2>4 DEF Call, Wide
<1> QED
  BY <1>5, <1>6

(* A waiting call that gets its value waits no more. *)
LEMMA ReceivedStep ==
  ASSUME NEW f \in Frame, Sound(f), Even(f), NEW value \in Value
  PROVE  Received(f, value) \in Frame /\ Sound(Received(f, value))
<1> DEFINE g == Call(Append(f.values, value), f.opers, f.count + 1, << >>)
<1>1. f.values \in Seq(Value) /\ f.opers \in Seq(Oper) /\ f.count \in 0 .. 4
  BY DEF Frame, Oper
<1>2. PICK k \in 0 .. 2 : Len(f.values) = k /\ Len(f.opers) = k /\ f.count = k + k
  BY DEF Sound, Even
<1>3. /\ g.values = Append(f.values, value) /\ g.opers = f.opers
      /\ g.count = k + k + 1 /\ g.unary = << >>
  BY <1>2 DEF Call
<1>4. g.values \in Seq(Value) /\ Len(g.values) = k + 1
  <2>1. Append(f.values, value) \in Seq(Value) /\ Len(Append(f.values, value)) = Len(f.values) + 1
    BY <1>1
  <2> QED
    BY <2>1, <1>2, <1>3
<1>5. g \in Wide
  <2>1. << >> \in Value /\ k + k + 1 \in Nat
    BY DEF Value
  <2> QED
    BY <1>1, <1>2, <1>3, <1>4, <2>1 DEF Wide, Call
<1> HIDE DEF g
<1>6. CASE k \in 0 .. 1
  <2>1. Received(f, value) = g
    BY <1>4, <1>6 DEF Received, g
  <2>2. g \in Frame
    BY <1>3, <1>5, <1>6 DEF Wide, Frame, Oper
  <2>3. Len(g.values) = k + 1 /\ Len(g.opers) = k
    BY <1>2, <1>3, <1>4
  <2>4. Sound(g)
    <3>1. k + 1 \in 0 .. 2 /\ k \in 0 .. 2 /\ k + k + 1 = (k + 1) + k
      BY <1>6
    <3> QED
      BY <1>3, <2>3, <3>1 DEF Sound
  <2> QED
    BY <2>1, <2>2, <2>4
<1>7. CASE k = 2
  <2> DEFINE e == Execute(g)
             h == Call(e.values, e.opers, e.count - 2, e.unary)
  <2>1. Received(f, value) = h
    <3>1. ~(Len(g.values) < 3)
      BY <1>4, <1>7
    <3> QED
      BY <3>1, Zenon DEF Received, g
  <2>2. /\ e \in Wide
        /\ Len(e.values) = 2 /\ Len(e.opers) = 1
        /\ e.count = 5 /\ e.unary = << >>
    <3>1. Len(g.values) = 3 /\ Len(g.opers) = 2 /\ g.count = 5
      BY <1>2, <1>3, <1>4, <1>7
    <3>2. /\ e \in Wide
          /\ Len(e.values) = 3 - 1 /\ Len(e.opers) = 2 - 1
          /\ e.count = g.count /\ e.unary = g.unary
      <4>1. 3 \in 2 .. 3 /\ 2 \in 1 .. 2
        OBVIOUS
      <4> QED
        BY <1>5, <3>1, <4>1, ExecuteStep
    <3> QED
      BY <1>3, <3>1, <3>2
  <2> HIDE DEF e
  <2>3. /\ h \in Frame /\ h.count = 3 /\ h.unary = << >>
        /\ h.values = e.values /\ h.opers = e.opers
    BY <2>2 DEF Wide, Frame, Oper, Call
  <2> HIDE DEF h
  <2>4. Sound(h)
    <3>1. 2 \in 0 .. 2 /\ 1 \in 0 .. 2 /\ 2 = 1 + 1 /\ 3 = 2 + 1
      OBVIOUS
    <3> QED
      BY <2>2, <2>3, <3>1 DEF Sound
  <2> QED
    BY <2>1, <2>3, <2>4
<1> QED
  BY <1>6, <1>7

----------------------------------------------------------------------------

(* The last of the calls becomes another frame. *)
LEMMA LastReplaced ==
  ASSUME NEW calls, Calls(calls), NEW g \in Frame, Sound(g)
  PROVE  Calls([calls EXCEPT ![Len(calls)] = g])
<1> DEFINE h == [calls EXCEPT ![Len(calls)] = g]
<1>1. calls \in Seq(Frame) /\ Len(calls) \in Nat \ {0}
  BY DEF Calls
<1>2. h \in Seq(Frame) /\ Len(h) = Len(calls) /\ h # << >>
  BY <1>1
<1>3. \A i \in DOMAIN h : h[i] = IF i = Len(calls) THEN g ELSE calls[i]
  BY <1>1
<1>4. DOMAIN h = 1 .. Len(calls) /\ DOMAIN calls = 1 .. Len(calls)
  BY <1>1
<1> HIDE DEF h
<1>5. \A i \in DOMAIN h : Sound(h[i])
  BY <1>3, <1>4 DEF Calls
<1>6. \A i \in 1 .. Len(h) - 1 : Even(h[i])
  <2> TAKE i \in 1 .. Len(h) - 1
  <2> DEFINE k == Len(calls)
  <2>0. k \in Nat /\ i \in 1 .. k - 1
    BY <1>1, <1>2
  <2>1. i \in DOMAIN h /\ i # k /\ i \in 1 .. k - 1
    <3> HIDE DEF k
    <3>1. i \in 1 .. k /\ i # k
      BY <2>0
    <3> QED
      BY <1>4, <2>0, <3>1 DEF k
  <2> QED
    BY <1>3, <2>1 DEF Calls
<1> QED
  BY <1>2, <1>5, <1>6 DEF Calls, h

(* The first calls, when the others are left. *)
LEMMA CallsLeft ==
  ASSUME NEW calls, Calls(calls), NEW k \in 1 .. Len(calls)
  PROVE  /\ Calls(SubSeq(calls, 1, k))
         /\ Len(SubSeq(calls, 1, k)) = k
         /\ SubSeq(calls, 1, k)[k] = calls[k]
<1> DEFINE h == SubSeq(calls, 1, k)
<1>1. calls \in Seq(Frame) /\ Len(calls) \in Nat \ {0} /\ k \in Nat \ {0}
  BY DEF Calls
<1>2. h \in Seq(Frame) /\ Len(h) = k /\ h # << >> /\ DOMAIN h = 1 .. k
  BY <1>1
<1>3. \A i \in 1 .. k : h[i] = calls[i] /\ i \in DOMAIN calls
  BY <1>1
<1> HIDE DEF h
<1>4. \A i \in 1 .. k - 1 : i \in 1 .. k /\ i \in 1 .. Len(calls) - 1
  BY <1>1
<1>5. Calls(h)
  BY <1>2, <1>3, <1>4 DEF Calls
<1> QED
  BY <1>1, <1>2, <1>3, <1>5 DEF h

(* A value for a call that waits for one fails no assertion. *)
LEMMA ReceiveStep ==
  ASSUME NEW calls, Calls(calls), Even(calls[Len(calls)]),
         NEW value \in Value, Receive(calls, value)
  PROVE  Calls(frames') /\ status' = status
<1> DEFINE f == calls[Len(calls)]
<1>1. f \in Frame /\ Sound(f) /\ Even(f)
  BY DEF Calls
<1>2. ~(Len(f.values) >= 2 /\ Len(f.opers) # 2)
  BY <1>1 DEF Sound, Even
<1>3. /\ frames' = [calls EXCEPT ![Len(calls)] = Received(f, value)]
      /\ status' = status
  BY <1>2 DEF Receive
<1>4. Received(f, value) \in Frame /\ Sound(Received(f, value))
  BY <1>1, ReceivedStep
<1> QED
  BY <1>3, <1>4, LastReplaced

LEMMA ReversedType == \A s \in Value : Reversed(s) \in Value
<1> SUFFICES ASSUME NEW s \in Value PROVE Reversed(s) \in Value
  OBVIOUS
<1> DEFINE k == Len(s)
<1>1. k \in Nat /\ DOMAIN s = 1 .. k /\ \A i \in 1 .. k : s[i] \in Symbol
  BY DEF Value
<1> HIDE DEF k
<1>2. \A i \in 1 .. k : k + 1 - i \in 1 .. k
  BY <1>1
<1>3. \A i \in 1 .. k : s[k + 1 - i] \in Symbol
  BY <1>1, <1>2
<1>4. Reversed(s) = [i \in 1 .. k |-> s[k + 1 - i]]
  BY <1>1 DEF Reversed, k
<1>5. Reversed(s) \in [1 .. k -> Symbol]
  BY <1>3, <1>4
<1> QED
  BY <1>1, <1>5, SeqDef DEF Value

LEMMA ValuesJoin ==
  ASSUME NEW a \in Value, NEW b \in Value
  PROVE  a \o b \in Value
BY DEF Value

LEMMA ValuesOfSymbols ==
  ASSUME NEW a \in Symbol, NEW b \in Symbol
  PROVE  <<a>> \in Value /\ <<a, b>> \in Value
BY DEF Value

(* A call that has a value has an answer. *)
LEMMA ResultType ==
  ASSUME NEW f \in Frame, Sound(f), f.values # << >>
  PROVE  Result(f) \in Value
<1>1. f \in Wide /\ f.values \in Seq(Value) /\ f.opers \in Seq(Oper)
  BY FrameIsWide DEF Wide
<1>2. PICK k, m \in 0 .. 2 : Len(f.values) = k /\ Len(f.opers) = m
  BY DEF Sound
<1>3. k \in 1 .. 2
  BY <1>1, <1>2
<1>4. CASE Len(f.values) = 2 /\ f.opers # << >>
  <2>1. k = 2 /\ m \in 1 .. 2
    BY <1>1, <1>2, <1>4
  <2>2. Execute(f) \in Wide /\ Len(Execute(f).values) = 2 - 1
    <3>1. 2 \in 2 .. 3 /\ Len(f.values) = 2 /\ f \in Wide /\ Len(f.opers) = m
      BY <1>1, <1>2, <1>4
    <3> QED
      BY <2>1, <3>1, ExecuteStep
  <2>3. Execute(f).values \in Seq(Value) /\ Len(Execute(f).values) = 1
    BY <2>2 DEF Wide
  <2>4. Execute(f).values[1] \in Value
    BY <2>3
  <2>5. Result(f) = Execute(f).values[Len(Execute(f).values)]
    BY <1>4 DEF Result
  <2> QED
    BY <2>3, <2>4, <2>5
<1>5. CASE ~(Len(f.values) = 2 /\ f.opers # << >>)
  <2>1. Result(f) = f.values[Len(f.values)]
    BY <1>5 DEF Result
  <2>2. f.values[k] \in Value
    BY <1>1, <1>2, <1>3
  <2> QED
    BY <1>2, <2>1, <2>2
<1> QED
  BY <1>4, <1>5

(* What reading a token does to the source. *)
LEMMA Reads ==
  ASSUME IInv, NEW t \in Tokens, Get(t)
  PROVE  /\ status = "running"
         /\ src' \in Seq(Token) /\ Len(src') \in 1 .. MaxTokens /\ src' # << >>
<1>1. /\ src \in Seq(Token) /\ Len(src) \in Nat /\ Len(src) <= MaxTokens
      /\ MaxTokens \in Nat
  BY ExpressionsAssumption DEF IInv, TypeOK
<1>2. CASE next = "none" /\ Len(src) < MaxTokens /\ src' = Append(src, t)
  <2>1. src' \in Seq(Token) /\ Len(src') = Len(src) + 1 /\ src' # << >>
    BY <1>1, <1>2 DEF Get
  <2> QED
    BY <1>1, <1>2, <2>1 DEF Get
<1>3. CASE next = t /\ UNCHANGED src
  <2>1. t # "none"
    BY DEF Tokens, Binary, Unary, Prec
  <2>2. src # << >>
    BY <1>3, <2>1 DEF IInv
  <2> QED
    BY <1>1, <1>3, <2>2 DEF Get
<1> QED
  BY <1>2, <1>3 DEF Get

(* The symbol of the token that was read. *)
LEMMA SymType ==
  ASSUME Len(src') \in 1 .. MaxTokens,
         NEW s \in Tokens \cup {"zero", "neg", "not"}
  PROVE  Sym(s) \in Symbol
BY DEF Sym, Symbol

----------------------------------------------------------------------------

(* The part of the invariant that does not speak of the source. *)
Goes ==
  /\ Calls(frames)
  /\ status \in {"running", "ok", "failed"}
  /\ answer \in Value
  /\ sloppy \in BOOLEAN

LEMMA GoesOn == IInv => Goes
BY DEF IInv, TypeOK, AssertionsHold, Goes

(* Only a waiting call has unary operators. *)
LEMMA UnaryWaits ==
  ASSUME NEW f \in Frame, Sound(f), f.unary # << >>
  PROVE  Even(f) /\ f.unary[1] \in Symbol
<1>1. Even(f)
  BY DEF Sound, Even
<1>2. f.unary \in Seq(Symbol)
  BY DEF Frame, Value
<1> QED
  BY <1>1, <1>2

LEMMA FailStep ==
  ASSUME Goes, Fail, Len(src') \in 1 .. MaxTokens
  PROVE  Goes'
<1>1. CASE Waiting = {}
  <2>1. status' = "failed" /\ UNCHANGED <<frames, sloppy, answer>>
    BY <1>1 DEF Fail
  <2> QED
    BY <2>1 DEF Goes, Calls, Sound, Even
<1>2. CASE Waiting # {}
  <2>1. PICK i \in Waiting :
          Receive(SubSeq(frames, 1, i), <<Sym("zero"), frames[i].unary[1]>>)
    BY <1>2 DEF Fail
  <2>2. sloppy' = TRUE /\ answer' = answer
    BY <1>2 DEF Fail
  <2>3. /\ i \in 1 .. Len(frames) /\ frames[i] \in Frame /\ Sound(frames[i])
        /\ frames[i].unary # << >>
    BY DEF Waiting, Goes, Calls
  <2>4. Even(frames[i]) /\ frames[i].unary[1] \in Symbol
    BY <2>3, UnaryWaits
  <2> DEFINE left == SubSeq(frames, 1, i)
  <2>5. Calls(left) /\ left[Len(left)] = frames[i]
    BY <2>3, CallsLeft DEF Goes
  <2>6. <<Sym("zero"), frames[i].unary[1]>> \in Value
    BY <2>4, SymType, ValuesOfSymbols
  <2>7. Calls(frames') /\ status' = status
    <3> HIDE DEF left
    <3>1. Even(left[Len(left)])
      BY <2>4, <2>5
    <3>2. Receive(left, <<Sym("zero"), frames[i].unary[1]>>)
      BY <2>1 DEF left
    <3> QED
      BY <2>5, <2>6, <3>1, <3>2, ReceiveStep
  <2> QED
    BY <2>2, <2>7 DEF Goes
<1> QED
  BY <1>1, <1>2

LEMMA TopSound ==
  ASSUME Goes
  PROVE  Top \in Frame /\ Sound(Top)
BY DEF Goes, Calls, Top

LEMMA ReturnStep ==
  ASSUME Goes, NEW closed \in BOOLEAN, Return(closed), Len(src') \in 1 .. MaxTokens
  PROVE  Goes'
<1>1. CASE Top.values = << >>
  BY <1>1, FailStep DEF Return
<1>2. CASE Top.values # << >>
  <2>1. Result(Top) \in Value
    BY <1>2, TopSound, ResultType
  <2>2. sloppy' \in BOOLEAN
    BY <1>2 DEF Return
  <2>3. CASE IsParen
    <3> DEFINE k == Len(frames) - 1
    <3>1. k \in 1 .. Len(frames) /\ k \in 1 .. Len(frames) - 1
      BY <2>3 DEF IsParen, Goes, Calls
    <3>2. Below = SubSeq(frames, 1, k)
      BY DEF Below
    <3>3. Calls(Below) /\ Len(Below) = k /\ Below[k] = frames[k]
      BY <3>1, <3>2, CallsLeft DEF Goes
    <3>4. Even(Below[Len(Below)]) /\ Below[Len(Below)].unary \in Value
      <4>1. frames[k] \in Frame /\ Even(frames[k])
        BY <3>1 DEF Goes, Calls
      <4>2. frames[k].unary \in Value
        BY <4>1 DEF Frame
      <4> HIDE DEF k
      <4> QED
        BY <3>3, <4>1, <4>2
    <3>5. Result(Top) \o Reversed(Below[Len(Below)].unary) \in Value
      BY <2>1, <3>4, ReversedType, ValuesJoin
    <3>6. /\ Receive(Below, Result(Top) \o Reversed(Below[Len(Below)].unary))
          /\ answer' = answer
      BY <1>2, <2>3 DEF Return
    <3>7. Calls(frames') /\ status' = status
      BY <3>3, <3>4, <3>5, <3>6, ReceiveStep
    <3> QED
      BY <2>2, <3>6, <3>7 DEF Goes
  <2>4. CASE ~IsParen
    <3>1. status' = "ok" /\ answer' = Result(Top) /\ UNCHANGED frames
      BY <1>2, <2>4 DEF Return
    <3> QED
      BY <2>1, <2>2, <3>1 DEF Goes, Calls, Sound, Even
  <2> QED
    BY <2>3, <2>4
<1> QED
  BY <1>1, <1>2

----------------------------------------------------------------------------

LEMMA NumberStep ==
  ASSUME Goes, Number, Len(src') \in 1 .. MaxTokens
  PROVE  Goes'
<1>1. CASE NeedSymbol
  BY <1>1, FailStep DEF Number
<1>2. CASE ~NeedSymbol
  <2>1. Receive(frames, <<Sym("num")>> \o Reversed(Top.unary)) /\ UNCHANGED <<answer, sloppy>>
    BY <1>2 DEF Number
  <2>2. Even(Top)
    BY <1>2, TopSound DEF Sound, Even, NeedSymbol
  <2>3. Top.unary \in Value
    BY TopSound DEF Frame
  <2>4. <<Sym("num")>> \in Value
    <3>1. "num" \in Tokens
      BY DEF Tokens
    <3> QED
      BY <3>1, SymType, ValuesOfSymbols
  <2>5. <<Sym("num")>> \o Reversed(Top.unary) \in Value
    BY <2>3, <2>4, ReversedType, ValuesJoin
  <2>6. Calls(frames') /\ status' = status
    BY <2>1, <2>2, <2>5, ReceiveStep DEF Goes, Top
  <2> QED
    BY <2>1, <2>6 DEF Goes
<1> QED
  BY <1>1, <1>2

(* The calls that go on below a new one wait for it. *)
LEMMA OpenStep ==
  ASSUME Goes, Open, Len(src') \in 1 .. MaxTokens
  PROVE  Goes'
<1>1. CASE NeedSymbol /\ Return(FALSE)
  BY <1>1, ReturnStep
<1>2. CASE /\ ~NeedSymbol /\ frames' = Append(frames, Run)
           /\ UNCHANGED <<status, answer, sloppy>>
  <2> DEFINE k == Len(frames)
  <2>1. /\ frames \in Seq(Frame) /\ k \in Nat \ {0}
        /\ \A i \in 1 .. k : Sound(frames[i])
        /\ \A i \in 1 .. k - 1 : Even(frames[i])
        /\ DOMAIN frames = 1 .. k
    BY DEF Goes, Calls
  <2>2. Even(frames[k])
    BY <1>2, TopSound DEF Sound, Even, NeedSymbol, Top
  <2>3. Run \in Frame /\ Sound(Run)
    <3>1. /\ << >> \in Seq(Value) /\ << >> \in Seq(Oper) /\ << >> \in Value
          /\ Len(<< >>) = 0 /\ 0 \in 0 .. 4 /\ 0 \in 0 .. 2 /\ 0 = 0 + 0
      BY DEF Value
    <3>2. Run = [values |-> << >>, opers |-> << >>, count |-> 0, unary |-> << >>]
      BY DEF Run, Call
    <3>3. Run \in Frame
      BY <3>1, <3>2 DEF Frame, Oper
    <3>4. Sound(Run)
      BY <3>1, <3>2 DEF Sound
    <3> QED
      BY <3>3, <3>4
  <2>4. /\ frames' \in Seq(Frame) /\ Len(frames') = k + 1
        /\ frames'[k + 1] = Run /\ \A i \in 1 .. k : frames'[i] = frames[i]
    BY <1>2, <2>1, <2>3
  <2>5. DOMAIN frames' = 1 .. k + 1 /\ frames' # << >>
    BY <2>1, <2>4
  <2> HIDE DEF k
  <2>6. \A i \in 1 .. k + 1 : i = k + 1 \/ i \in 1 .. k
    BY <2>1
  <2>7. \A i \in 1 .. (k + 1) - 1 : i \in 1 .. k /\ (i = k \/ i \in 1 .. k - 1)
    BY <2>1
  <2>8. \A i \in DOMAIN frames' : Sound(frames'[i])
    BY <2>1, <2>3, <2>4, <2>5, <2>6
  <2>9. \A i \in 1 .. Len(frames') - 1 : Even(frames'[i])
    BY <2>1, <2>2, <2>4, <2>7
  <2>10. Calls(frames')
    BY <2>4, <2>5, <2>8, <2>9 DEF Calls
  <2> QED
    BY <1>2, <2>10 DEF Goes
<1> QED
  BY <1>1, <1>2 DEF Open

LEMMA UnaryErrorStep ==
  ASSUME Goes, UnaryError, Len(src') \in 1 .. MaxTokens
  PROVE  Goes'
<1>1. Receive(frames, <<Sym("zero"), Top.unary[1]>>) /\ sloppy' = TRUE /\ answer' = answer
  BY DEF UnaryError
<1>2. Even(Top) /\ Top.unary[1] \in Symbol
  BY TopSound, UnaryWaits DEF UnaryError, InUnary
<1>3. <<Sym("zero"), Top.unary[1]>> \in Value
  BY <1>2, SymType, ValuesOfSymbols
<1>4. Calls(frames') /\ status' = status
  BY <1>1, <1>2, <1>3, ReceiveStep DEF Goes, Top
<1> QED
  BY <1>1, <1>4 DEF Goes

LEMMA TopReplaced ==
  ASSUME Goes, NEW f \in Frame, Sound(f), WithTop(f)
  PROVE  Goes'
<1>1. frames' = [frames EXCEPT ![Len(frames)] = f] /\ UNCHANGED <<status, answer, sloppy>>
  BY DEF WithTop
<1>2. Calls(frames')
  BY <1>1, LastReplaced DEF Goes
<1> QED
  BY <1>1, <1>2 DEF Goes

LEMMA UnaryOperatorStep ==
  ASSUME Goes, UnaryOperator, Len(src') \in 1 .. MaxTokens
  PROVE  Goes'
<1>1. PICK t \in Unary :
        WithTop([Top EXCEPT !.unary = Append(@, Sym(IF t = "-" THEN "neg" ELSE "not"))])
  BY DEF UnaryOperator
<1> DEFINE s == Sym(IF t = "-" THEN "neg" ELSE "not")
           g == [Top EXCEPT !.unary = Append(@, s)]
<1>2. s \in Symbol
  BY SymType
<1>3. Top \in Frame /\ Sound(Top) /\ Top.unary \in Seq(Symbol)
  BY TopSound DEF Frame, Value
<1>4. Even(Top)
  BY <1>3, UnaryWaits DEF UnaryOperator, InUnary, NeedNumber, Sound, Even
<1> HIDE DEF s
<1>5. Append(Top.unary, s) \in Value
  BY <1>2, <1>3 DEF Value
<1>6. /\ g \in Frame
      /\ g.values = Top.values /\ g.opers = Top.opers /\ g.count = Top.count
  BY <1>3, <1>5 DEF Frame
<1> HIDE DEF g
<1>7. Sound(g)
  BY <1>3, <1>4, <1>6 DEF Sound, Even
<1>8. WithTop(g)
  BY <1>1 DEF g, s
<1> QED
  BY <1>6, <1>7, <1>8, TopReplaced

LEMMA LeadingPlusStep ==
  ASSUME Goes, LeadingPlus, Len(src') \in 1 .. MaxTokens
  PROVE  Goes'
<1> DEFINE g == Call(Append(Top.values, <<Sym("zero")>>), Append(Top.opers, Sym("+")),
                     2, Top.unary)
<1>1. WithTop(g)
  BY DEF LeadingPlus
<1>2. /\ Top.values \in Seq(Value) /\ Top.opers \in Seq(Oper) /\ Top.unary \in Value
      /\ Top.unary = << >> /\ Top.count = 0
  BY TopSound DEF Frame, Oper, LeadingPlus, InUnary
<1>3. Len(Top.values) = 0 /\ Len(Top.opers) = 0
  BY <1>2, TopSound DEF Sound
<1>4. <<Sym("zero")>> \in Value
  BY SymType, ValuesOfSymbols
<1>5. Sym("+") \in Oper
  BY DEF Sym, Oper, Binary, Prec
<1> DEFINE values == Append(Top.values, <<Sym("zero")>>)
           opers == Append(Top.opers, Sym("+"))
<1>6. values \in Seq(Value) /\ Len(values) = 1
  BY <1>2, <1>3, <1>4
<1>7. opers \in Seq(Oper) /\ Len(opers) = 1
  BY <1>2, <1>3, <1>5
<1>8. g = [values |-> values, opers |-> opers, count |-> 2, unary |-> Top.unary]
  BY DEF Call
<1> HIDE DEF g, values, opers
<1>9. g \in Frame
  BY <1>2, <1>6, <1>7, <1>8 DEF Frame, Oper
<1>10. Sound(g)
  <2>1. 1 \in 0 .. 2 /\ 2 = 1 + 1
    OBVIOUS
  <2> QED
    BY <1>6, <1>7, <1>8, <2>1 DEF Sound
<1> QED
  BY <1>1, <1>9, <1>10, TopReplaced

(* There is room for an operator, since values wait for it. *)
LEMMA OperatorStep ==
  ASSUME Goes, Operator, Len(src') \in 1 .. MaxTokens
  PROVE  Goes'
<1>1. PICK t \in Binary :
        IF Len(Top.opers) >= 2
        THEN status' = "aborted" /\ UNCHANGED <<frames, answer, sloppy>>
        ELSE WithTop(Call(Top.values, Append(Top.opers, Sym(t)), Top.count + 1, Top.unary))
  BY DEF Operator
<1> DEFINE opers == Append(Top.opers, Sym(t))
           g == Call(Top.values, opers, Top.count + 1, Top.unary)
<1>2. /\ Top.values \in Seq(Value) /\ Top.opers \in Seq(Oper) /\ Top.unary \in Value
      /\ Top.unary = << >> /\ Top.count \in {1, 3}
  BY TopSound DEF Frame, Oper, Operator, InUnary, NeedSymbol
<1>3. PICK k \in 1 .. 2 : /\ Len(Top.values) = k /\ Len(Top.opers) = k - 1
                          /\ Top.count = k + (k - 1)
  <2>1. PICK k, m \in 0 .. 2 :
          /\ Len(Top.values) = k /\ Len(Top.opers) = m
          /\ k = m \/ k = m + 1
          /\ Top.count = k + m
    BY TopSound DEF Sound
  <2>2. k \in 1 .. 2 /\ m = k - 1
    BY <1>2, <2>1
  <2> QED
    BY <2>1, <2>2
<1>4. WithTop(g)
  BY <1>1, <1>3
<1>5. Sym(t) \in Oper
  BY DEF Sym, Oper
<1>6. opers \in Seq(Oper) /\ Len(opers) = k
  BY <1>2, <1>3, <1>5
<1>7. /\ g.values = Top.values /\ g.opers = opers /\ g.unary = Top.unary
      /\ g.count = k + k
  BY <1>3 DEF Call
<1>8. g \in Frame
  <2>1. k + k \in 0 .. 4
    OBVIOUS
  <2>2. g = [values |-> Top.values, opers |-> opers, count |-> k + k, unary |-> Top.unary]
    BY <1>3 DEF Call
  <2> HIDE DEF g, opers
  <2> QED
    BY <1>2, <1>6, <2>1, <2>2 DEF Frame, Oper
<1> HIDE DEF g, opers
<1>9. Sound(g)
  <2>1. k \in 0 .. 2
    OBVIOUS
  <2> QED
    BY <1>3, <1>6, <1>7, <2>1 DEF Sound
<1> QED
  BY <1>4, <1>8, <1>9, TopReplaced

----------------------------------------------------------------------------

LEMMA InitInv == Init => IInv
<1> SUFFICES ASSUME Init PROVE IInv
  OBVIOUS
<1>1. frames = <<Run>> /\ next = "none" /\ status = "running" /\ answer = << >>
      /\ src = << >> /\ sloppy = FALSE
  BY DEF Init
<1>2. /\ << >> \in Seq(Value) /\ << >> \in Seq(Oper) /\ << >> \in Value
      /\ << >> \in Seq(Token) /\ Len(<< >>) = 0
      /\ 0 \in 0 .. 4 /\ 0 \in 0 .. 2 /\ 0 = 0 + 0
  BY DEF Value
<1>3. Run = [values |-> << >>, opers |-> << >>, count |-> 0, unary |-> << >>]
  BY DEF Run, Call
<1>4. Run \in Frame
  BY <1>2, <1>3 DEF Frame, Oper
<1>5. Sound(Run)
  BY <1>2, <1>3 DEF Sound
<1>6. Calls(frames)
  BY <1>1, <1>4, <1>5 DEF Calls
<1>7. frames \in Seq(Frame) /\ frames # << >> /\ Len(src) <= MaxTokens
  BY <1>1, <1>2, <1>6, ExpressionsAssumption DEF Calls
<1> QED
  BY <1>1, <1>2, <1>6, <1>7 DEF IInv, TypeOK, AssertionsHold

(* A token is consumed or pushed back. *)
LEMMA Reading ==
  ASSUME IInv, NEW t \in Tokens, Get(t), next' \in {"none", t}, Goes'
  PROVE  IInv'
<1>1. /\ src' \in Seq(Token) /\ Len(src') <= MaxTokens /\ src' # << >>
  BY Reads, ExpressionsAssumption
<1>2. frames' \in Seq(Frame) /\ frames' # << >>
  BY DEF Goes, Calls
<1> QED
  BY <1>1, <1>2 DEF IInv, TypeOK, AssertionsHold, Goes

LEMMA NextInv == IInv /\ [Next]_vars => IInv'
<1> SUFFICES ASSUME IInv, [Next]_vars PROVE IInv'
  OBVIOUS
<1>1. Goes
  BY GoesOn
<1> DEFINE Step == Goes' /\ \E t \in Tokens : Get(t) /\ next' \in {"none", t}
<1>2. Step => IInv'
  BY Reading
<1>3. \A t \in Tokens : Get(t) => Len(src') \in 1 .. MaxTokens
  BY Reads
<1>4. \A t \in Token : t \in Tokens
  BY ExpressionsAssumption
<1>5. \A t \in Tokens : Get(t) => t \in Token
  BY DEF Get
<1>6. /\ {"num", "(", ")", "eol", "sep", "name", "+"} \subseteq Tokens
      /\ Binary \subseteq Tokens /\ Unary \subseteq Tokens
  BY DEF Tokens, Binary, Prec
<1>7. CASE Number
  <2>1. Get("num") /\ next' = "none"
    BY <1>7 DEF Number, Consume
  <2>2. Goes'
    BY <1>1, <1>3, <1>6, <1>7, <2>1, NumberStep
  <2> QED
    BY <1>2, <1>6, <2>1, <2>2
<1>8. CASE Open
  <2>1. Get("(") /\ next' \in {"none", "("}
    BY <1>8 DEF Open, Consume, PushBack
  <2>2. Goes'
    BY <1>1, <1>3, <1>6, <1>8, <2>1, OpenStep
  <2> QED
    BY <1>2, <1>6, <2>1, <2>2
<1>9. CASE Close
  <2>1. Get(")") /\ next' \in {"none", ")"} /\ Return(TRUE)
    BY <1>9 DEF Close, Consume, PushBack
  <2>2. Goes'
    BY <1>1, <1>3, <1>6, <2>1, ReturnStep
  <2> QED
    BY <1>2, <1>6, <2>1, <2>2
<1>10. CASE EndOfLine
  <2>1. Get("eol") /\ next' = "eol" /\ Return(FALSE)
    BY <1>10 DEF EndOfLine, PushBack
  <2>2. Goes'
    BY <1>1, <1>3, <1>6, <2>1, ReturnStep
  <2> QED
    BY <1>2, <1>6, <2>1, <2>2
<1>11. CASE Separator
  <2>1. Get("sep") /\ next' \in {"none", "sep"} /\ (Fail \/ Return(FALSE))
    BY <1>11 DEF Separator, Consume, PushBack
  <2>2. Goes'
    BY <1>1, <1>3, <1>6, <2>1, FailStep, ReturnStep
  <2> QED
    BY <1>2, <1>6, <2>1, <2>2
<1>12. CASE Name
  <2>1. Get("name") /\ next' = "none" /\ Fail
    BY <1>12 DEF Name, Consume
  <2>2. Goes'
    BY <1>1, <1>3, <1>6, <2>1, FailStep
  <2> QED
    BY <1>2, <1>6, <2>1, <2>2
<1>13. CASE UnaryError
  <2>1. PICK t \in Tokens : Get(t) /\ next' = "none"
    BY <1>4, <1>13 DEF UnaryError, Consume
  <2>2. Goes'
    BY <1>1, <1>3, <1>13, <2>1, UnaryErrorStep
  <2> QED
    BY <1>2, <2>1, <2>2
<1>14. CASE UnaryOperator
  <2>1. PICK t \in Tokens : Get(t) /\ next' = "none"
    BY <1>6, <1>14 DEF UnaryOperator, Consume
  <2>2. Goes'
    BY <1>1, <1>3, <1>14, <2>1, UnaryOperatorStep
  <2> QED
    BY <1>2, <2>1, <2>2
<1>15. CASE LeadingPlus
  <2>1. Get("+") /\ next' = "none"
    BY <1>15 DEF LeadingPlus, Consume
  <2>2. Goes'
    BY <1>1, <1>3, <1>6, <1>15, <2>1, LeadingPlusStep
  <2> QED
    BY <1>2, <1>6, <2>1, <2>2
<1>16. CASE Operator
  <2>1. PICK t \in Tokens : Get(t) /\ next' = "none"
    BY <1>6, <1>16 DEF Operator, Consume
  <2>2. Goes'
    BY <1>1, <1>3, <1>16, <2>1, OperatorStep
  <2> QED
    BY <1>2, <2>1, <2>2
<1>17. CASE Misplaced
  <2>1. PICK t \in Tokens : Get(t) /\ next' = "none"
    BY <1>6, <1>17 DEF Misplaced, Consume
  <2>2. Fail
    BY <1>17 DEF Misplaced
  <2>3. Goes'
    BY <1>1, <1>3, <2>1, <2>2, FailStep
  <2> QED
    BY <1>2, <2>1, <2>3
<1>18. CASE UNCHANGED vars
  BY <1>18 DEF vars, IInv, TypeOK, AssertionsHold, Calls, Sound, Even
<1> QED
  BY <1>7, <1>8, <1>9, <1>10, <1>11, <1>12, <1>13, <1>14, <1>15, <1>16, <1>17, <1>18
  DEF Next

(* All variables keep their types: the count of a call stays in 0 .. 4, and *)
(* each value is a sequence of symbols.                                    *)
THEOREM TypeCorrect == Spec => []TypeOK
<1>1. IInv => TypeOK
  BY DEF IInv
<1> QED
  BY InitInv, NextInv, <1>1, PTL DEF Spec

(* The assertions of VarStack and OperatorStack and the checks of their    *)
(* sizes in run() never fail (eval_expression.h:94-118,147-160), for every *)
(* sequence of tokens.                                                     *)
THEOREM AssertionsNeverFail == Spec => []AssertionsHold
<1>1. IInv => AssertionsHold
  BY DEF IInv
<1> QED
  BY InitInv, NextInv, <1>1, PTL DEF Spec

============================================================================
