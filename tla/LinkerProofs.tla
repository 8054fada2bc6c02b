---------------------------- MODULE LinkerProofs ----------------------------
(***************************************************************************)
(* Proofs about Linker, for all files, names and programs of any length.   *)
(* What makes them inductive is where the address comes from: in the       *)
(* program it counts the words of the statements before, the functions     *)
(* follow each other in the order of the list, and within a function it    *)
(* counts the words copied.                                                *)
(***************************************************************************)
EXTENDS Linker, FiniteSetTheorems, WellFoundedInduction, TLAPS

(* The operators of Linker with the variables they look at.                *)

HoldingIn(fs, n) == {i \in DOMAIN fs : n \in DOMAIN fs[i].start}
FileIn(fs, n) ==
  fs[CHOOSE i \in HoldingIn(fs, n) : \A j \in HoldingIn(fs, n) : i <= j]
OffsetIn(fs, n) ==
  IF FileIn(fs, n).type = "ar" THEN FileIn(fs, n).start[n] ELSE FileIn(fs, n).size[n]
SizeIn(fs, n) ==
  IF FileIn(fs, n).type = "ar" THEN FileIn(fs, n).size[n] ELSE FileIn(fs, n).start[n]
TextIn(fs, n, k) ==
  IF k < Len(FileIn(fs, n).text) THEN FileIn(fs, n).text[k + 1] ELSE Plain
CodeIn(fs, n, k) == TextIn(fs, n, FileIn(fs, n).start[n] + k)
CalledIn(fs, n, k) == TextIn(fs, n, OffsetIn(fs, n) + k)
CallsIn(fs, n) ==
  {CalledIn(fs, n, k) : k \in {k \in 0 .. SizeIn(fs, n) - 1 : CodeIn(fs, n, k) # Plain}}
DefinedIn(p) == {p[i].name : i \in {i \in DOMAIN p : p[i].op = "label"}}
TargetIn(p, b, l, pl, n) ==
  IF n \in DefinedIn(p) THEN b[n] ELSE pl[CHOOSE i \in DOMAIN l : l[i] = n]

----------------------------------------------------------------------------
(* The inductive invariant. *)

\* A word of the image.
Word == {Plain} \cup [op : Nat, field : Nat]

\* The words of the first k statements.
Words(s, k) == Cardinality({i \in 1 .. k : s[i].op = "call"})

\* Where function number i begins.
Begins(o, fs, p, l, pl, i) ==
  IF i = 1 THEN o + Words(p, Len(p)) ELSE pl[i - 1] + SizeIn(fs, l[i - 1])

Types ==
  /\ files \in Libraries /\ origin \in Origins /\ origin \in Nat
  /\ prog \in Seq(Statement) /\ Len(prog) <= MaxStatements
  /\ phase \in {"pass1", "link1", "pass2", "link2", "done", "failed"}
  /\ pc \in 1 .. MaxStatements + 1
  /\ address \in Nat
  /\ DOMAIN bind \subseteq Name /\ \A n \in DOMAIN bind : bind[n] \in Nat
  /\ list \in Seq(Name) /\ \A i \in DOMAIN list : HoldingIn(files, list[i]) # {}
  /\ index \in 1 .. Len(list) + 1
  /\ word \in Nat /\ (word > 0 => index <= Len(list))
  /\ DOMAIN image \subseteq Nat
  /\ \A a \in DOMAIN image : image[a] \in Word
  /\ DOMAIN placed \subseteq 1 .. Len(list)
  /\ asked \subseteq Name

Reading ==
  /\ phase = "pass1" => pc = Len(prog) + 1 /\ word = 0 /\ index = 1
  /\ phase = "pass2" => pc <= Len(prog) + 1 /\ word = 0
  /\ phase \in {"pass1", "pass2"} => address = origin + Words(prog, pc - 1)

Domain ==
  /\ phase = "pass1" => DOMAIN placed = {}
  /\ phase = "link1" => DOMAIN placed = 1 .. (IF word = 0 THEN index - 1 ELSE index)
  /\ phase \in {"pass2", "link2", "done"} => DOMAIN placed = 1 .. Len(list)

PlacesIn(o, fs, p, l, pl) ==
  \A i \in DOMAIN pl :
    /\ pl[i] \in Nat /\ pl[i] = Begins(o, fs, p, l, pl, i)
    /\ \A j \in DOMAIN pl : j < i => pl[j] + SizeIn(fs, l[j]) <= pl[i]

Copies ==
  phase \in {"link1", "link2"} =>
    /\ word = 0 => address = Begins(origin, files, prog, list, placed, index)
    /\ word > 0 => /\ index \in DOMAIN placed /\ word <= SizeIn(files, list[index]) + 1
                   /\ address = placed[index] + word - 1

LabelsIn(p, b, l, pl) ==
  /\ \A n \in DOMAIN b :
       n \in DefinedIn(p) \/ \E j \in DOMAIN pl : l[j] = n /\ b[n] = pl[j]
  /\ \A j \in DOMAIN pl : l[j] \in DOMAIN b

UniqueIn(l) == \A i, j \in 1 .. Len(l) : l[i] = l[j] => i = j

WantedIn(fs, l, as) ==
  \A i \in 1 .. Len(l) : l[i] \in as \/ \E j \in 1 .. i - 1 : l[i] \in CallsIn(fs, l[j])

\* The calls of the first functions, and of the first words of one, are on
\* the list.
ListedUpTo(fs, l, m) == \A i \in 1 .. m : CallsIn(fs, l[i]) \subseteq Elements(l)
WordsListed(fs, l, n, m) ==
  \A k \in 0 .. m : CodeIn(fs, n, k) # Plain => CalledIn(fs, n, k) \in Elements(l)

Listed ==
  /\ phase = "link1" =>
       ListedUpTo(files, list, index - 1) /\ WordsListed(files, list, list[index], word - 2)
  /\ phase \in {"pass2", "link2", "done"} => ListedUpTo(files, list, Len(list))

\* The word that becomes of c is what it should be.
RightWord(p, b, l, pl, c, w) ==
  IF c = Plain THEN w = Plain
  ELSE TargetIn(p, b, l, pl, c) \in Nat /\ w = LinkedCall(TargetIn(p, b, l, pl, c))

\* The first words of function i are what they should be.
RightUpTo(fs, p, b, l, pl, im, i, m) ==
  FileIn(fs, l[i]).type = "ar" =>
    \A k \in 0 .. m :
      /\ pl[i] + k \in DOMAIN im
      /\ RightWord(p, b, l, pl, CodeIn(fs, l[i], k), im[pl[i] + k])

AllRight(fs, p, b, l, pl, im, n) ==
  \A i \in 1 .. n : RightUpTo(fs, p, b, l, pl, im, i, SizeIn(fs, l[i]) - 1)

Written ==
  /\ phase = "link2" =>
       /\ AllRight(files, prog, bind, list, placed, image, index - 1)
       /\ word > 0 => RightUpTo(files, prog, bind, list, placed, image, index, word - 2)
  /\ phase = "done" => AllRight(files, prog, bind, list, placed, image, Len(list))

IInv ==
  /\ Types
  /\ Reading /\ Domain /\ Copies
  /\ PlacesIn(origin, files, prog, list, placed)
  /\ LabelsIn(prog, bind, list, placed)
  /\ UniqueIn(list)
  /\ WantedIn(files, list, asked)
  /\ Listed
  /\ Written

----------------------------------------------------------------------------

LEMMA SameOperators ==
  ASSUME NEW n, NEW k
  PROVE  /\ Holding(n) = HoldingIn(files, n) /\ FileOf(n) = FileIn(files, n)
         /\ Size(n) = SizeIn(files, n) /\ Offset(n) = OffsetIn(files, n)
         /\ Code(n, k) = CodeIn(files, n, k)
         /\ CalledBy(n, k) = CalledIn(files, n, k)
<1>1. Holding(n) = HoldingIn(files, n)
  BY DEF Holding, HoldingIn
<1>2. FileOf(n) = FileIn(files, n)
  BY Zenon DEF FileOf, FileIn, Holding, HoldingIn
<1>3. Size(n) = SizeIn(files, n) /\ Offset(n) = OffsetIn(files, n)
  BY <1>2, Zenon DEF Size, SizeIn, Offset, OffsetIn
<1>4. \A x : TextAt(n, x) = TextIn(files, n, x)
  BY <1>2, Zenon DEF TextAt, TextIn
<1>5. Code(n, k) = CodeIn(files, n, k)
  BY <1>2, <1>4, Zenon DEF Code, CodeIn
<1>6. CalledBy(n, k) = CalledIn(files, n, k)
  BY <1>3, <1>4, Zenon DEF CalledBy, CalledIn
<1> QED
  BY <1>1, <1>2, <1>3, <1>5, <1>6

(* A set of naturals has a smallest element. *)
LEMMA SmallestElement ==
  ASSUME NEW S \in SUBSET Nat, S # {}
  PROVE  \E x \in S : \A y \in S : x <= y
<1>1. \E x \in S : \A y \in S : ~(<<y, x>> \in OpToRel(<, Nat))
  BY NatLessThanWellFounded, WFMin
<1>2. PICK x \in S : \A y \in S : ~(<<y, x>> \in OpToRel(<, Nat))
  BY <1>1
<1>3. \A y \in S : ~(y < x)
  BY <1>2 DEF OpToRel
<1> QED
  BY <1>3

(* A function that a file has. *)
LEMMA FileFacts ==
  ASSUME NEW fs \in Libraries, NEW n, HoldingIn(fs, n) # {}
  PROVE  IsFile(FileIn(fs, n)) /\ n \in DOMAIN FileIn(fs, n).start
<1>1. HoldingIn(fs, n) \in SUBSET Nat /\ \A i \in HoldingIn(fs, n) :
        i \in DOMAIN fs /\ IsFile(fs[i]) /\ n \in DOMAIN fs[i].start
  BY LinkerFiles DEF HoldingIn
<1>2. \E i \in HoldingIn(fs, n) : \A j \in HoldingIn(fs, n) : i <= j
  BY <1>1, SmallestElement
<1> DEFINE m == CHOOSE i \in HoldingIn(fs, n) : \A j \in HoldingIn(fs, n) : i <= j
<1>3. m \in HoldingIn(fs, n)
  BY <1>2
<1>4. FileIn(fs, n) = fs[m]
  BY DEF FileIn
<1> HIDE DEF m
<1> QED
  BY <1>1, <1>3, <1>4

LEMMA SizeType ==
  ASSUME NEW fs \in Libraries, NEW n, HoldingIn(fs, n) # {}
  PROVE  SizeIn(fs, n) \in Nat /\ OffsetIn(fs, n) \in Nat
<1>1. IsFile(FileIn(fs, n)) /\ n \in DOMAIN FileIn(fs, n).start
  BY FileFacts
<1> QED
  BY <1>1 DEF SizeIn, OffsetIn, IsFile

LEMMA TextType ==
  ASSUME NEW fs \in Libraries, NEW n, HoldingIn(fs, n) # {}, NEW k \in Nat
  PROVE  TextIn(fs, n, k) \in Name \cup {Plain}
<1>1. FileIn(fs, n).text \in Seq(Name \cup {Plain})
  BY FileFacts DEF IsFile
<1> QED
  BY <1>1 DEF TextIn

LEMMA CodeType ==
  ASSUME NEW fs \in Libraries, NEW n, HoldingIn(fs, n) # {}, NEW k \in Nat
  PROVE  /\ CalledIn(fs, n, k) \in Name \cup {Plain}
         /\ FileIn(fs, n).type = "ar" => CalledIn(fs, n, k) = CodeIn(fs, n, k)
<1>1. OffsetIn(fs, n) \in Nat
  BY SizeType
<1>2. OffsetIn(fs, n) + k \in Nat
  BY <1>1
<1> QED
  BY <1>2, TextType DEF CalledIn, CodeIn, OffsetIn

(* How the words of a program are counted. *)
LEMMA WordsType ==
  ASSUME NEW s, NEW k \in Nat
  PROVE  Words(s, k) \in Nat /\ IsFiniteSet({i \in 1 .. k : s[i].op = "call"})
<1>1. IsFiniteSet(1 .. k)
  BY FS_Interval
<1>2. {i \in 1 .. k : s[i].op = "call"} \in SUBSET (1 .. k)
  OBVIOUS
<1>3. IsFiniteSet({i \in 1 .. k : s[i].op = "call"})
  BY <1>1, <1>2, FS_Subset
<1> QED
  BY <1>3, FS_CardinalityType DEF Words

LEMMA WordsNext ==
  ASSUME NEW s, NEW k \in Nat
  PROVE  Words(s, k + 1) = Words(s, k) + (IF s[k + 1].op = "call" THEN 1 ELSE 0)
<1> DEFINE A == {i \in 1 .. k : s[i].op = "call"}
           B == {i \in 1 .. k + 1 : s[i].op = "call"}
<1>1. IsFiniteSet(A) /\ Cardinality(A) \in Nat
  BY WordsType DEF Words
<1>2. CASE s[k + 1].op = "call"
  <2>1. B = A \cup {k + 1} /\ k + 1 \notin A
    BY <1>2
  <2>2. Cardinality(A \cup {k + 1}) = Cardinality(A) + 1
    BY <1>1, <2>1, FS_AddElement
  <2> QED
    BY <1>2, <2>1, <2>2 DEF Words
<1>3. CASE s[k + 1].op # "call"
  <2>1. B = A
    BY <1>3
  <2> QED
    <3>1. Words(s, k + 1) = Cardinality(B) /\ Words(s, k) = Cardinality(A)
      BY DEF Words
    <3> HIDE DEF A, B
    <3> QED
      BY <1>1, <1>3, <2>1, <3>1
<1> QED
  BY <1>2, <1>3

LEMMA WordsAppend ==
  ASSUME NEW s \in Seq(Statement), NEW st \in Statement
  PROVE  /\ Append(s, st) \in Seq(Statement) /\ Len(Append(s, st)) = Len(s) + 1
         /\ Words(Append(s, st), Len(s) + 1)
              = Words(s, Len(s)) + (IF st.op = "call" THEN 1 ELSE 0)
<1> DEFINE t == Append(s, st)
           n == Len(s)
<1>1. n \in Nat /\ t \in Seq(Statement) /\ Len(t) = n + 1 /\ t[n + 1] = st
      /\ \A i \in 1 .. n : t[i] = s[i]
  OBVIOUS
<1> HIDE DEF t, n
<1>2. {i \in 1 .. n : t[i].op = "call"} = {i \in 1 .. n : s[i].op = "call"}
  BY <1>1
<1>3. Words(t, n) = Words(s, n)
  BY <1>2 DEF Words
<1>4. Words(t, n + 1) = Words(t, n) + (IF t[n + 1].op = "call" THEN 1 ELSE 0)
  BY <1>1, WordsNext
<1> QED
  BY <1>1, <1>3, <1>4 DEF t, n

(* The list with a function on it. *)
LEMMA SearchFacts ==
  ASSUME Types, UniqueIn(list), NEW n \in Name, NEW l, l = Search(list, n)
  PROVE  /\ l \in Seq(Name) /\ \A i \in DOMAIN l : HoldingIn(files, l[i]) # {}
         /\ Len(list) \in Nat /\ Len(l) \in Nat /\ Len(list) <= Len(l)
         /\ Len(l) <= Len(list) + 1
         /\ \A i \in 1 .. Len(list) : l[i] = list[i]
         /\ \A i \in 1 .. Len(l) : i > Len(list) => l[i] = n
         /\ UniqueIn(l)
         /\ HoldingIn(files, n) # {} => n \in Elements(l)
<1>1. list \in Seq(Name) /\ Len(list) \in Nat
  BY DEF Types
<1>2. Holding(n) = HoldingIn(files, n)
  BY SameOperators
<1>3. CASE n \in Elements(list) \/ Holding(n) = {}
  <2>1. l = list
    BY <1>3 DEF Search
  <2> QED
    BY <1>2, <1>1, <1>3, <2>1 DEF Types
<1>4. CASE ~(n \in Elements(list) \/ Holding(n) = {})
  <2>1. l = Append(list, n)
    BY <1>4 DEF Search
  <2>2. /\ l \in Seq(Name) /\ Len(l) = Len(list) + 1
        /\ \A i \in 1 .. Len(list) : l[i] = list[i]
        /\ l[Len(list) + 1] = n
    BY <1>1, <2>1
  <2>3. \A i \in 1 .. Len(list) : list[i] # n
    BY <1>1, <1>4 DEF Elements
  <2>4. \A i \in 1 .. Len(l) : i \in 1 .. Len(list) \/ i = Len(list) + 1
    BY <1>1, <2>2
  <2>5. \A i \in DOMAIN l : HoldingIn(files, l[i]) # {}
    BY <1>2, <1>1, <1>4, <2>2, <2>4 DEF Types
  <2>6. UniqueIn(l)
    BY <1>1, <2>2, <2>3, <2>4 DEF UniqueIn
  <2>7. n \in Elements(l)
    BY <1>1, <2>2 DEF Elements
  <2> QED
    BY <1>1, <2>2, <2>4, <2>5, <2>6, <2>7
<1> QED
  BY <1>3, <1>4

LEMMA WithFacts ==
  ASSUME NEW m, NEW k, NEW v
  PROVE  /\ DOMAIN With(m, k, v) = DOMAIN m \cup {k} /\ With(m, k, v)[k] = v
         /\ \A x \in DOMAIN m : x # k => With(m, k, v)[x] = m[x]
BY DEF With

LEMMA KeptFacts ==
  ASSUME IInv, UNCHANGED <<files, origin, prog, bind, list, placed, asked>>
  PROVE  /\ PlacesIn(origin, files, prog, list, placed)'
         /\ LabelsIn(prog, bind, list, placed)'
         /\ UniqueIn(list)' /\ WantedIn(files, list, asked)'
BY DEF IInv

(* A function on the list is in a file, which says how long it is. *)
LEMMA OnList ==
  ASSUME Types, NEW i \in 1 .. Len(list)
  PROVE  /\ list[i] \in Name /\ HoldingIn(files, list[i]) # {}
         /\ SizeIn(files, list[i]) \in Nat
<1>1. list[i] \in Name /\ HoldingIn(files, list[i]) # {} /\ files \in Libraries
  BY DEF Types
<1> QED
  BY <1>1, SizeType

(* A longer list changes nothing for the functions already on it. *)
LEMMA LongerFacts ==
  ASSUME IInv, NEW l, Len(l) \in Nat, Len(list) <= Len(l),
         \A i \in 1 .. Len(list) : l[i] = list[i]
  PROVE  /\ PlacesIn(origin, files, prog, l, placed) /\ LabelsIn(prog, bind, l, placed)
         /\ Elements(list) \subseteq {l[i] : i \in 1 .. Len(l)}
<1>1. Len(list) \in Nat /\ DOMAIN placed \subseteq 1 .. Len(list)
  BY DEF IInv, Types
<1>2. \A i \in DOMAIN placed : l[i] = list[i] /\ (i # 1 => l[i - 1] = list[i - 1])
  BY <1>1
<1>3. PlacesIn(origin, files, prog, l, placed)
  <2>1. PlacesIn(origin, files, prog, list, placed)
    BY DEF IInv
  <2> QED
    BY <1>2, <2>1 DEF PlacesIn, Begins
<1>4. LabelsIn(prog, bind, l, placed)
  <2>1. LabelsIn(prog, bind, list, placed)
    BY DEF IInv
  <2> QED
    BY <1>2, <2>1 DEF LabelsIn
<1>5. Elements(list) \subseteq {l[i] : i \in 1 .. Len(l)}
  <2>1. ASSUME NEW e \in Elements(list)  PROVE e \in {l[i] : i \in 1 .. Len(l)}
    <3>1. PICK i \in 1 .. Len(list) : e = list[i]
      BY DEF Elements, IInv, Types
    <3>2. i \in 1 .. Len(l) /\ l[i] = e
      BY <1>1, <3>1
    <3> QED
      BY <3>2
  <2> QED
    BY <2>1
<1> QED
  BY <1>3, <1>4, <1>5

(* The labels of the functions are where the calls of them go. *)
LEMMA TargetFacts ==
  ASSUME IInv, NEW c \in DOMAIN bind
  PROVE  bind[c] = TargetIn(prog, bind, list, placed, c)
<1>1. CASE c \in DefinedIn(prog)
  BY <1>1 DEF TargetIn
<1>2. CASE c \notin DefinedIn(prog)
  <2>1. PICK j \in DOMAIN placed : list[j] = c /\ bind[c] = placed[j]
    BY <1>2 DEF IInv, LabelsIn
  <2>2. j \in 1 .. Len(list) /\ DOMAIN list = 1 .. Len(list)
    BY DEF IInv, Types
  <2>3. \A i \in DOMAIN list : list[i] = c => i = j
    BY <2>1, <2>2 DEF IInv, UniqueIn
  <2>4. (CHOOSE i \in DOMAIN list : list[i] = c) = j
    BY <2>1, <2>2, <2>3
  <2> QED
    BY <1>2, <2>1, <2>4 DEF TargetIn
<1> QED
  BY <1>1, <1>2

----------------------------------------------------------------------------
(* Linking. *)

LEMMA StartLinkStep ==
  ASSUME IInv, StartLink
  PROVE  IInv'
<1>1. UNCHANGED <<files, origin, prog, pc, address, bind, list, image, placed, asked>>
      /\ index' = 1 /\ word' = 0
  BY DEF StartLink
<1>2. Types
  BY DEF IInv
<1>3. Len(list) \in Nat /\ Len(prog) \in Nat /\ pc \in Nat
  BY <1>2, LinkerConstants DEF Types, LinkerConstants
<1>4. phase \in {"pass1", "pass2"} /\ address = origin + Words(prog, Len(prog))
      /\ (phase = "pass1" => phase' = "link1") /\ (phase = "pass2" => phase' = "link2")
  <2>1. CASE phase = "pass1" /\ phase' = "link1"
    <3>1. pc - 1 = Len(prog)
      BY <1>3, <2>1 DEF IInv, Reading
    <3> QED
      BY <2>1, <3>1 DEF IInv, Reading
  <2>2. CASE phase = "pass2" /\ pc > Len(prog) /\ phase' = "link2"
    <3>1. pc - 1 = Len(prog)
      BY <1>3, <2>2 DEF IInv, Reading
    <3> QED
      BY <2>2, <3>1 DEF IInv, Reading
  <2> QED
    BY <2>1, <2>2 DEF StartLink
<1>5. Types'
  BY <1>1, <1>2, <1>3, <1>4 DEF Types
<1>6. Reading'
  BY <1>4 DEF Reading
<1>7. Domain'
  <2>1. CASE phase = "pass1"
    <3>1. DOMAIN placed = {} /\ 1 .. 0 = {}
      BY <2>1 DEF IInv, Domain
    <3>2. index' - 1 = 0
      BY <1>1
    <3> QED
      BY <1>1, <1>4, <2>1, <3>1, <3>2 DEF Domain
  <2>2. CASE phase = "pass2"
    BY <1>1, <1>4, <2>2 DEF IInv, Domain
  <2> QED
    BY <1>4, <2>1, <2>2
<1>8. Copies'
  BY <1>1, <1>4 DEF Copies, Begins
<1>9. Listed'
  <2>1. CASE phase = "pass1"
    <3>1. index' - 1 = 0 /\ word' - 2 = -2 /\ 1 .. 0 = {} /\ 0 .. -2 = {}
      BY <1>1
    <3> QED
      BY <1>4, <2>1, <3>1 DEF Listed, ListedUpTo, WordsListed
  <2>2. CASE phase = "pass2"
    BY <1>1, <1>4, <2>2 DEF IInv, Listed
  <2> QED
    BY <1>4, <2>1, <2>2
<1>10. Written'
  <2>1. index' - 1 = 0 /\ 1 .. 0 = {}
    BY <1>1
  <2> QED
    BY <1>1, <1>4, <2>1 DEF Written, AllRight
<1> QED
  BY <1>1, <1>5, <1>6, <1>7, <1>8, <1>9, <1>10, KeptFacts DEF IInv

LEMMA EndLinkStep ==
  ASSUME IInv, EndLink
  PROVE  IInv'
<1>1. UNCHANGED <<files, origin, prog, bind, list, index, word, image, placed, asked>>
      /\ word = 0 /\ index > Len(list) /\ phase \in {"link1", "link2"}
  BY DEF EndLink, Linking
<1>2. Types
  BY DEF IInv
<1>3. Len(list) \in Nat /\ index - 1 = Len(list) /\ Len(prog) \in Nat
  BY <1>1, <1>2 DEF Types
<1>4. CASE phase = "link1"
  <2>1. phase' = "pass2" /\ pc' = 1 /\ address' = origin
    BY <1>4 DEF EndLink, Restart
  <2>2. Types'
    BY <1>1, <1>2, <2>1, LinkerConstants DEF Types, LinkerConstants
  <2>3. Reading'
    <3>1. {i \in 1 .. 0 : prog[i].op = "call"} = {}
      OBVIOUS
    <3>2. Words(prog, 0) = 0
      BY <3>1, FS_EmptySet DEF Words
    <3>3. pc' - 1 = 0
      BY <2>1
    <3> QED
      BY <1>1, <1>2, <1>3, <2>1, <3>2, <3>3 DEF Reading, Types
  <2>4. Domain'
    BY <1>1, <1>3, <1>4, <2>1 DEF IInv, Domain
  <2>5. Listed'
    BY <1>1, <1>3, <1>4, <2>1 DEF IInv, Listed
  <2> QED
    BY <1>1, <2>1, <2>2, <2>3, <2>4, <2>5, KeptFacts DEF IInv, Copies, Written
<1>5. CASE phase = "link2"
  <2>1. phase' = "done" /\ UNCHANGED <<pc, address>>
    BY <1>5 DEF EndLink
  <2>2. Types'
    BY <1>1, <1>2, <2>1 DEF Types
  <2>3. Domain' /\ Listed'
    BY <1>1, <1>5, <2>1 DEF IInv, Domain, Listed
  <2>4. Written'
    BY <1>1, <1>3, <1>5, <2>1 DEF IInv, Written
  <2> QED
    BY <1>1, <2>1, <2>2, <2>3, <2>4, KeptFacts DEF IInv, Copies, Reading
<1> QED
  BY <1>1, <1>4, <1>5

LEMMA CloseFunctionStep ==
  ASSUME IInv, CloseFunction
  PROVE  IInv'
<1>1. /\ UNCHANGED <<files, origin, prog, phase, pc, address, bind, list, image,
                    placed, asked>>
      /\ index' = index + 1 /\ word' = 0 /\ word > 0 /\ phase \in {"link1", "link2"}
      /\ word > Size(list[index])
  BY DEF CloseFunction, Linking
<1>2. Types
  BY DEF IInv
<1>3. index \in 1 .. Len(list) /\ word \in Nat /\ Len(list) \in Nat
  BY <1>1, <1>2 DEF Types
<1> DEFINE s == SizeIn(files, list[index])
<1>4. s \in Nat /\ word > s
  BY <1>1, <1>2, <1>3, OnList, SameOperators
<1>5. word <= s + 1 /\ index \in DOMAIN placed /\ address = placed[index] + word - 1
  BY <1>1 DEF IInv, Copies
<1>6. word = s + 1 /\ placed[index] \in Nat /\ address = placed[index] + s
  BY <1>3, <1>4, <1>5 DEF IInv, PlacesIn
<1> HIDE DEF s
<1>7. Types'
  BY <1>1, <1>2, <1>3 DEF Types
<1>8. Reading' /\ Domain'
  BY <1>1, <1>3 DEF IInv, Reading, Domain
<1>9. Copies'
  <2>1. index' # 1 /\ index' - 1 = index
    BY <1>1, <1>3
  <2> QED
    BY <1>1, <1>6, <2>1 DEF Copies, Begins, s
<1>10. Listed'
  <2>1. CASE phase = "link1"
    <3>1. ListedUpTo(files, list, index - 1) /\ WordsListed(files, list, list[index], s - 1)
      <4>1. word - 2 = s - 1
        BY <1>4, <1>6
      <4> QED
        BY <2>1, <4>1 DEF IInv, Listed
    <3>2. CallsIn(files, list[index]) \subseteq Elements(list)
      <4>1. ASSUME NEW e \in CallsIn(files, list[index])  PROVE e \in Elements(list)
        <5>1. PICK k \in 0 .. s - 1 : CodeIn(files, list[index], k) # Plain
                                     /\ e = CalledIn(files, list[index], k)
          BY <4>1 DEF CallsIn, s
        <5> QED
          BY <3>1, <5>1 DEF WordsListed
      <4> QED
        BY <4>1
    <3>3. \A i \in 1 .. index : i \in 1 .. index - 1 \/ i = index
      BY <1>3
    <3>4. ListedUpTo(files, list, index)
      BY <3>1, <3>2, <3>3 DEF ListedUpTo
    <3>5. WordsListed(files, list, list[index'], word' - 2) /\ index' - 1 = index
      BY <1>1, <1>3 DEF WordsListed
    <3> QED
      BY <1>1, <2>1, <3>4, <3>5 DEF Listed
  <2>2. CASE phase = "link2"
    BY <1>1, <2>2 DEF IInv, Listed
  <2> QED
    BY <1>1, <2>1, <2>2
<1>11. Written'
  <2>1. CASE phase = "link2"
    <3>1. /\ AllRight(files, prog, bind, list, placed, image, index - 1)
          /\ RightUpTo(files, prog, bind, list, placed, image, index, s - 1)
      <4>1. word - 2 = s - 1
        BY <1>4, <1>6
      <4> QED
        BY <1>1, <2>1, <4>1 DEF IInv, Written
    <3>2. \A i \in 1 .. index : i \in 1 .. index - 1 \/ i = index
      BY <1>3
    <3>3. AllRight(files, prog, bind, list, placed, image, index)
      BY <3>1, <3>2 DEF AllRight, s
    <3>4. index' - 1 = index
      BY <1>1, <1>3
    <3> QED
      BY <1>1, <2>1, <3>3, <3>4 DEF Written
  <2>2. CASE phase = "link1"
    BY <1>1, <2>2 DEF Written
  <2> QED
    BY <1>1, <2>1, <2>2
<1> QED
  BY <1>1, <1>7, <1>8, <1>9, <1>10, <1>11, KeptFacts DEF IInv

(* The function gets its place in the first pass, and finds it again in    *)
(* the second.                                                             *)
LEMMA OpenFunctionStep ==
  ASSUME IInv, OpenFunction
  PROVE  IInv'
<1>1. /\ UNCHANGED <<files, origin, prog, phase, pc, address, list, index, image, asked>>
      /\ word = 0 /\ word' = 1 /\ index <= Len(list) /\ phase \in {"link1", "link2"}
  BY DEF OpenFunction, Linking, FirstWord
<1>2. Types
  BY DEF IInv
<1>3. index \in 1 .. Len(list) /\ Len(list) \in Nat /\ address \in Nat
  BY <1>1, <1>2 DEF Types
<1>4. address = Begins(origin, files, prog, list, placed, index)
  BY <1>1 DEF IInv, Copies
<1>5. SizeIn(files, list[index]) \in Nat
      /\ list[index] \in Name
  BY <1>2, <1>3, OnList
<1>6. Reading' /\ Listed'
  <2>1. word' - 2 = -1 /\ 0 .. -1 = {}
    BY <1>1
  <2> QED
    BY <1>1, <2>1 DEF IInv, Reading, Listed, WordsListed
<1>7. UniqueIn(list)' /\ WantedIn(files, list, asked)'
  BY <1>1 DEF IInv
<1>8. CASE phase = "link1"
  <2>1. /\ bind' = IF list[index] \notin DOMAIN bind THEN With(bind, list[index], address)
                  ELSE bind
        /\ placed' = With(placed, index, address)
    BY <1>8 DEF OpenFunction
  <2>2. /\ DOMAIN placed = 1 .. index - 1
        /\ DOMAIN placed' = DOMAIN placed \cup {index} /\ placed'[index] = address
        /\ \A i \in DOMAIN placed : i # index => placed'[i] = placed[i]
    <3>1. DOMAIN placed = 1 .. index - 1
      BY <1>1, <1>8 DEF IInv, Domain
    <3> DEFINE m == With(placed, index, address)
    <3>2. /\ DOMAIN m = DOMAIN placed \cup {index} /\ m[index] = address
          /\ \A i \in DOMAIN placed : i # index => m[i] = placed[i]
      BY DEF With
    <3> HIDE DEF m
    <3>3. placed' = m
      BY <2>1 DEF m
    <3> QED
      BY <3>1, <3>2, <3>3
  <2>3. DOMAIN placed' = 1 .. index /\ \A i \in 1 .. index - 1 : placed'[i] = placed[i]
    BY <1>3, <2>2
  <2>4. /\ DOMAIN bind' = DOMAIN bind \cup {list[index]}
        /\ \A n \in DOMAIN bind : bind'[n] = bind[n]
        /\ list[index] \notin DOMAIN bind => bind'[list[index]] = address
    <3> DEFINE m == With(bind, list[index], address)
    <3>1. /\ DOMAIN m = DOMAIN bind \cup {list[index]} /\ m[list[index]] = address
          /\ \A n \in DOMAIN bind : n # list[index] => m[n] = bind[n]
      BY DEF With
    <3> HIDE DEF m
    <3>2. CASE list[index] \notin DOMAIN bind
      <4>1. bind' = m
        BY <2>1, <3>2 DEF m
      <4> QED
        BY <3>1, <3>2, <4>1
    <3>3. CASE list[index] \in DOMAIN bind
      <4>1. bind' = bind
        BY <2>1, <3>3
      <4> QED
        BY <3>3, <4>1
    <3> QED
      BY <3>2, <3>3
  <2>5. Types'
    <3>1. \A n \in DOMAIN bind' : bind'[n] \in Nat
      BY <1>2, <1>3, <2>4 DEF Types
    <3>2. DOMAIN bind' \subseteq Name /\ DOMAIN placed' \subseteq 1 .. Len(list)
      BY <1>2, <1>3, <1>5, <2>3, <2>4 DEF Types
    <3> QED
      BY <1>1, <1>2, <3>1, <3>2 DEF Types
  <2>6. PlacesIn(origin, files, prog, list, placed)
    BY DEF IInv
  <2>7. PlacesIn(origin, files, prog, list, placed')
    <3>1. ASSUME NEW i \in 1 .. index - 1
          PROVE  /\ placed'[i] \in Nat
                 /\ placed'[i] = Begins(origin, files, prog, list, placed', i)
                 /\ \A j \in DOMAIN placed' :
                      j < i => placed'[j] + SizeIn(files, list[j]) <= placed'[i]
      <4>1. i = 1 \/ i - 1 \in 1 .. index - 1
        BY <1>3, <3>1
      <4>2. Begins(origin, files, prog, list, placed', i)
              = Begins(origin, files, prog, list, placed, i)
        BY <2>3, <4>1 DEF Begins
      <4>3. \A j \in DOMAIN placed' : j < i => j \in 1 .. index - 1
        BY <1>3, <2>3
      <4> QED
        BY <2>2, <2>3, <2>6, <4>2, <4>3 DEF PlacesIn
    <3>2. placed'[index] = Begins(origin, files, prog, list, placed', index)
      <4>1. index = 1 \/ index - 1 \in 1 .. index - 1
        BY <1>3
      <4> QED
        BY <1>4, <2>2, <2>3, <4>1 DEF Begins
    <3>3. ASSUME NEW j \in 1 .. index - 1
          PROVE  placed'[j] + SizeIn(files, list[j]) <= placed'[index]
      <4>1. index - 1 \in 1 .. index - 1 /\ index # 1
            /\ j \in 1 .. Len(list) /\ index - 1 \in 1 .. Len(list)
        BY <1>3, <3>3
      <4>2. SizeIn(files, list[j]) \in Nat /\ SizeIn(files, list[index - 1]) \in Nat
        BY <1>2, <4>1, OnList
      <4>3. address = placed[index - 1] + SizeIn(files, list[index - 1])
        BY <1>4, <4>1 DEF Begins
      <4>4. /\ placed[j] \in Nat /\ placed[index - 1] \in Nat
            /\ j < index - 1 => placed[j] + SizeIn(files, list[j]) <= placed[index - 1]
        BY <2>2, <2>6, <3>3, <4>1 DEF PlacesIn
      <4>5. placed[j] + SizeIn(files, list[j]) <= address
        <5>1. CASE j = index - 1
          BY <4>2, <4>3, <4>4, <5>1
        <5>2. CASE j < index - 1
          BY <4>2, <4>3, <4>4, <5>2
        <5> QED
          BY <1>3, <3>3, <5>1, <5>2
      <4> QED
        BY <2>2, <2>3, <3>3, <4>5
    <3>4. \A i \in DOMAIN placed' : i \in 1 .. index - 1 \/ i = index
      BY <1>3, <2>3
    <3>5. \A j \in DOMAIN placed' : j < index => j \in 1 .. index - 1
      BY <1>3, <2>3
    <3>6. \A i \in DOMAIN placed' :
            /\ placed'[i] \in Nat
            /\ placed'[i] = Begins(origin, files, prog, list, placed', i)
            /\ \A j \in DOMAIN placed' :
                 j < i => placed'[j] + SizeIn(files, list[j]) <= placed'[i]
      BY <1>3, <2>2, <3>1, <3>2, <3>3, <3>4, <3>5
    <3> QED
      BY <3>6 DEF PlacesIn
  <2>8. LabelsIn(prog, bind', list, placed')
    <3>0. LabelsIn(prog, bind, list, placed)
      BY DEF IInv
    <3>1. ASSUME NEW n \in DOMAIN bind
          PROVE  n \in DefinedIn(prog)
                 \/ \E j \in DOMAIN placed' : list[j] = n /\ bind'[n] = placed'[j]
      BY <2>2, <2>3, <2>4, <3>0, <3>1 DEF LabelsIn
    <3>2. list[index] \notin DOMAIN bind =>
            \E j \in DOMAIN placed' :
              list[j] = list[index] /\ bind'[list[index]] = placed'[j]
      BY <2>2, <2>4
    <3>3. \A j \in DOMAIN placed' : list[j] \in DOMAIN bind'
      BY <2>2, <2>4, <3>0 DEF LabelsIn
    <3>4. \A n \in DOMAIN bind' :
            n \in DefinedIn(prog)
            \/ \E j \in DOMAIN placed' : list[j] = n /\ bind'[n] = placed'[j]
      BY <2>4, <3>1, <3>2
    <3> QED
      BY <3>3, <3>4 DEF LabelsIn
  <2>9. Domain'
    BY <1>1, <1>8, <2>3 DEF Domain
  <2>10. Copies'
    BY <1>1, <1>3, <1>5, <1>8, <2>2, <2>3 DEF Copies
  <2>11. Written'
    BY <1>1, <1>8 DEF Written
  <2> QED
    BY <1>1, <1>6, <1>7, <2>5, <2>7, <2>8, <2>9, <2>10, <2>11 DEF IInv
<1>9. CASE phase = "link2"
  <2>1. bind' = bind /\ placed' = placed
    BY <1>9 DEF OpenFunction
  <2>2. index \in DOMAIN placed
    BY <1>3, <1>9 DEF IInv, Domain
  <2>3. placed[index] = address
    BY <1>4, <2>2 DEF IInv, PlacesIn
  <2>4. Types'
    BY <1>1, <1>2, <2>1 DEF Types
  <2>5. Domain'
    BY <1>1, <1>9, <2>1 DEF IInv, Domain
  <2>6. Copies'
    BY <1>1, <1>3, <1>5, <2>1, <2>2, <2>3 DEF Copies
  <2>7. Written'
    <3>1. word' - 2 = -1 /\ 0 .. -1 = {}
      BY <1>1
    <3> QED
      BY <1>1, <1>9, <2>1, <3>1 DEF IInv, Written, RightUpTo
  <2>8. PlacesIn(origin, files, prog, list, placed)' /\ LabelsIn(prog, bind, list, placed)'
    BY <1>1, <2>1, KeptFacts
  <2> QED
    BY <1>1, <1>6, <1>7, <2>4, <2>5, <2>6, <2>7, <2>8 DEF IInv
<1> QED
  BY <1>1, <1>8, <1>9

(* A word is copied: what is written before stays, and what is written now *)
(* is right if w is. *)
LEMMA CopyFacts ==
  ASSUME IInv, Copying
  PROVE  /\ Types /\ phase \in {"link1", "link2"} /\ index \in 1 .. Len(list)
         /\ word \in Nat /\ word > 0 /\ address \in Nat /\ Len(list) \in Nat
         /\ SizeIn(files, list[index]) \in Nat /\ word <= SizeIn(files, list[index])
         /\ index \in DOMAIN placed /\ placed[index] \in Nat
         /\ address = placed[index] + word - 1
<1>1. Types /\ phase \in {"link1", "link2"} /\ word > 0
  BY DEF IInv, Copying, Linking
<1>2. index \in 1 .. Len(list) /\ word \in Nat /\ address \in Nat /\ Len(list) \in Nat
  BY <1>1 DEF Types
<1>3. SizeIn(files, list[index]) \in Nat /\ word <= SizeIn(files, list[index])
  BY <1>1, <1>2, OnList, SameOperators DEF Copying
<1>4. index \in DOMAIN placed /\ address = placed[index] + word - 1
  BY <1>1 DEF IInv, Copies
<1>5. placed[index] \in Nat
  BY <1>4 DEF IInv, PlacesIn
<1> QED
  BY <1>1, <1>2, <1>3, <1>4, <1>5

LEMMA CopyRight ==
  ASSUME IInv, Copying, phase = "link2", NEW w, NEW im, im = With(image, address, w),
         FileIn(files, list[index]).type = "ar" =>
           RightWord(prog, bind, list, placed, CodeIn(files, list[index], word - 1), w)
  PROVE  /\ AllRight(files, prog, bind, list, placed, im, index - 1)
         /\ RightUpTo(files, prog, bind, list, placed, im, index, word - 1)
<1>1. /\ Types /\ index \in 1 .. Len(list) /\ word \in Nat /\ word > 0
      /\ index \in DOMAIN placed /\ placed[index] \in Nat
      /\ address = placed[index] + word - 1 /\ Len(list) \in Nat
  BY CopyFacts
<1>2. /\ address \in DOMAIN im /\ im[address] = w
      /\ \A x \in DOMAIN image : x # address => x \in DOMAIN im /\ im[x] = image[x]
  BY DEF With
<1>3. /\ AllRight(files, prog, bind, list, placed, image, index - 1)
      /\ RightUpTo(files, prog, bind, list, placed, image, index, word - 2)
  BY <1>1 DEF IInv, Written
<1>4. DOMAIN placed = 1 .. Len(list) /\ PlacesIn(origin, files, prog, list, placed)
  BY DEF IInv, Domain
<1>5. AllRight(files, prog, bind, list, placed, im, index - 1)
  <2>1. ASSUME NEW i \in 1 .. index - 1, FileIn(files, list[i]).type = "ar",
               NEW k \in 0 .. SizeIn(files, list[i]) - 1
        PROVE  placed[i] + k \in DOMAIN im /\ im[placed[i] + k] = image[placed[i] + k]
    <3>1. i \in 1 .. Len(list) /\ i < index
      BY <1>1
    <3>2. SizeIn(files, list[i]) \in Nat
      BY <1>1, <3>1, OnList
    <3>3. placed[i] \in Nat /\ placed[i] + SizeIn(files, list[i]) <= placed[index]
      BY <1>1, <1>4, <3>1 DEF PlacesIn
    <3>4. placed[i] + k # address
      BY <1>1, <2>1, <3>2, <3>3
    <3>5. placed[i] + k \in DOMAIN image
      BY <1>3, <2>1 DEF AllRight, RightUpTo
    <3> QED
      BY <1>2, <3>4, <3>5
  <2>2. ASSUME NEW i \in 1 .. index - 1
        PROVE  RightUpTo(files, prog, bind, list, placed, im, i,
                         SizeIn(files, list[i]) - 1)
    <3>1. RightUpTo(files, prog, bind, list, placed, image, i,
                    SizeIn(files, list[i]) - 1)
      BY <1>3, <2>2 DEF AllRight
    <3> QED
      BY <2>1, <2>2, <3>1 DEF RightUpTo
  <2> QED
    BY <2>2 DEF AllRight
<1>6. RightUpTo(files, prog, bind, list, placed, im, index, word - 1)
  <2> SUFFICES ASSUME FileIn(files, list[index]).type = "ar", NEW k \in 0 .. word - 1
               PROVE  /\ placed[index] + k \in DOMAIN im
                      /\ RightWord(prog, bind, list, placed, CodeIn(files, list[index], k),
                                   im[placed[index] + k])
    BY DEF RightUpTo
  <2>1. CASE k = word - 1
    <3>1. placed[index] + k = address
      BY <1>1, <2>1
    <3> QED
      BY <1>2, <2>1, <3>1
  <2>2. CASE k # word - 1
    <3>1. k \in 0 .. word - 2 /\ placed[index] + k # address
      BY <1>1, <2>2
    <3>2. /\ placed[index] + k \in DOMAIN image
          /\ RightWord(prog, bind, list, placed, CodeIn(files, list[index], k),
                       image[placed[index] + k])
      BY <1>3, <3>1 DEF RightUpTo
    <3> QED
      BY <1>2, <3>1, <3>2
  <2> QED
    BY <2>1, <2>2
<1> QED
  BY <1>5, <1>6

(* What both kinds of words have in common; l is the list afterwards. *)
LEMMA CopyStep ==
  ASSUME IInv, Copying, NEW w \in Word, Write(w),
         word' = word + 1,
         UNCHANGED <<files, origin, prog, phase, pc, bind, index, placed, asked>>,
         list' \in Seq(Name), \A i \in DOMAIN list' : HoldingIn(files, list'[i]) # {},
         Len(list') \in Nat, Len(list) <= Len(list'),
         \A i \in 1 .. Len(list) : list'[i] = list[i]
  PROVE  Types' /\ Reading' /\ Copies' /\ PlacesIn(origin, files, prog, list, placed)'
         /\ LabelsIn(prog, bind, list, placed)'
<1>1. /\ Types /\ phase \in {"link1", "link2"} /\ index \in 1 .. Len(list)
      /\ word \in Nat /\ word > 0 /\ address \in Nat /\ Len(list) \in Nat
      /\ SizeIn(files, list[index]) \in Nat /\ word <= SizeIn(files, list[index])
      /\ index \in DOMAIN placed /\ placed[index] \in Nat
      /\ address = placed[index] + word - 1
  BY CopyFacts
<1>2. /\ image' = image \/ image' = With(image, address, w)
      /\ address' = address + 1
  BY Zenon DEF Write
<1>3. /\ DOMAIN image' \subseteq Nat
      /\ \A a \in DOMAIN image' : image'[a] \in Word
  <2> DEFINE m == With(image, address, w)
  <2>1. /\ DOMAIN m = DOMAIN image \cup {address} /\ m[address] = w
        /\ \A x \in DOMAIN image : x # address => m[x] = image[x]
    BY DEF With
  <2> HIDE DEF m
  <2>2. DOMAIN m \subseteq Nat /\ \A a \in DOMAIN m : m[a] \in Word
    BY <1>1, <2>1 DEF Types
  <2>3. image' = image \/ image' = m
    BY <1>2 DEF m
  <2> QED
    BY <1>1, <2>2, <2>3 DEF Types
<1>4. /\ address' \in Nat /\ word' \in Nat /\ index' \in 1 .. Len(list') + 1
      /\ index' <= Len(list') /\ DOMAIN placed' \subseteq 1 .. Len(list')
  <2>1. /\ address + 1 \in Nat /\ word + 1 \in Nat
        /\ index \in 1 .. Len(list') + 1 /\ index <= Len(list')
    BY <1>1
  <2>2. DOMAIN placed \subseteq 1 .. Len(list')
    BY <1>1 DEF Types
  <2> QED
    BY <1>2, <2>1, <2>2
<1>5. Types'
  <2>1. /\ files \in Libraries /\ origin \in Origins /\ origin \in Nat
        /\ prog \in Seq(Statement) /\ Len(prog) <= MaxStatements
        /\ phase \in {"pass1", "link1", "pass2", "link2", "done", "failed"}
        /\ pc \in 1 .. MaxStatements + 1 /\ asked \subseteq Name
        /\ DOMAIN bind \subseteq Name /\ \A n \in DOMAIN bind : bind[n] \in Nat
    BY <1>1, Zenon DEF Types
  <2> QED
    BY <1>3, <1>4, <2>1, Zenon DEF Types
<1>6. Reading'
  BY <1>1 DEF Reading
<1>7. Copies'
  <2>1. list'[index] = list[index] /\ word + 1 > 0 /\ word + 1 # 0
    BY <1>1
  <2>2. address + 1 = placed[index] + (word + 1) - 1
        /\ word + 1 <= SizeIn(files, list[index]) + 1
    BY <1>1
  <2> QED
    BY <1>1, <1>2, <2>1, <2>2 DEF Copies
<1>8. PlacesIn(origin, files, prog, list', placed) /\ LabelsIn(prog, bind, list', placed)
  BY LongerFacts
<1> QED
  BY <1>5, <1>6, <1>7, <1>8

LEMMA ConstantTypes == Plain \notin Name /\ Plain \in Word
BY LinkerConstants DEF LinkerConstants, Word

(* Both words of a call are words. *)
LEMMA CallTypes ==
  ASSUME NEW a \in Nat
  PROVE  CallWord(a) \in Word /\ LinkedCall(a) \in Word
<1>1. Reach \in Nat /\ Reach > 0
  BY LinkerConstants DEF LinkerConstants
<1>2. PICK r \in Nat, m \in Nat : r = a \div Reach /\ m = a % Reach
  BY <1>1
<1>3. PICK q \in Nat : q = r \div 4
  BY <1>2
<1>4. [op |-> 3, field |-> m] \in Word /\ [op |-> 4 * q + 3, field |-> m] \in Word
  BY <1>2, <1>3 DEF Word
<1> QED
  BY <1>2, <1>3, <1>4 DEF CallWord, LinkedCall, Region, Jal

LEMMA CopyPlainStep ==
  ASSUME IInv, CopyPlain
  PROVE  IInv'
<1>1. /\ Copying /\ Write(Plain) /\ word' = word + 1
      /\ UNCHANGED <<files, origin, prog, phase, pc, bind, list, index, placed, asked>>
  BY DEF CopyPlain
<1>2. /\ Types /\ phase \in {"link1", "link2"} /\ index \in 1 .. Len(list)
      /\ word \in Nat /\ word > 0 /\ Len(list) \in Nat
  BY <1>1, CopyFacts
<1>3. CodeIn(files, list[index], word - 1) = Plain
  BY SameOperators DEF CopyPlain
<1>4. Types' /\ Reading' /\ Copies' /\ PlacesIn(origin, files, prog, list, placed)'
      /\ LabelsIn(prog, bind, list, placed)'
  <2>1. list' \in Seq(Name) /\ \A i \in DOMAIN list' : HoldingIn(files, list'[i]) # {}
    BY <1>1, <1>2 DEF Types
  <2>2. /\ Len(list') \in Nat /\ Len(list) <= Len(list')
        /\ \A i \in 1 .. Len(list) : list'[i] = list[i]
    BY <1>1, <1>2
  <2>3. UNCHANGED <<files, origin, prog, phase, pc, bind, index, placed, asked>>
    BY <1>1
  <2> QED
    BY <1>1, <2>1, <2>2, <2>3, ConstantTypes, CopyStep
<1>5. UniqueIn(list)' /\ WantedIn(files, list, asked)'
  BY <1>1 DEF IInv
<1>6. Domain'
  BY <1>1, <1>2 DEF IInv, Domain
<1>7. Listed'
  <2>1. CASE phase = "link1"
    <3>1. /\ ListedUpTo(files, list, index - 1)
          /\ WordsListed(files, list, list[index], word - 2)
      BY <2>1 DEF IInv, Listed
    <3>2. \A k \in 0 .. word - 1 : k \in 0 .. word - 2 \/ k = word - 1
      BY <1>2
    <3>3. WordsListed(files, list, list[index], word - 1)
      BY <1>3, <3>1, <3>2 DEF WordsListed
    <3>4. word' - 2 = word - 1
      BY <1>1, <1>2
    <3> QED
      BY <1>1, <2>1, <3>1, <3>3, <3>4 DEF Listed
  <2>2. CASE phase = "link2"
    BY <1>1, <2>2 DEF IInv, Listed
  <2> QED
    BY <1>2, <2>1, <2>2
<1>8. Written'
  <2>1. CASE phase = "link2"
    <3>1. image' = With(image, address, Plain)
      BY <1>1, <2>1 DEF Write, InPass1
    <3>2. /\ AllRight(files, prog, bind, list, placed, image', index - 1)
          /\ RightUpTo(files, prog, bind, list, placed, image', index, word - 1)
      <4>1. RightWord(prog, bind, list, placed, CodeIn(files, list[index], word - 1), Plain)
        BY <1>3 DEF RightWord
      <4> QED
        BY <1>1, <2>1, <3>1, <4>1, CopyRight
    <3>3. word' - 2 = word - 1
      BY <1>1, <1>2
    <3> QED
      BY <1>1, <2>1, <3>2, <3>3 DEF Written
  <2>2. CASE phase = "link1"
    BY <1>1, <2>2 DEF Written
  <2> QED
    BY <1>2, <2>1, <2>2
<1> QED
  BY <1>4, <1>5, <1>6, <1>7, <1>8 DEF IInv

(* The list gets a name that was asked for, or that a function calls. *)
LEMMA WantedStep ==
  ASSUME IInv, NEW n \in Name, NEW l, l = Search(list, n), NEW as, asked \subseteq as,
         n \in as \/ \E j \in 1 .. Len(list) : n \in CallsIn(files, list[j])
  PROVE  WantedIn(files, l, as)
<1>1. /\ Len(list) \in Nat /\ Len(l) \in Nat /\ Len(list) <= Len(l)
      /\ Len(l) <= Len(list) + 1
      /\ \A i \in 1 .. Len(list) : l[i] = list[i]
      /\ \A i \in 1 .. Len(l) : i > Len(list) => l[i] = n
  BY SearchFacts DEF IInv
<1>2. WantedIn(files, list, asked)
  BY DEF IInv
<1>3. ASSUME NEW i \in 1 .. Len(l)
      PROVE  l[i] \in as \/ \E j \in 1 .. i - 1 : l[i] \in CallsIn(files, l[j])
  <2>1. CASE i <= Len(list)
    <3>1. i \in 1 .. Len(list) /\ l[i] = list[i]
      BY <1>1, <1>3, <2>1
    <3>2. \A j \in 1 .. i - 1 : l[j] = list[j]
      BY <1>1, <1>3, <2>1
    <3> QED
      BY <1>2, <3>1, <3>2 DEF WantedIn
  <2>2. CASE i > Len(list)
    <3>1. l[i] = n /\ i = Len(list) + 1
      BY <1>1, <1>3, <2>2
    <3>2. \A j \in 1 .. Len(list) : j \in 1 .. i - 1 /\ l[j] = list[j]
      BY <1>1, <3>1
    <3> QED
      BY <3>1, <3>2
  <2>3. i <= Len(list) \/ i > Len(list)
    BY <1>1, <1>3
  <2> QED
    BY <2>1, <2>2, <2>3
<1> QED
  BY <1>3 DEF WantedIn

(* What fails keeps what holds of all phases. *)
LEMMA FailStep ==
  ASSUME IInv, Fail, UNCHANGED <<files, origin, asked>>, pc' \in 1 .. MaxStatements + 1,
         prog' \in Seq(Statement), Len(prog') <= MaxStatements,
         prog' = prog \/ (phase = "pass1" /\ DefinedIn(prog) \subseteq DefinedIn(prog'))
  PROVE  IInv'
<1>1. /\ phase' = "failed"
      /\ UNCHANGED <<address, bind, list, index, word, image, placed>>
  BY DEF Fail
<1>2. Types'
  BY <1>1 DEF IInv, Types
<1>3. PlacesIn(origin, files, prog, list, placed)' /\ LabelsIn(prog, bind, list, placed)'
  <2>1. CASE prog' = prog
    BY <1>1, <2>1 DEF IInv
  <2>2. CASE phase = "pass1" /\ DefinedIn(prog) \subseteq DefinedIn(prog')
    <3>1. DOMAIN placed = {}
      BY <2>2 DEF IInv, Domain
    <3>2. PlacesIn(origin, files, prog', list, placed)
      BY <3>1 DEF PlacesIn
    <3>3. LabelsIn(prog', bind, list, placed)
      BY <2>2, <3>1 DEF IInv, LabelsIn
    <3> QED
      BY <1>1, <3>2, <3>3
  <2> QED
    BY <2>1, <2>2
<1>4. UniqueIn(list)' /\ WantedIn(files, list, asked)'
  BY <1>1 DEF IInv
<1> QED
  BY <1>1, <1>2, <1>3, <1>4 DEF IInv, Reading, Domain, Copies, Listed, Written

LEMMA CopyCallStep ==
  ASSUME IInv, CopyCall
  PROVE  IInv'
<1> DEFINE c == CalledIn(files, list[index], word - 1)
<1>1. /\ Copying /\ UNCHANGED <<files, origin, prog, pc, asked>>
      /\ CodeIn(files, list[index], word - 1) # Plain
      /\ c = CalledBy(list[index], word - 1) /\ Holding(c) = HoldingIn(files, c)
  BY SameOperators DEF CopyCall
<1>2. /\ Types /\ phase \in {"link1", "link2"} /\ index \in 1 .. Len(list)
      /\ word \in Nat /\ word > 0 /\ Len(list) \in Nat
      /\ SizeIn(files, list[index]) \in Nat /\ word <= SizeIn(files, list[index])
  BY <1>1, CopyFacts
<1>3. /\ c \in Name \cup {Plain}
      /\ FileIn(files, list[index]).type = "ar" => c = CodeIn(files, list[index], word - 1)
  <2>1. HoldingIn(files, list[index]) # {} /\ files \in Libraries /\ word - 1 \in Nat
    BY <1>2, OnList DEF Types
  <2> QED
    BY <2>1, CodeType
<1>4. c \in CallsIn(files, list[index])
  <2>1. word - 1 \in 0 .. SizeIn(files, list[index]) - 1
    BY <1>2
  <2> QED
    BY <1>1, <2>1 DEF CallsIn
<1>5. prog \in Seq(Statement) /\ Len(prog) <= MaxStatements /\ pc \in 1 .. MaxStatements + 1
  BY <1>2 DEF Types
<1>6. \A k \in 0 .. word - 1 : k \in 0 .. word - 2 \/ k = word - 1
  BY <1>2
<1> HIDE DEF c
<1>7. CASE Fail
  BY <1>1, <1>7, <1>5, FailStep
<1>8. CASE /\ phase = "link1" /\ c # Plain /\ Holding(c) # {}
           /\ list' = Search(list, c)
           /\ Write(CallWord(0))
           /\ word' = word + 1
           /\ UNCHANGED <<phase, bind, index, placed>>
  <2>0. c \in Name /\ UniqueIn(list)
    BY <1>3, <1>8 DEF IInv
  <2>1. /\ list' \in Seq(Name) /\ \A i \in DOMAIN list' : HoldingIn(files, list'[i]) # {}
        /\ Len(list') \in Nat /\ Len(list) <= Len(list')
        /\ \A i \in 1 .. Len(list) : list'[i] = list[i]
        /\ UniqueIn(list') /\ c \in Elements(list')
    <3> DEFINE l == Search(list, c)
    <3>1. /\ l \in Seq(Name) /\ \A i \in DOMAIN l : HoldingIn(files, l[i]) # {}
          /\ Len(l) \in Nat /\ Len(list) <= Len(l)
          /\ \A i \in 1 .. Len(list) : l[i] = list[i]
          /\ UniqueIn(l) /\ (HoldingIn(files, c) # {} => c \in Elements(l))
      BY ZenonT(40), <1>2, <2>0, SearchFacts
    <3>2. HoldingIn(files, c) # {} /\ list' = l
      BY <1>1, <1>8
    <3> HIDE DEF l
    <3> QED
      BY <3>1, <3>2
  <2>2. CallWord(0) \in Word
    BY CallTypes
  <2>3. Types' /\ Reading' /\ Copies' /\ PlacesIn(origin, files, prog, list, placed)'
        /\ LabelsIn(prog, bind, list, placed)'
    <3>1. UNCHANGED <<files, origin, prog, phase, pc, bind, index, placed, asked>>
      BY <1>1, <1>8
    <3> QED
      BY <1>1, <1>8, <2>1, <2>2, <3>1, CopyStep
  <2>4. WantedIn(files, list', asked)
    BY <1>2, <1>4, <1>8, <2>0, WantedStep
  <2>5. Domain'
    BY <1>2, <1>8 DEF IInv, Domain
  <2>6. Listed'
    <3>1. /\ ListedUpTo(files, list, index - 1)
          /\ WordsListed(files, list, list[index], word - 2)
      BY <1>8 DEF IInv, Listed
    <3>2. Elements(list) \subseteq Elements(list')
      <4>1. DOMAIN list' = 1 .. Len(list')
        BY <2>1
      <4> QED
        BY <2>1, <4>1, LongerFacts DEF Elements
    <3>3. \A i \in 1 .. index : list'[i] = list[i]
      BY <1>2, <2>1
    <3>4. ListedUpTo(files, list', index - 1)
      <4>1. \A i \in 1 .. index - 1 : i \in 1 .. index
        BY <1>2
      <4> QED
        BY <3>1, <3>2, <3>3, <4>1 DEF ListedUpTo
    <3>5. WordsListed(files, list', list[index], word - 1)
      BY <1>6, <2>1, <3>1, <3>2 DEF WordsListed, c
    <3>6. list'[index] = list[index] /\ word' - 2 = word - 1
      BY <1>2, <1>8, <3>3
    <3> QED
      BY <1>1, <1>8, <3>4, <3>5, <3>6 DEF Listed
  <2>7. Written'
    BY <1>8 DEF Written
  <2> QED
    BY <1>1, <2>1, <2>3, <2>4, <2>5, <2>6, <2>7 DEF IInv
<1>9. CASE /\ phase = "link2" /\ c \in DOMAIN bind
           /\ Write(LinkedCall(bind[c]))
           /\ word' = word + 1
           /\ UNCHANGED <<phase, bind, list, index, placed>>
  <2>1. LinkedCall(bind[c]) \in Word /\ c # Plain
    <3>1. c \in Name /\ bind[c] \in Nat
      BY <1>2, <1>9 DEF Types
    <3> QED
      BY <3>1, ConstantTypes, CallTypes
  <2>2. /\ list' \in Seq(Name) /\ \A i \in DOMAIN list' : HoldingIn(files, list'[i]) # {}
        /\ Len(list') \in Nat /\ Len(list) <= Len(list')
        /\ \A i \in 1 .. Len(list) : list'[i] = list[i]
    BY <1>2, <1>9 DEF Types
  <2>3. Types' /\ Reading' /\ Copies' /\ PlacesIn(origin, files, prog, list, placed)'
        /\ LabelsIn(prog, bind, list, placed)'
    <3>1. UNCHANGED <<files, origin, prog, phase, pc, bind, index, placed, asked>>
      BY <1>1, <1>9
    <3> QED
      BY <1>1, <1>9, <2>1, <2>2, <3>1, CopyStep
  <2>4. UniqueIn(list)' /\ WantedIn(files, list, asked)'
    BY <1>1, <1>9 DEF IInv
  <2>5. Domain' /\ Listed'
    BY <1>1, <1>9 DEF IInv, Domain, Listed
  <2>6. Written'
    <3>1. image' = With(image, address, LinkedCall(bind[c]))
      BY <1>9 DEF Write, InPass1
    <3>2. bind[c] = TargetIn(prog, bind, list, placed, c) /\ bind[c] \in Nat
      BY <1>2, <1>9, TargetFacts DEF Types
    <3>3. FileIn(files, list[index]).type = "ar" =>
            RightWord(prog, bind, list, placed, CodeIn(files, list[index], word - 1),
                      LinkedCall(bind[c]))
      BY <1>1, <1>3, <3>2 DEF RightWord
    <3>4. /\ AllRight(files, prog, bind, list, placed, image', index - 1)
          /\ RightUpTo(files, prog, bind, list, placed, image', index, word - 1)
      BY <1>1, <1>9, <3>1, <3>3, CopyRight
    <3>5. word' - 2 = word - 1
      BY <1>2, <1>9
    <3> QED
      BY <1>1, <1>9, <3>4, <3>5 DEF Written
  <2> QED
    BY <1>1, <2>3, <2>4, <2>5, <2>6 DEF IInv
<1> QED
  BY <1>1, <1>7, <1>8, <1>9 DEF CopyCall, c

----------------------------------------------------------------------------
(* The passes. *)

LEMMA DefinedGrows ==
  ASSUME NEW p \in Seq(Statement), NEW st \in Statement
  PROVE  /\ DefinedIn(p) \subseteq DefinedIn(Append(p, st))
         /\ st.op = "label" => st.name \in DefinedIn(Append(p, st))
<1> DEFINE q == Append(p, st)
<1>1. /\ Len(p) \in Nat /\ DOMAIN p = 1 .. Len(p) /\ DOMAIN q = 1 .. Len(p) + 1
      /\ q[Len(p) + 1] = st /\ \A i \in 1 .. Len(p) : q[i] = p[i]
  OBVIOUS
<1> HIDE DEF q
<1>2. \A i \in DOMAIN p : i \in DOMAIN q /\ q[i] = p[i]
  BY <1>1
<1>3. DefinedIn(p) \subseteq DefinedIn(q)
  BY <1>2 DEF DefinedIn
<1>4. ASSUME st.op = "label"  PROVE st.name \in DefinedIn(q)
  <2>1. Len(p) + 1 \in DOMAIN q /\ q[Len(p) + 1].op = "label"
        /\ q[Len(p) + 1].name = st.name
    BY <1>1, <1>4
  <2> QED
    BY <2>1 DEF DefinedIn
<1> QED
  BY <1>3, <1>4 DEF q

LEMMA FetchFacts ==
  ASSUME IInv, NEW st \in Statement, Fetch(st)
  PROVE  /\ Types /\ phase \in {"pass1", "pass2"} /\ files' = files
         /\ origin' = origin /\ pc' = pc + 1
         /\ pc' \in 1 .. MaxStatements + 1 /\ prog' \in Seq(Statement)
         /\ Len(prog') <= MaxStatements /\ word = 0 /\ address \in Nat
         /\ pc' <= Len(prog') + 1
         /\ origin + Words(prog', pc' - 1) = address + (IF st.op = "call" THEN 1 ELSE 0)
         /\ phase = "pass1" => /\ pc' = Len(prog') + 1 /\ index = 1 /\ DOMAIN placed = {}
                               /\ prog' = Append(prog, st)
                               /\ DefinedIn(prog) \subseteq DefinedIn(prog')
         /\ phase = "pass2" => prog' = prog
<1>1. Types
  BY DEF IInv
<1>2. /\ Len(prog) \in Nat /\ prog \in Seq(Statement) /\ MaxStatements \in Nat /\ pc \in Nat
      /\ pc >= 1 /\ address \in Nat /\ origin \in Nat /\ Len(prog) <= MaxStatements
  BY <1>1, LinkerConstants DEF Types, LinkerConstants
<1>3. files' = files /\ origin' = origin /\ pc' = pc + 1
  BY DEF Fetch
<1>4. CASE phase = "pass1" /\ Len(prog) < MaxStatements /\ prog' = Append(prog, st)
  <2>1. /\ pc = Len(prog) + 1 /\ word = 0 /\ index = 1 /\ DOMAIN placed = {}
        /\ address = origin + Words(prog, pc - 1)
    BY <1>4 DEF IInv, Reading, Domain
  <2>2. pc - 1 = Len(prog) /\ pc' - 1 = Len(prog) + 1
    BY <1>2, <1>3, <2>1
  <2> DEFINE q == Append(prog, st)
  <2>3. /\ q \in Seq(Statement) /\ Len(q) = Len(prog) + 1
        /\ Words(q, Len(prog) + 1)
             = Words(prog, Len(prog)) + (IF st.op = "call" THEN 1 ELSE 0)
        /\ DefinedIn(prog) \subseteq DefinedIn(q)
    BY <1>2, WordsAppend, DefinedGrows
  <2>4. prog' = q
    BY <1>4
  <2> HIDE DEF q
  <2>5. Len(prog') <= MaxStatements /\ pc' \in 1 .. MaxStatements + 1
        /\ pc' = Len(prog') + 1
    BY <1>2, <1>3, <1>4, <2>1, <2>3, <2>4
  <2>6. origin + Words(prog', pc' - 1) = address + (IF st.op = "call" THEN 1 ELSE 0)
    <3>1. Words(prog, Len(prog)) \in Nat
      BY <1>2, WordsType
    <3> QED
      BY <1>2, <2>1, <2>2, <2>3, <2>4, <3>1
  <2>7. pc' <= Len(prog') + 1
    BY <1>2, <2>3, <2>4, <2>5
  <2> QED
    BY <1>1, <1>2, <1>3, <1>4, <2>1, <2>3, <2>4, <2>5, <2>6, <2>7 DEF q
<1>5. CASE phase = "pass2" /\ pc <= Len(prog) /\ st = prog[pc] /\ prog' = prog
  <2>1. word = 0 /\ address = origin + Words(prog, pc - 1)
    BY <1>5 DEF IInv, Reading
  <2>2. pc - 1 \in Nat /\ (pc - 1) + 1 = pc /\ pc' - 1 = pc
    BY <1>2, <1>3
  <2>3. Words(prog, (pc - 1) + 1)
          = Words(prog, pc - 1) + (IF prog[(pc - 1) + 1].op = "call" THEN 1 ELSE 0)
    BY <2>2, WordsNext
  <2>4. origin + Words(prog', pc' - 1) = address + (IF st.op = "call" THEN 1 ELSE 0)
    <3>1. Words(prog, pc - 1) \in Nat
      BY <2>2, WordsType
    <3> QED
      BY <1>2, <1>5, <2>1, <2>2, <2>3, <3>1
  <2>5. pc' \in 1 .. MaxStatements + 1 /\ pc' <= Len(prog') + 1
    BY <1>2, <1>3, <1>5
  <2> QED
    BY <1>1, <1>2, <1>3, <1>5, <2>1, <2>4, <2>5
<1> QED
  BY <1>4, <1>5 DEF Fetch

(* A statement was read, and the passes go on; l is the list afterwards. *)
LEMMA ReadStep ==
  ASSUME IInv, NEW st \in Statement, Fetch(st), UNCHANGED <<phase, index, word, placed>>,
         address' = origin + Words(prog', pc' - 1),
         \/ st.op = "call" /\ \E w \in Word : Write(w)
         \/ image' = image,
         DOMAIN bind' \subseteq Name, \A n \in DOMAIN bind' : bind'[n] \in Nat,
         LabelsIn(prog', bind', list', placed),
         list' = list \/ phase = "pass1",
         list' \in Seq(Name), \A i \in DOMAIN list' : HoldingIn(files, list'[i]) # {},
         Len(list') \in Nat, UniqueIn(list'), WantedIn(files, list', asked'),
         asked' \subseteq Name
  PROVE  IInv'
<1>1. /\ Types /\ phase \in {"pass1", "pass2"} /\ files' = files
      /\ origin' = origin /\ pc' = pc + 1
      /\ pc' \in 1 .. MaxStatements + 1 /\ prog' \in Seq(Statement)
      /\ Len(prog') <= MaxStatements /\ word = 0 /\ address \in Nat
      /\ pc' <= Len(prog') + 1
      /\ origin + Words(prog', pc' - 1) = address + (IF st.op = "call" THEN 1 ELSE 0)
      /\ phase = "pass1" => /\ pc' = Len(prog') + 1 /\ index = 1 /\ DOMAIN placed = {}
      /\ phase = "pass2" => prog' = prog
  BY FetchFacts
<1>2. address' \in Nat
  BY <1>1
<1>3. /\ DOMAIN image' \subseteq Nat
      /\ \A a \in DOMAIN image' : image'[a] \in Word
  <2>1. CASE image' = image
    BY <1>1, <2>1 DEF Types
  <2>2. ASSUME NEW w \in Word, Write(w)
        PROVE  /\ DOMAIN image' \subseteq Nat
               /\ \A a \in DOMAIN image' : image'[a] \in Word
    <3> DEFINE m == With(image, address, w)
    <3>1. /\ DOMAIN m = DOMAIN image \cup {address} /\ m[address] = w
          /\ \A x \in DOMAIN image : x # address => m[x] = image[x]
      BY DEF With
    <3>2. image' = image \/ image' = m
      BY <2>2, Zenon DEF Write
    <3> HIDE DEF m
    <3> QED
      BY <1>1, <2>2, <3>1, <3>2 DEF Types
  <2> QED
    BY <2>1, <2>2
<1>4. Types'
  <2>1. DOMAIN placed \subseteq 1 .. Len(list') /\ index \in 1 .. Len(list') + 1
    <3>1. CASE phase = "pass1"
      BY <1>1, <3>1
    <3>2. CASE list' = list
      BY <1>1, <3>2 DEF Types
    <3> QED
      BY <3>1, <3>2
  <2> QED
    BY <1>1, <1>2, <1>3, <2>1 DEF Types
<1>5. Reading'
  <2>1. phase' = phase /\ word' = 0 /\ index' = index
    BY <1>1
  <2> QED
    BY <1>1, <2>1 DEF Reading
<1>6. PlacesIn(origin, files, prog', list', placed)
  <2>1. CASE phase = "pass1"
    BY <1>1, <2>1 DEF PlacesIn
  <2>2. CASE phase = "pass2"
    <3>1. list' = list /\ prog' = prog
      BY <1>1, <2>2
    <3> QED
      BY <3>1 DEF IInv
  <2> QED
    BY <1>1, <2>1, <2>2
<1>7. Domain' /\ Listed'
  <2>1. CASE phase = "pass1"
    BY <1>1, <2>1 DEF Domain, Listed
  <2>2. CASE phase = "pass2"
    <3>1. list' = list
      BY <2>2
    <3> QED
      BY <1>1, <2>2, <3>1 DEF IInv, Domain, Listed
  <2> QED
    BY <1>1, <2>1, <2>2
<1>8. Copies' /\ Written'
  BY <1>1 DEF Copies, Written
<1> QED
  BY <1>1, <1>4, <1>5, <1>6, <1>7, <1>8 DEF IInv

LEMMA CallStep ==
  ASSUME IInv, NEW st \in Statement, Call(st)
  PROVE  IInv'
<1>1. st.op = "call" /\ Fetch(st) /\ st.name \in Name
  BY DEF Call, Statement
<1>2. /\ Types /\ phase \in {"pass1", "pass2"} /\ files' = files
      /\ origin' = origin /\ pc' = pc + 1
      /\ pc' \in 1 .. MaxStatements + 1 /\ prog' \in Seq(Statement)
      /\ Len(prog') <= MaxStatements /\ address \in Nat
      /\ origin + Words(prog', pc' - 1) = address + 1
      /\ phase = "pass1" => /\ DOMAIN placed = {} /\ prog' = Append(prog, st)
                            /\ DefinedIn(prog) \subseteq DefinedIn(prog')
      /\ phase = "pass2" => prog' = prog
  BY <1>1, FetchFacts
<1>3. /\ list \in Seq(Name) /\ \A i \in DOMAIN list : HoldingIn(files, list[i]) # {}
      /\ Len(list) \in Nat /\ UniqueIn(list) /\ WantedIn(files, list, asked)
      /\ asked \subseteq Name
      /\ DOMAIN bind \subseteq Name /\ \A n \in DOMAIN bind : bind[n] \in Nat
  BY <1>2 DEF IInv, Types
<1>4. LabelsIn(prog', bind, list, placed)
  <2>1. LabelsIn(prog, bind, list, placed)
    BY DEF IInv
  <2>2. DefinedIn(prog) \subseteq DefinedIn(prog')
    BY <1>2
  <2> QED
    BY <2>1, <2>2 DEF LabelsIn
<1>5. CASE /\ st.name \in DOMAIN bind
           /\ Write(CallWord(bind[st.name]))
           /\ UNCHANGED <<phase, bind, list, index, word, placed, asked>>
  <2>1. CallWord(bind[st.name]) \in Word
    BY <1>3, <1>5, CallTypes
  <2>2. address' = origin + Words(prog', pc' - 1)
    BY <1>2, <1>5 DEF Write
  <2>3. \E w \in Word : Write(w)
    BY <1>5, <2>1
  <2>4. UNCHANGED <<phase, index, word, placed>> /\ bind' = bind /\ list' = list
        /\ asked' = asked
    BY <1>5
  <2> QED
    BY <1>1, <1>3, <1>4, <2>2, <2>3, <2>4, ReadStep
<1>6. CASE /\ st.name \notin DOMAIN bind /\ phase = "pass1"
           /\ list' = Search(list, st.name)
           /\ asked' = asked \cup {st.name}
           /\ Write(CallWord(0))
           /\ UNCHANGED <<phase, bind, index, word, placed>>
  <2> DEFINE l == Search(list, st.name)
  <2>1. /\ l \in Seq(Name) /\ \A i \in DOMAIN l : HoldingIn(files, l[i]) # {}
        /\ Len(l) \in Nat /\ UniqueIn(l)
    BY <1>1, <1>2, <1>3, SearchFacts
  <2>2. WantedIn(files, l, asked \cup {st.name})
    <3>1. asked \subseteq asked \cup {st.name} /\ st.name \in asked \cup {st.name}
      OBVIOUS
    <3> QED
      BY <1>1, <3>1, WantedStep
  <2>3. LabelsIn(prog', bind, l, placed)
    BY <1>2, <1>4, <1>6 DEF LabelsIn
  <2> HIDE DEF l
  <2>4. list' = l /\ bind' = bind /\ UNCHANGED <<phase, index, word, placed>>
        /\ asked' = asked \cup {st.name}
    BY <1>6 DEF l
  <2>5. address' = origin + Words(prog', pc' - 1)
    BY <1>2, <1>6 DEF Write
  <2>6. \E w \in Word : Write(w)
    BY <1>6, CallTypes
  <2>7. WantedIn(files, list', asked') /\ asked' \subseteq Name
        /\ LabelsIn(prog', bind', list', placed)
    BY <1>1, <1>3, <2>2, <2>3, <2>4
  <2> QED
    BY <1>1, <1>3, <1>6, <2>1, <2>4, <2>5, <2>6, <2>7, ReadStep
<1>7. CASE phase = "pass2" /\ Fail /\ UNCHANGED asked
  BY <1>2, <1>7, FailStep
<1> QED
  BY <1>5, <1>6, <1>7 DEF Call

LEMMA LabelStep ==
  ASSUME IInv, NEW st \in Statement, Label(st)
  PROVE  IInv'
<1>1. st.op = "label" /\ Fetch(st) /\ st.name \in Name /\ asked' = asked
  BY DEF Label, Statement
<1>2. /\ Types /\ phase \in {"pass1", "pass2"} /\ files' = files
      /\ origin' = origin /\ pc' = pc + 1
      /\ pc' \in 1 .. MaxStatements + 1 /\ prog' \in Seq(Statement)
      /\ Len(prog') <= MaxStatements /\ address \in Nat
      /\ origin + Words(prog', pc' - 1) = address + 0
      /\ phase = "pass1" => /\ DOMAIN placed = {} /\ prog' = Append(prog, st)
                            /\ DefinedIn(prog) \subseteq DefinedIn(prog')
      /\ phase = "pass2" => prog' = prog
  BY <1>1, FetchFacts
<1>3. /\ list \in Seq(Name) /\ \A i \in DOMAIN list : HoldingIn(files, list[i]) # {}
      /\ Len(list) \in Nat /\ UniqueIn(list) /\ WantedIn(files, list, asked)
      /\ asked \subseteq Name
      /\ DOMAIN bind \subseteq Name /\ \A n \in DOMAIN bind : bind[n] \in Nat
  BY <1>2 DEF IInv, Types
<1>4. LabelsIn(prog, bind, list, placed) /\ DefinedIn(prog) \subseteq DefinedIn(prog')
  BY <1>2 DEF IInv
<1>5. CASE phase = "pass1" /\ Fail
  BY <1>1, <1>2, <1>4, <1>5, FailStep
<1>6. CASE /\ phase = "pass1" /\ st.name \notin DOMAIN bind
           /\ bind' = With(bind, st.name, address)
           /\ UNCHANGED <<phase, address, list, index, word, image, placed>>
  <2> DEFINE b == With(bind, st.name, address)
  <2>1. /\ DOMAIN b = DOMAIN bind \cup {st.name} /\ b[st.name] = address
        /\ \A n \in DOMAIN bind : n # st.name => b[n] = bind[n]
    BY DEF With
  <2> HIDE DEF b
  <2>2. bind' = b
    BY <1>6 DEF b
  <2>3. DOMAIN b \subseteq Name /\ \A n \in DOMAIN b : b[n] \in Nat
    BY <1>1, <1>2, <1>3, <2>1
  <2>4. LabelsIn(prog', b, list, placed)
    <3>1. prog \in Seq(Statement) /\ prog' = Append(prog, st)
      BY <1>2, <1>6 DEF Types
    <3>2. st.name \in DefinedIn(prog')
      BY <1>1, <3>1, DefinedGrows
    <3>3. DOMAIN placed = {}
      BY <1>2, <1>6
    <3> QED
      BY <1>4, <2>1, <3>2, <3>3 DEF LabelsIn
  <2>5. address' = origin + Words(prog', pc' - 1)
    BY <1>2, <1>6
  <2>6. UNCHANGED <<phase, index, word, placed>> /\ list' = list /\ image' = image
    BY <1>6
  <2> QED
    BY <1>1, <1>3, <2>2, <2>3, <2>4, <2>5, <2>6, ReadStep
<1>7. CASE /\ phase = "pass2"
           /\ UNCHANGED <<phase, address, bind, list, index, word, image, placed>>
  <2>1. address' = origin + Words(prog', pc' - 1)
    BY <1>2, <1>7
  <2>2. UNCHANGED <<phase, index, word, placed>> /\ list' = list /\ image' = image
        /\ bind' = bind
    BY <1>7
  <2>3. LabelsIn(prog', bind, list, placed)
    BY <1>2, <1>4, <1>7
  <2> QED
    BY <1>1, <1>3, <2>1, <2>2, <2>3, ReadStep
<1> QED
  BY <1>5, <1>6, <1>7 DEF Label

LEMMA NextStep ==
  ASSUME IInv, [Next]_vars
  PROVE  IInv'
<1>1. CASE Assemble
  BY <1>1, CallStep, LabelStep DEF Assemble
<1>2. CASE StartLink
  BY <1>2, StartLinkStep
<1>3. CASE Link
  BY <1>3, OpenFunctionStep, CopyPlainStep, CopyCallStep, CloseFunctionStep, EndLinkStep
     DEF Link
<1>4. CASE UNCHANGED vars
  BY <1>4 DEF vars, IInv, Types, Reading, Domain, Copies, Listed, Written
<1> QED
  BY <1>1, <1>2, <1>3, <1>4 DEF Next

LEMMA InitHolds == Init => IInv
<1> SUFFICES ASSUME Init PROVE IInv
  OBVIOUS
<1>1. /\ files \in Libraries /\ prog = << >> /\ phase = "pass1" /\ pc = 1
      /\ origin \in Origins /\ origin \in Nat /\ address = origin
      /\ bind = << >> /\ list = << >> /\ index = 1 /\ word = 0 /\ image = << >>
      /\ placed = << >> /\ asked = {} /\ MaxStatements \in Nat
  BY LinkerConstants DEF Init, LinkerConstants
<1>2. DOMAIN bind = {} /\ DOMAIN image = {} /\ DOMAIN placed = {} /\ Len(list) = 0
      /\ Len(prog) = 0
  BY <1>1
<1>3. Types
  BY <1>1, <1>2 DEF Types
<1>4. Reading
  <2>1. {i \in 1 .. 0 : prog[i].op = "call"} = {}
    OBVIOUS
  <2>2. Words(prog, 0) = 0
    BY <2>1, FS_EmptySet DEF Words
  <2>3. pc - 1 = 0
    BY <1>1
  <2> QED
    BY <1>1, <1>2, <2>2, <2>3 DEF Reading
<1>5. PlacesIn(origin, files, prog, list, placed) /\ LabelsIn(prog, bind, list, placed)
      /\ Domain
  BY <1>1, <1>2 DEF PlacesIn, LabelsIn, Domain
<1>6. UniqueIn(list) /\ WantedIn(files, list, asked)
  BY <1>2 DEF UniqueIn, WantedIn
<1> QED
  BY <1>1, <1>3, <1>4, <1>5, <1>6 DEF IInv, Copies, Listed, Written

LEMMA Invariant == Spec => []IInv
BY InitHolds, NextStep, PTL DEF Spec

----------------------------------------------------------------------------

(* The list holds functions there are, the places of functions are known   *)
(* for the list only, and what is written is written at an address that    *)
(* counts up (Linker.cpp:104, assembler.cpp:236).                          *)
THEOREM TypeCorrect == Spec => []TypeOK
<1>1. ASSUME IInv  PROVE TypeOK
  <2>1. Types
    BY <1>1 DEF IInv
  <2>2. \A i \in DOMAIN list : Holding(list[i]) # {}
    BY <2>1, SameOperators DEF Types
  <2> QED
    BY <2>1, <2>2 DEF Types, TypeOK, Word
<1> QED
  BY <1>1, Invariant, PTL

(* Every function is on the list once, and for a reason, and the functions *)
(* that a placed function calls are on it, for all libraries and programs  *)
(* (Linker.cpp:104, mips.cpp:2800).                                        *)
THEOREM LinkedOnce == Spec => []LinksWhatIsNeeded
<1>1. ASSUME IInv  PROVE LinksWhatIsNeeded
  <2>1. /\ UniqueIn(list) /\ WantedIn(files, list, asked) /\ Listed
        /\ Len(list) \in Nat /\ DOMAIN list = 1 .. Len(list)
    BY <1>1 DEF IInv, Types
  <2>2. \A n : Calls(n) = CallsIn(files, n)
    <3> TAKE n
    <3>1. Size(n) = SizeIn(files, n)
      BY SameOperators
    <3>2. \A k : Code(n, k) = CodeIn(files, n, k) /\ CalledBy(n, k) = CalledIn(files, n, k)
      BY SameOperators
    <3> QED
      BY <3>1, <3>2 DEF Calls, CallsIn
  <2> QED
    BY <2>1, <2>2 DEF LinksWhatIsNeeded, UniqueIn, WantedIn, Listed, ListedUpTo
<1> QED
  BY <1>1, Invariant, PTL

(* The second pass places every function where the first one did, so at    *)
(* its label, for all libraries and programs (assembler.cpp:236,           *)
(* tokens.cpp:674).                                                        *)
THEOREM PlacedAgain == Spec => []PlacedAtLabel
<1>1. ASSUME IInv  PROVE PlacedAtLabel
  <2> SUFFICES ASSUME phase = "link2", word = 0, index <= Len(list)
               PROVE  /\ address = placed[index]
                      /\ list[index] \in Defined \/ bind[list[index]] = address
    BY DEF PlacedAtLabel
  <2>1. /\ index \in 1 .. Len(list) /\ DOMAIN placed = 1 .. Len(list)
        /\ address = Begins(origin, files, prog, list, placed, index)
    BY <1>1 DEF IInv, Types, Domain, Copies
  <2>2. address = placed[index]
    BY <1>1, <2>1 DEF IInv, PlacesIn
  <2>3. list[index] \in DOMAIN bind
    BY <1>1, <2>1 DEF IInv, LabelsIn
  <2>4. CASE list[index] \in DefinedIn(prog)
    BY <2>2, <2>4 DEF DefinedIn, Defined
  <2>5. CASE \E j \in DOMAIN placed : list[j] = list[index] /\ bind[list[index]] = placed[j]
    <3>1. PICK j \in DOMAIN placed : list[j] = list[index] /\ bind[list[index]] = placed[j]
      BY <2>5
    <3>2. j = index
      BY <1>1, <2>1, <3>1 DEF IInv, UniqueIn
    <3> QED
      BY <2>2, <3>1, <3>2
  <2> QED
    BY <1>1, <2>3, <2>4, <2>5 DEF IInv, LabelsIn
<1> QED
  BY <1>1, Invariant, PTL

(* The word that the linker makes of a call is jal, and the processor adds *)
(* to the region of the word behind it what the field lacks, where that    *)
(* region is the one of a and below 4.                                     *)
LEMMA CallReaches ==
  ASSUME NEW a \in Nat, NEW x, Region(a) = x, x < 4
  PROVE  LinkedCall(a).op = Jal /\ Reach * x + LinkedCall(a).field = a
<1>1. Reach \in Nat /\ Reach > 0
  BY LinkerConstants DEF LinkerConstants
<1>2. /\ a \div Reach \in Nat /\ a % Reach \in Nat
      /\ a = Reach * (a \div Reach) + (a % Reach)
  BY <1>1
<1>3. x \in Nat /\ x = a \div Reach
  BY <1>2 DEF Region
<1>4. x \div 4 = 0
  BY <1>3
<1>5. LinkedCall(a) = [op |-> 4 * 0 + 3, field |-> a % Reach]
  BY <1>4 DEF LinkedCall
<1>6. LinkedCall(a).op = 3 /\ LinkedCall(a).field = a % Reach
  BY <1>5
<1> QED
  BY <1>2, <1>3, <1>6 DEF Jal

(* In the end every function of an archive is in the image as a whole, and *)
(* its calls are jal and go where the function or the label of that name   *)
(* is, if that is in the region of the call and below region 4, for all    *)
(* libraries, origins and programs (mips.cpp:2778-2822).                   *)
THEOREM CopiedWhole == Spec => []FunctionsWhole
<1>1. ASSUME IInv, phase = "done", NEW i \in DOMAIN list, FileOf(list[i]).type = "ar",
             NEW k \in 0 .. FileOf(list[i]).size[list[i]] - 1
      PROVE  RightWord(prog, bind, list, placed,
                       FileOf(list[i]).text[FileOf(list[i]).start[list[i]] + k + 1],
                       image[placed[i] + k])
  <2> DEFINE f == FileIn(files, list[i])
             n == list[i]
             w == f.text[f.start[n] + k + 1]
  <2>1. /\ Types /\ i \in 1 .. Len(list) /\ FileOf(n) = f /\ f.type = "ar"
        /\ AllRight(files, prog, bind, list, placed, image, Len(list))
    <3>1. Types
      BY <1>1 DEF IInv
    <3>2. i \in 1 .. Len(list)
      BY <3>1 DEF Types
    <3>3. FileOf(n) = f
      BY SameOperators
    <3>4. AllRight(files, prog, bind, list, placed, image, Len(list))
      BY <1>1 DEF IInv, Written
    <3> QED
      BY <1>1, <3>1, <3>2, <3>3, <3>4
  <2>2. IsFile(f) /\ n \in DOMAIN f.start
    <3>1. HoldingIn(files, n) # {} /\ files \in Libraries
      BY <2>1, OnList DEF Types
    <3> QED
      BY <3>1, FileFacts
  <2>3. k \in 0 .. SizeIn(files, n) - 1
    BY <1>1, <2>1 DEF SizeIn
  <2>4. CodeIn(files, n, k) = w
    <3>1. f.start[n] \in Nat /\ f.size[n] \in Nat /\ Len(f.text) \in Nat
          /\ f.start[n] + f.size[n] <= Len(f.text) /\ k < f.size[n] /\ k \in Nat
      BY <1>1, <2>1, <2>2 DEF IsFile
    <3>2. f.start[n] + k < Len(f.text)
      BY <3>1
    <3> QED
      BY <3>2, Zenon DEF CodeIn, TextIn
  <2>5. RightWord(prog, bind, list, placed, w, image[placed[i] + k])
    BY <2>1, <2>3, <2>4 DEF AllRight, RightUpTo
  <2> QED
    BY <2>1, <2>5
<1>2. ASSUME IInv  PROVE FunctionsWhole
  <2> SUFFICES ASSUME phase = "done", NEW i \in DOMAIN list, FileOf(list[i]).type = "ar",
                      NEW k \in 0 .. FileOf(list[i]).size[list[i]] - 1
               PROVE  LET w  == FileOf(list[i]).text[FileOf(list[i]).start[list[i]] + k + 1]
                          at == placed[i] + k
                      IN /\ w = Plain => image[at] = Plain
                         /\ w # Plain /\ Region(Target(w)) = Region(at + 1)
                              /\ Region(at + 1) < 4 =>
                              /\ image[at].op = Jal
                              /\ Reach * Region(at + 1) + image[at].field = Target(w)
    BY DEF FunctionsWhole
  <2> DEFINE w  == FileOf(list[i]).text[FileOf(list[i]).start[list[i]] + k + 1]
             at == placed[i] + k
  <2>1. RightWord(prog, bind, list, placed, w, image[at])
    BY <1>1, <1>2
  <2>2. TargetIn(prog, bind, list, placed, w) = Target(w)
    BY Zenon DEF TargetIn, Target, DefinedIn, Defined
  <2> HIDE DEF w, at
  <2>3. ASSUME w = Plain  PROVE image[at] = Plain
    BY <2>1, <2>3 DEF RightWord
  <2>4. ASSUME w # Plain, Region(Target(w)) = Region(at + 1), Region(at + 1) < 4
        PROVE  /\ image[at].op = Jal
               /\ Reach * Region(at + 1) + image[at].field = Target(w)
    <3>1. Target(w) \in Nat /\ image[at] = LinkedCall(Target(w))
      BY <2>1, <2>2, <2>4 DEF RightWord
    <3> QED
      BY <2>4, <3>1, CallReaches
  <2> QED
    BY <2>3, <2>4 DEF w, at
<1> QED
  BY <1>2, Invariant, PTL
=============================================================================
