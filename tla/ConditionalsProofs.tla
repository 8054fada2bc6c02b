------------------------- MODULE ConditionalsProofs -------------------------
(***************************************************************************)
(* Proofs about the nesting of conditionals, for every set of statements   *)
(* and sources of any length.  What makes them inductive is that           *)
(* ifdef_count counts at least the calls that wait for an .endif, and that *)
(* in_repeat is set only while a call of parse_repeat() runs, or after an  *)
(* error was dropped.                                                      *)
(***************************************************************************)
EXTENDS Conditionals, IfExpression, FiniteSetTheorems, WellFoundedInduction, TLAPS

OpenArms(cs) == {i \in 1 .. Len(cs) : cs[i].in # "repeat"}

Counted == Cardinality(OpenArms(calls)) <= ifdef_count

RepeatRuns ==
  in_repeat =>
    \/ survived
    \/ status # "ok" /\ \E i \in DOMAIN calls : calls[i].in = "repeat"

IInv == TypeOK /\ Counted /\ (RepeatRuns \/ status = "failed")

----------------------------------------------------------------------------

(* A set of naturals that is bounded has a greatest element, and Max is    *)
(* it.                                                                     *)
LEMMA GreatestElement ==
  ASSUME NEW n \in Nat, NEW S \in SUBSET (1 .. n), S # {}
  PROVE  Max(S) \in S /\ \A x \in S : Max(S) >= x
<1> DEFINE T == {k \in Nat : \E x \in S : k = n - x}
<1>1. PICK x0 \in S : TRUE
  OBVIOUS
<1>2. n - x0 \in T
  <2>1. x0 \in 1 .. n
    OBVIOUS
  <2>2. n - x0 \in Nat
    BY <2>1
  <2> QED
    BY <2>2
<1>3. T \subseteq Nat /\ T # {}
  BY <1>2
<1>4. \E k \in T : \A l \in T : ~(<<l, k>> \in OpToRel(<, Nat))
  BY <1>3, NatLessThanWellFounded, WFMin
<1>5. PICK k \in T : \A l \in T : ~(<<l, k>> \in OpToRel(<, Nat))
  BY <1>4
<1>6. \A l \in T : ~(l < k)
  BY <1>5, <1>3 DEF OpToRel
<1>7. PICK m \in S : k = n - m
  BY <1>5
<1>8. \A x \in S : m >= x
  <2> TAKE x \in S
  <2>1. x \in 1 .. n /\ m \in 1 .. n
    OBVIOUS
  <2>2. n - x \in T
    BY <2>1
  <2>3. ~(n - x < n - m)
    BY <2>2, <1>6, <1>7
  <2> QED
    BY <2>1, <2>3
<1> QED
  BY <1>8 DEF Max

(* How the calls that wait for an .endif are counted. *)
LEMMA CountType ==
  ASSUME NEW cs \in Seq(Call)
  PROVE  IsFiniteSet(OpenArms(cs)) /\ Cardinality(OpenArms(cs)) \in Nat
<1>1. Len(cs) \in Nat
  OBVIOUS
<1>2. IsFiniteSet(1 .. Len(cs))
  BY <1>1, FS_Interval
<1>3. OpenArms(cs) \in SUBSET (1 .. Len(cs))
  BY DEF OpenArms
<1>4. IsFiniteSet(OpenArms(cs))
  BY <1>2, <1>3, FS_Subset
<1> QED
  BY <1>4, FS_CardinalityType

LEMMA CountAppend ==
  ASSUME NEW cs \in Seq(Call), NEW c \in Call
  PROVE  /\ Append(cs, c) \in Seq(Call)
         /\ Cardinality(OpenArms(Append(cs, c)))
              = Cardinality(OpenArms(cs)) + (IF c.in = "repeat" THEN 0 ELSE 1)
<1> DEFINE n == Len(cs)
           t == Append(cs, c)
<1>1. n \in Nat /\ Len(t) = n + 1 /\ t \in Seq(Call) /\ t[n + 1] = c
  OBVIOUS
<1>2. \A i \in 1 .. n : t[i] = cs[i]
  OBVIOUS
<1>3. IsFiniteSet(OpenArms(cs)) /\ Cardinality(OpenArms(cs)) \in Nat
  BY CountType
<1>4. n + 1 \notin OpenArms(cs)
  BY <1>1 DEF OpenArms
<1> HIDE DEF n, t
<1>5. CASE c.in = "repeat"
  <2>1. OpenArms(t) = OpenArms(cs)
    BY <1>1, <1>2, <1>5 DEF OpenArms, n
  <2> QED
    BY <1>1, <1>3, <1>5, <2>1 DEF t
<1>6. CASE c.in # "repeat"
  <2>1. OpenArms(t) = OpenArms(cs) \cup {n + 1}
    BY <1>1, <1>2, <1>6 DEF OpenArms, n
  <2>2. Cardinality(OpenArms(cs) \cup {n + 1}) = Cardinality(OpenArms(cs)) + 1
    BY <1>3, <1>4, FS_AddElement
  <2> QED
    BY <1>1, <1>6, <2>1, <2>2 DEF t
<1> QED
  BY <1>5, <1>6

(* Calls that end, the innermost k ones not counted. *)
LEMMA CountBefore ==
  ASSUME NEW cs \in Seq(Call), NEW k \in 1 .. Len(cs)
  PROVE  /\ SubSeq(cs, 1, k - 1) \in Seq(Call)
         /\ Len(SubSeq(cs, 1, k - 1)) = k - 1
         /\ \A i \in 1 .. k - 1 : SubSeq(cs, 1, k - 1)[i] = cs[i]
         /\ Cardinality(OpenArms(SubSeq(cs, 1, k - 1))) \in Nat
         /\ Cardinality(OpenArms(SubSeq(cs, 1, k - 1))) <= Cardinality(OpenArms(cs))
         /\ cs[k].in # "repeat" =>
              Cardinality(OpenArms(SubSeq(cs, 1, k - 1))) < Cardinality(OpenArms(cs))
<1> DEFINE t == SubSeq(cs, 1, k - 1)
<1>1. t \in Seq(Call) /\ Len(t) = k - 1 /\ \A i \in 1 .. k - 1 : t[i] = cs[i]
  OBVIOUS
<1>2. /\ IsFiniteSet(OpenArms(cs)) /\ Cardinality(OpenArms(cs)) \in Nat
      /\ IsFiniteSet(OpenArms(t)) /\ Cardinality(OpenArms(t)) \in Nat
  BY <1>1, CountType
<1> HIDE DEF t
<1>3. k \in Nat /\ Len(cs) \in Nat /\ k >= 1 /\ k <= Len(cs)
  OBVIOUS
<1>4. OpenArms(t) \in SUBSET OpenArms(cs)
  BY <1>1, <1>3 DEF OpenArms
<1>5. Cardinality(OpenArms(t)) <= Cardinality(OpenArms(cs))
  BY <1>2, <1>4, FS_Subset
<1>6. ASSUME cs[k].in # "repeat"
      PROVE  Cardinality(OpenArms(t)) < Cardinality(OpenArms(cs))
  <2>1. k \in OpenArms(cs) /\ k \notin OpenArms(t)
    BY <1>1, <1>3, <1>6 DEF OpenArms
  <2>2. Cardinality(OpenArms(t)) # Cardinality(OpenArms(cs))
    BY <1>2, <1>4, <2>1, FS_Subset
  <2> QED
    BY <1>2, <1>5, <2>2
<1> QED
  BY <1>1, <1>2, <1>5, <1>6 DEF t

(* What is read. *)
LEMMA FetchFacts ==
  ASSUME TypeOK, NEW st, Fetch(st)
  PROVE  /\ src' \in Seq(Statement) /\ Len(src') <= MaxStatements
         /\ Len(src') \in 1 .. MaxStatements /\ status = "running"
<1>1. Len(src) \in Nat /\ Len(src) < MaxStatements /\ MaxStatements \in Nat
  BY ConditionalsAssumption DEF TypeOK, Fetch, ConditionalsAssumption
<1>2. src' \in Seq(Statement) /\ Len(src') = Len(src) + 1
  BY DEF TypeOK, Fetch
<1> QED
  BY <1>1, <1>2 DEF Fetch

LEMMA CallType ==
  ASSUME TypeOK, NEW in \in {"then", "else", "skip", "drop", "repeat"}
  PROVE  CallOf(in) \in Call /\ CallOf(in).in = in
<1>1. Len(out) \in Nat
  BY DEF TypeOK
<1> QED
  BY <1>1 DEF CallOf, Call

(* The innermost call. *)
LEMMA TopFacts ==
  ASSUME TypeOK, Top # "main"
  PROVE  /\ Len(calls) \in 1 .. Len(calls) /\ calls[Len(calls)].in = Top
         /\ calls # << >> /\ Pop = SubSeq(calls, 1, Len(calls) - 1)
         /\ Last(calls) = calls[Len(calls)] /\ calls[Len(calls)] \in Call
<1>1. calls # << >> /\ calls \in Seq(Call)
  BY DEF Top, TypeOK
<1>2. Len(calls) \in Nat /\ Len(calls) >= 1
  BY <1>1
<1> QED
  BY <1>1, <1>2 DEF Top, Pop, Front, Last

(* The other variables. *)
Others ==
  /\ nested_if \in Nat /\ in_repeat \in BOOLEAN /\ out \in Seq(1 .. MaxStatements)
  /\ quirk \in BOOLEAN /\ survived \in BOOLEAN

SourceRead == src' \in Seq(Statement) /\ Len(src') <= MaxStatements

LEMMA OthersType ==
  ASSUME TypeOK
  PROVE  Others /\ ifdef_count \in Nat /\ calls \in Seq(Call)
BY DEF TypeOK, Others

(* An error ends the calls up to and with the innermost arm, and is        *)
(* dropped there.                                                          *)
LEMMA RejectStep ==
  ASSUME IInv, SourceRead, status = "running", Reject
  PROVE  IInv'
<1>1. Others /\ ifdef_count \in Nat /\ calls \in Seq(Call) /\ TypeOK
  BY OthersType DEF IInv
<1>2. CASE Arms = {}
  <2>1. status' = "failed" /\ calls' = calls /\ ifdef_count' = ifdef_count
        /\ survived' = survived /\ nested_if' = nested_if /\ in_repeat' = in_repeat
        /\ out' = out /\ quirk' = quirk
    BY <1>2 DEF Reject
  <2>2. TypeOK'
    BY <1>1, <2>1 DEF TypeOK, SourceRead
  <2>3. Counted'
    BY <2>1 DEF IInv, Counted
  <2> QED
    BY <2>1, <2>2, <2>3 DEF IInv
<1>3. CASE Arms # {}
  <2> DEFINE k == Max(Arms)
  <2>1. Len(calls) \in Nat /\ Arms \in SUBSET (1 .. Len(calls))
    BY <1>1 DEF Arms
  <2>2. k \in Arms
    BY <1>3, <2>1, GreatestElement
  <2>3. k \in 1 .. Len(calls) /\ calls[k].in # "repeat"
    BY <2>1, <2>2 DEF Arms
  <2>4. calls' = SubSeq(calls, 1, k - 1) /\ ifdef_count' = ifdef_count - 1
        /\ survived' = TRUE /\ status' = status /\ nested_if' = nested_if
        /\ in_repeat' = in_repeat /\ out' = out /\ quirk' = quirk
    BY <1>3 DEF Reject
  <2> HIDE DEF k
  <2>5. /\ calls' \in Seq(Call)
        /\ Cardinality(OpenArms(calls')) \in Nat
        /\ Cardinality(OpenArms(calls')) < Cardinality(OpenArms(calls))
    BY <1>1, <2>3, <2>4, CountBefore
  <2>6. Cardinality(OpenArms(calls)) <= ifdef_count
        /\ Cardinality(OpenArms(calls)) \in Nat
    BY <1>1, CountType DEF IInv, Counted
  <2>7. ifdef_count' \in Nat /\ Cardinality(OpenArms(calls')) <= ifdef_count'
    BY <1>1, <2>4, <2>5, <2>6
  <2>8. TypeOK'
    BY <1>1, <2>4, <2>5, <2>7 DEF TypeOK, SourceRead
  <2> QED
    BY <2>4, <2>7, <2>8 DEF IInv, Counted, RepeatRuns
<1> QED
  BY <1>2, <1>3

(* The calls and the counter stay: what a line or a failure does. *)
LEMMA StaysStep ==
  ASSUME IInv, SourceRead, status = "running",
         UNCHANGED <<calls, in_repeat, survived>>,
         ifdef_count' \in {ifdef_count, ifdef_count + 1},
         nested_if' \in Nat, out' \in Seq(1 .. MaxStatements), quirk' \in BOOLEAN,
         status' \in {"running", "failed"}
  PROVE  IInv'
<1>1. Others /\ ifdef_count \in Nat /\ calls \in Seq(Call) /\ TypeOK
  BY OthersType DEF IInv
<1>2. TypeOK'
  BY <1>1 DEF TypeOK, SourceRead, Others
<1>3. Cardinality(OpenArms(calls)) <= ifdef_count
      /\ Cardinality(OpenArms(calls)) \in Nat
  BY <1>1, CountType DEF IInv, Counted
<1>4. Cardinality(OpenArms(calls')) <= ifdef_count'
  BY <1>1, <1>3
<1>5. RepeatRuns
  BY DEF IInv
<1>6. RepeatRuns'
  BY <1>5 DEF RepeatRuns
<1> QED
  BY <1>2, <1>4, <1>6 DEF IInv, Counted

(* A call is made; the one before it may have ended with its arm. *)
LEMMA OpenStep ==
  ASSUME IInv, SourceRead, status = "running",
         NEW in \in {"then", "else", "skip", "drop"}, NEW before \in Seq(Call),
         calls' = Append(before, CallOf(in)),
         \/ before = calls /\ ifdef_count' = ifdef_count + 1
         \/ Top \in {"then", "skip"} /\ before = Pop /\ ifdef_count' = ifdef_count,
         UNCHANGED <<in_repeat, out, status, survived>>,
         nested_if' \in Nat, quirk' \in BOOLEAN
  PROVE  IInv'
<1>1. Others /\ ifdef_count \in Nat /\ calls \in Seq(Call) /\ TypeOK
  BY OthersType DEF IInv
<1>2. CallOf(in) \in Call /\ CallOf(in).in = in
  BY <1>1, CallType
<1>3. /\ calls' \in Seq(Call)
      /\ Cardinality(OpenArms(calls')) = Cardinality(OpenArms(before)) + 1
  BY <1>2, CountAppend
<1>4. Cardinality(OpenArms(before)) \in Nat
  BY CountType
<1>5. Cardinality(OpenArms(calls)) <= ifdef_count
      /\ Cardinality(OpenArms(calls)) \in Nat
  BY <1>1, CountType DEF IInv, Counted
<1>6. RepeatRuns
  BY DEF IInv
<1>7. /\ ifdef_count' \in Nat /\ Cardinality(OpenArms(calls')) <= ifdef_count'
      /\ RepeatRuns'
  <2>1. CASE before = calls /\ ifdef_count' = ifdef_count + 1
    <3>1. \A i \in DOMAIN calls : i \in DOMAIN calls' /\ calls'[i] = calls[i]
      BY <1>1, <1>2, <2>1
    <3> QED
      BY <1>1, <1>3, <1>5, <1>6, <2>1, <3>1 DEF RepeatRuns
  <2>2. CASE Top \in {"then", "skip"} /\ before = Pop /\ ifdef_count' = ifdef_count
    <3> DEFINE n == Len(calls)
    <3>1. /\ n \in 1 .. Len(calls) /\ calls[n].in = Top
          /\ before = SubSeq(calls, 1, n - 1)
      BY <1>1, <2>2, TopFacts
    <3> HIDE DEF n
    <3>2. /\ Cardinality(OpenArms(before)) < Cardinality(OpenArms(calls))
          /\ Len(before) = n - 1 /\ \A i \in 1 .. n - 1 : before[i] = calls[i]
      BY <1>1, <2>2, <3>1, CountBefore
    <3>3. \A i \in DOMAIN calls : calls[i].in = "repeat" =>
            i \in DOMAIN calls' /\ calls'[i] = calls[i]
      <4> TAKE i \in DOMAIN calls
      <4> HAVE calls[i].in = "repeat"
      <4>1. i # n /\ i \in 1 .. Len(calls) /\ n = Len(calls)
        BY <1>1, <2>2, <3>1 DEF n
      <4>2. i \in 1 .. n - 1 /\ i \in 1 .. Len(before) /\ Len(before) \in Nat
        BY <3>2, <4>1
      <4>3. before[i] = calls[i]
        BY <3>2, <4>2
      <4> QED
        BY <1>2, <4>2, <4>3
    <3> QED
      BY <1>1, <1>3, <1>4, <1>5, <1>6, <2>2, <3>2, <3>3 DEF RepeatRuns
  <2> QED
    BY <2>1, <2>2
<1>8. TypeOK'
  BY <1>1, <1>3, <1>7 DEF TypeOK, SourceRead, Others
<1> QED
  BY <1>7, <1>8 DEF IInv, Counted

(* A call of parse_ifdef() or ifdef_ignore() ends. *)
LEMMA CloseStep ==
  ASSUME IInv, SourceRead, status = "running",
         Top \notin {"main", "repeat"}, calls' = Pop, ifdef_count' = ifdef_count - 1,
         UNCHANGED <<in_repeat, out, status, survived>>,
         nested_if' \in Nat, quirk' \in BOOLEAN
  PROVE  IInv'
<1>1. Others /\ ifdef_count \in Nat /\ calls \in Seq(Call) /\ TypeOK
  BY OthersType DEF IInv
<1> DEFINE n == Len(calls)
<1>2. n \in 1 .. Len(calls) /\ calls[n].in = Top /\ calls' = SubSeq(calls, 1, n - 1)
  BY <1>1, TopFacts
<1> HIDE DEF n
<1>3. /\ calls' \in Seq(Call) /\ Cardinality(OpenArms(calls')) \in Nat
      /\ Cardinality(OpenArms(calls')) < Cardinality(OpenArms(calls))
      /\ Len(calls') = n - 1 /\ \A i \in 1 .. n - 1 : calls'[i] = calls[i]
  BY <1>1, <1>2, CountBefore
<1>4. Cardinality(OpenArms(calls)) <= ifdef_count
      /\ Cardinality(OpenArms(calls)) \in Nat
  BY <1>1, CountType DEF IInv, Counted
<1>5. ifdef_count' \in Nat /\ Cardinality(OpenArms(calls')) <= ifdef_count'
  BY <1>1, <1>3, <1>4
<1>6. \A i \in DOMAIN calls : calls[i].in = "repeat" =>
        i \in DOMAIN calls' /\ calls'[i] = calls[i]
  <2> TAKE i \in DOMAIN calls
  <2> HAVE calls[i].in = "repeat"
  <2>1. i # n /\ i \in 1 .. Len(calls) /\ n = Len(calls)
    BY <1>1, <1>2 DEF n
  <2>2. i \in 1 .. n - 1 /\ i \in 1 .. Len(calls') /\ Len(calls') \in Nat
    BY <1>3, <2>1
  <2> QED
    BY <1>3, <2>2
<1>7. RepeatRuns'
  BY <1>6 DEF IInv, RepeatRuns
<1>8. TypeOK'
  BY <1>1, <1>3, <1>5 DEF TypeOK, SourceRead, Others
<1> QED
  BY <1>5, <1>7, <1>8 DEF IInv, Counted

LEMMA RepeatStep ==
  ASSUME IInv, SourceRead, status = "running", ~in_repeat,
         in_repeat' = TRUE, calls' = Append(calls, CallOf("repeat")),
         UNCHANGED <<nested_if, ifdef_count, out, status, quirk, survived>>
  PROVE  IInv'
<1>1. Others /\ ifdef_count \in Nat /\ calls \in Seq(Call) /\ TypeOK
  BY OthersType DEF IInv
<1>2. CallOf("repeat") \in Call /\ CallOf("repeat").in = "repeat"
  BY <1>1, CallType
<1>3. /\ calls' \in Seq(Call)
      /\ Cardinality(OpenArms(calls')) = Cardinality(OpenArms(calls)) + 0
  BY <1>1, <1>2, CountAppend
<1>4. Cardinality(OpenArms(calls)) <= ifdef_count
      /\ Cardinality(OpenArms(calls)) \in Nat
  BY <1>1, CountType DEF IInv, Counted
<1>5. Cardinality(OpenArms(calls')) <= ifdef_count'
  BY <1>3, <1>4
<1>6. Len(calls) + 1 \in DOMAIN calls' /\ calls'[Len(calls) + 1].in = "repeat"
  BY <1>1, <1>2
<1>7. TypeOK'
  BY <1>1, <1>3 DEF TypeOK, SourceRead, Others
<1> QED
  BY <1>5, <1>6, <1>7 DEF IInv, Counted, RepeatRuns

LEMMA EndrStep ==
  ASSUME IInv, SourceRead, status = "running", Top = "repeat",
         in_repeat' = FALSE, calls' = Pop,
         out' = out \o SubSeq(out, Last(calls).start + 1, Len(out)),
         UNCHANGED <<nested_if, ifdef_count, status, quirk, survived>>
  PROVE  IInv'
<1>1. Others /\ ifdef_count \in Nat /\ calls \in Seq(Call) /\ TypeOK
  BY OthersType DEF IInv
<1> DEFINE n == Len(calls)
<1>2. /\ n \in 1 .. Len(calls) /\ calls' = SubSeq(calls, 1, n - 1)
      /\ Last(calls) \in Call
  BY <1>1, TopFacts
<1> HIDE DEF n
<1>3. /\ calls' \in Seq(Call) /\ Cardinality(OpenArms(calls')) \in Nat
      /\ Cardinality(OpenArms(calls')) <= Cardinality(OpenArms(calls))
  BY <1>1, <1>2, CountBefore
<1>4. Cardinality(OpenArms(calls)) <= ifdef_count
      /\ Cardinality(OpenArms(calls)) \in Nat
  BY <1>1, CountType DEF IInv, Counted
<1>5. Cardinality(OpenArms(calls')) <= ifdef_count'
  BY <1>1, <1>3, <1>4
<1>6. out' \in Seq(1 .. MaxStatements)
  <2>1. Last(calls).start + 1 \in Nat \ {0}
    BY <1>2 DEF Call
  <2> DEFINE s == Last(calls).start + 1
  <2> HIDE DEF s
  <2> DEFINE L == 1 .. MaxStatements
  <2>a. s \in Nat /\ s >= 1 /\ out \in Seq(L)
    BY <1>1, <2>1 DEF Others, s
  <2> HIDE DEF L
  <2>2. SubSeq(out, s, Len(out)) \in Seq(L)
    BY <2>a
  <2>3. out \o SubSeq(out, s, Len(out)) \in Seq(L)
    BY <2>a, <2>2
  <2> QED
    BY <2>3 DEF s, L
<1>7. TypeOK'
  BY <1>1, <1>3, <1>6 DEF TypeOK, SourceRead, Others
<1> QED
  BY <1>5, <1>7 DEF IInv, Counted, RepeatRuns

LEMMA EndOfFileStep ==
  ASSUME IInv, EndOfFile
  PROVE  IInv'
<1>1. Others /\ ifdef_count \in Nat /\ calls \in Seq(Call) /\ TypeOK
  BY OthersType DEF IInv
<1>2. UNCHANGED <<src, calls, nested_if, ifdef_count, in_repeat, out, quirk>>
  BY DEF EndOfFile
<1>3. status' \in {"ok", "failed"} /\ (status' = "ok" => OpenRepeats = {})
  BY DEF EndOfFile
<1>4. survived' \in BOOLEAN /\ (survived => survived')
  BY <1>1 DEF EndOfFile, Others
<1>5. TypeOK'
  BY <1>1, <1>2, <1>3, <1>4 DEF TypeOK
<1>6. Counted'
  BY <1>2 DEF IInv, Counted
<1>7. ASSUME status' = "ok"  PROVE RepeatRuns'
  <2>1. ASSUME in_repeat, ~survived  PROVE survived'
    <3>1. PICK i \in DOMAIN calls : calls[i].in = "repeat"
      BY <2>1 DEF IInv, RepeatRuns, EndOfFile
    <3>2. PICK j \in Arms : ~(j > i)
      BY <1>3, <1>7, <3>1 DEF OpenRepeats
    <3>3. j < i
      BY <1>1, <3>1, <3>2 DEF Arms
    <3> QED
      BY <3>1, <3>2, <3>3 DEF EndOfFile
  <2> QED
    BY <1>2, <1>4, <2>1 DEF RepeatRuns
<1> QED
  BY <1>3, <1>5, <1>6, <1>7 DEF IInv

LEMMA SkippedStep ==
  ASSUME IInv, IgnoreEndif \/ IgnoreElse \/ IgnoreOther
  PROVE  IInv'
<1>1. Others /\ ifdef_count \in Nat /\ calls \in Seq(Call) /\ TypeOK
  BY OthersType DEF IInv
<1>2. SourceRead /\ status = "running" /\ Ignoring /\ Top \notin {"main", "repeat"}
  BY <1>1, FetchFacts DEF IgnoreEndif, IgnoreElse, IgnoreOther, SourceRead, Ignoring
<1>3. Pop \in Seq(Call)
  <2>1. Pop = SubSeq(calls, 1, Len(calls) - 1) /\ Len(calls) \in 1 .. Len(calls)
    BY <1>1, <1>2, TopFacts
  <2> QED
    BY <1>1, <2>1, CountBefore
<1>4. CASE IgnoreEndif
  <2>1. CASE nested_if = 0
    BY <1>1, <1>2, <1>4, <2>1, CloseStep DEF IgnoreEndif, Others
  <2>2. CASE nested_if # 0
    <3>1. nested_if' \in Nat
      BY <1>1, <1>4, <2>2 DEF IgnoreEndif, Others
    <3> QED
      BY <1>1, <1>2, <1>4, <2>2, <3>1, StaysStep DEF IgnoreEndif, Others
  <2> QED
    BY <2>1, <2>2
<1>5. CASE IgnoreElse
  <2>1. CASE nested_if > 0
    BY <1>1, <1>2, <1>5, <2>1, StaysStep DEF IgnoreElse, Others
  <2>2. CASE ~(nested_if > 0) /\ Top = "skip"
    BY <1>1, <1>2, <1>3, <1>5, <2>2, OpenStep DEF IgnoreElse, Others
  <2>3. CASE ~(nested_if > 0) /\ Top # "skip"
    BY <1>1, <1>2, <1>5, <2>3, CloseStep DEF IgnoreElse, Others
  <2> QED
    BY <2>1, <2>2, <2>3
<1>6. CASE IgnoreOther
  <2>1. PICK st \in Statement \ {"endif", "else"} :
          /\ nested_if' = nested_if + (IF st \in Opens THEN 1 ELSE 0)
          /\ quirk' = (quirk \/ st \in {"ifndef1", "ifndef0"})
    BY <1>6 DEF IgnoreOther
  <2>2. nested_if' \in Nat
    BY <1>1, <2>1 DEF Others
  <2>3. quirk' \in BOOLEAN
    BY <2>1
  <2> QED
    BY <1>1, <1>2, <1>6, <2>2, <2>3, StaysStep DEF IgnoreOther, Others
<1> QED
  BY <1>4, <1>5, <1>6

LEMMA NextStep ==
  ASSUME IInv, [Next]_vars
  PROVE  IInv'
<1>1. Others /\ ifdef_count \in Nat /\ calls \in Seq(Call) /\ TypeOK
  BY OthersType DEF IInv
<1>2. \A st : Read(st) => SourceRead /\ status = "running"
  BY <1>1, FetchFacts DEF Read, SourceRead
<1>3. CASE Line
  <2>1. Len(src') \in 1 .. MaxStatements
    BY <1>1, <1>3, FetchFacts DEF Line, Read
  <2>2. out' \in Seq(1 .. MaxStatements)
    BY <1>1, <1>3, <2>1 DEF Line, Others
  <2> QED
    BY <1>1, <1>2, <1>3, <2>2, StaysStep DEF Line, Others
<1>4. CASE Bad
  BY <1>2, <1>4, RejectStep DEF Bad
<1>5. CASE If
  <2>1. PICK st \in {"if1", "ifndef1", "if0", "ifndef0"} :
          /\ Read(st)
          /\ calls' = Append(calls, CallOf(IF st \in {"if1", "ifndef1"} THEN "then"
                                                                    ELSE "skip"))
    BY <1>5 DEF If
  <2>2. PICK in \in {"then", "skip"} : calls' = Append(calls, CallOf(in))
    BY <2>1
  <2> QED
    BY <1>1, <1>2, <1>5, <2>1, <2>2, OpenStep DEF If, Others
<1>6. CASE IfBad
  BY <1>1, <1>2, <1>6, StaysStep DEF IfBad, Others
<1>7. CASE Endif
  <2>1. CASE ifdef_count = 0
    BY <1>2, <1>7, <2>1, RejectStep DEF Endif
  <2>2. CASE ifdef_count # 0
    BY <1>1, <1>2, <1>7, <2>2, StaysStep DEF Endif, Others
  <2> QED
    BY <2>1, <2>2
<1>8. CASE Else
  <2>1. CASE Reject
    BY <1>2, <1>8, <2>1, RejectStep DEF Else
  <2>2. CASE /\ status' = "failed"
             /\ UNCHANGED <<calls, nested_if, ifdef_count, in_repeat, out, quirk,
                            survived>>
    BY <1>1, <1>2, <1>8, <2>2, StaysStep DEF Else, Others
  <2>3. CASE /\ Top \in {"then", "else"}
             /\ calls' = AfterElse
             /\ ifdef_count' = ifdef_count - (IF Top = "else" THEN 1 ELSE 0)
             /\ nested_if' = 0
             /\ quirk' = (quirk \/ Top = "else")
             /\ UNCHANGED <<in_repeat, out, status, survived>>
    <3>1. quirk' \in BOOLEAN
      BY <2>3
    <3>2. CASE Top = "then"
      <4>1. Pop \in Seq(Call)
        <5>1. Pop = SubSeq(calls, 1, Len(calls) - 1) /\ Len(calls) \in 1 .. Len(calls)
          BY <1>1, <3>2, TopFacts
        <5> QED
          BY <1>1, <5>1, CountBefore
      <4>2. calls' = Append(Pop, CallOf("drop")) /\ ifdef_count' = ifdef_count
        BY <1>1, <2>3, <3>2 DEF AfterElse
      <4> QED
        BY <1>1, <1>2, <1>8, <2>3, <3>1, <3>2, <4>1, <4>2, OpenStep DEF Else, Others
    <3>3. CASE Top = "else"
      <4>1. calls' = Pop /\ ifdef_count' = ifdef_count - 1
        BY <1>1, <2>3, <3>3 DEF AfterElse
      <4> QED
        BY <1>1, <1>2, <1>8, <2>3, <3>1, <3>3, <4>1, CloseStep DEF Else, Others
    <3> QED
      BY <2>3, <3>2, <3>3
  <2> QED
    BY <1>8, <2>1, <2>2, <2>3 DEF Else
<1>9. CASE Repeat
  <2>1. CASE in_repeat
    BY <1>2, <1>9, <2>1, RejectStep DEF Repeat
  <2>2. CASE ~in_repeat
    BY <1>2, <1>9, <2>2, RepeatStep DEF Repeat
  <2> QED
    BY <2>1, <2>2
<1>10. CASE Endr
  <2>1. CASE Reject
    BY <1>2, <1>10, <2>1, RejectStep DEF Endr
  <2>2. CASE /\ status' = "failed"
             /\ UNCHANGED <<calls, nested_if, ifdef_count, in_repeat, out, quirk,
                            survived>>
    BY <1>1, <1>2, <1>10, <2>2, StaysStep DEF Endr, Others
  <2>3. CASE /\ Top = "repeat" /\ in_repeat' = FALSE
             /\ out' = out \o SubSeq(out, Last(calls).start + 1, Len(out))
             /\ calls' = Pop
             /\ UNCHANGED <<nested_if, ifdef_count, status, quirk, survived>>
    BY <1>2, <1>10, <2>3, EndrStep DEF Endr
  <2>4. CASE /\ Top \in {"then", "else"} /\ calls' = Pop
             /\ ifdef_count' = ifdef_count - 1 /\ quirk' = TRUE
             /\ UNCHANGED <<nested_if, in_repeat, out, status, survived>>
    BY <1>1, <1>2, <1>10, <2>4, CloseStep DEF Endr, Others
  <2> QED
    BY <1>10, <2>1, <2>2, <2>3, <2>4 DEF Endr
<1>11. CASE IgnoreEndif \/ IgnoreElse \/ IgnoreOther
  BY <1>11, SkippedStep
<1>12. CASE EndOfFile
  BY <1>12, EndOfFileStep
<1>13. CASE UNCHANGED vars
  BY <1>13 DEF vars, IInv, TypeOK, Counted, RepeatRuns
<1> QED
  BY <1>3, <1>4, <1>5, <1>6, <1>7, <1>8, <1>9, <1>10, <1>11, <1>12, <1>13 DEF Next

LEMMA InitHolds == Init => IInv
<1> SUFFICES ASSUME Init PROVE IInv
  OBVIOUS
<1>1. /\ src = << >> /\ calls = << >> /\ out = << >> /\ nested_if = 0
      /\ ifdef_count = 0 /\ status = "running" /\ MaxStatements \in Nat
  BY ConditionalsAssumption DEF Init, ConditionalsAssumption
<1>2. in_repeat \in BOOLEAN /\ quirk \in BOOLEAN /\ survived \in BOOLEAN
  BY Zenon DEF Init
<1>3. TypeOK
  BY <1>1, <1>2 DEF TypeOK
<1>4. OpenArms(<< >>) = {}
  BY DEF OpenArms
<1>5. Cardinality(OpenArms(<< >>)) = 0
  BY <1>4, FS_EmptySet
<1>6. Cardinality(OpenArms(calls)) = 0 /\ ifdef_count = 0
  BY <1>5 DEF Init
<1>7. Counted
  BY <1>6 DEF Counted
<1> QED
  BY <1>3, <1>7 DEF IInv, RepeatRuns, Init

(* The counters never fall below 0, and the lines assembled are lines of   *)
(* the source, however .if, .else, .endif, .repeat and .endr are mixed.    *)
THEOREM TypeCorrect == Spec => []TypeOK
<1>1. IInv => TypeOK
  BY DEF IInv
<1> QED
  BY <1>1, InitHolds, NextStep, PTL DEF Spec

(* A .repeat that is left open never passes in silence, in sources of any  *)
(* length: the assembly fails (directives.cpp:262), or an arm has dropped  *)
(* an error that was printed, and may then end as if all were well         *)
(* (directives_if.cpp:74).                                                 *)
THEOREM OpenRepeatReported == Spec => []RepeatClosed
<1>1. IInv => RepeatClosed
  BY DEF IInv, RepeatRuns, RepeatClosed
<1> QED
  BY <1>1, InitHolds, NextStep, PTL DEF Spec

----------------------------------------------------------------------------
(* The condition of an .if.  The outermost call is not in a parenthesis    *)
(* and its operators are the loosest, so it never ends for a ) or for a    *)
(* looser operator; after the end of the line no more is read.             *)

FrameType == [n : 0 .. 1, n1 : 0 .. 1, oper : Operators \cup {None},
              prec : 0 .. 2, paren : Nat, state : 0 .. 2, not : BOOLEAN]

Outermost ==
  frames # << >> /\ frames[1].paren = 0 /\ frames[1].prec = 0

LineEnds == answer = "reading" /\ back # Eol => Len(cond) <= MaxCondTokens

IfInv == IfTypeOK /\ Outermost /\ LineEnds

LEMMA TruthType == \A b \in BOOLEAN : Truth(b) \in 0 .. 1
BY DEF Truth

LEMMA ResultType ==
  ASSUME NEW f \in FrameType
  PROVE  Result(f) \in 0 .. 1
<1>1. f.n \in 0 .. 1 /\ f.n1 \in 0 .. 1 /\ f.oper \in Operators \cup {None}
  BY DEF FrameType
<1> QED
  BY <1>1 DEF Result, Operation, Operators, Truth, None

LEMMA OperandType ==
  ASSUME NEW f \in FrameType, NEW v \in 0 .. 1
  PROVE  Operand(f, v) \in FrameType /\ Operand(f, v).paren = f.paren
         /\ Operand(f, v).prec = f.prec
<1> DEFINE w == IF f.not THEN Truth(v = 0) ELSE v
<1>1. w \in 0 .. 1
  BY DEF Truth
<1>2. Operand(f, v) = [f EXCEPT !.n = w, !.not = FALSE, !.state = 1]
  BY Zenon DEF Operand
<1>3. 1 \in 0 .. 2
  OBVIOUS
<1> HIDE DEF w
<1> DEFINE g == [f EXCEPT !.n = w]
           h == [g EXCEPT !.not = FALSE]
           k == [h EXCEPT !.state = 1]
<1>4. g \in FrameType /\ g.paren = f.paren /\ g.prec = f.prec
  BY <1>1 DEF FrameType
<1> HIDE DEF g
<1>5. h \in FrameType /\ h.paren = f.paren /\ h.prec = f.prec
  BY <1>4 DEF FrameType
<1> HIDE DEF h
<1>6. k \in FrameType /\ k.paren = f.paren /\ k.prec = f.prec
  BY <1>3, <1>5 DEF FrameType
<1>7. Operand(f, v) = k
  BY <1>2 DEF g, h
<1> QED
  BY <1>6, <1>7

LEMMA FrameTypes ==
  ASSUME NEW n \in 0 .. 1, NEW paren \in Nat, NEW prec \in 0 .. 2, NEW state \in 0 .. 2
  PROVE  Frame(n, paren, prec, state) \in FrameType
BY DEF Frame, FrameType

LEMMA BelowFacts ==
  ASSUME NEW s \in Seq(FrameType), s # << >>
  PROVE  /\ SubSeq(s, 1, Len(s) - 1) \in Seq(FrameType)
         /\ Len(SubSeq(s, 1, Len(s) - 1)) = Len(s) - 1
         /\ \A i \in 1 .. Len(s) - 1 : SubSeq(s, 1, Len(s) - 1)[i] = s[i]
<1>1. PICK n \in Nat : n = Len(s)
  OBVIOUS
<1>2. n >= 1
  BY <1>1
<1>3. SubSeq(s, 1, n - 1) \in Seq(FrameType) /\ Len(SubSeq(s, 1, n - 1)) = n - 1
  BY <1>1, <1>2
<1>4. \A i \in 1 .. n - 1 : SubSeq(s, 1, n - 1)[i] = s[i]
  BY <1>1, <1>2
<1> QED
  BY <1>1, <1>3, <1>4

Stack(s) ==
  s \in Seq(FrameType) /\ s # << >> /\ s[1].paren = 0 /\ s[1].prec = 0

(* The stack of calls. *)
LEMMA StackFacts ==
  ASSUME IfInv
  PROVE  Stack(frames)
BY DEF IfInv, IfTypeOK, Outermost, FrameType, Stack

LEMMA TopCall ==
  ASSUME NEW s, Stack(s)
  PROVE  /\ Len(s) \in Nat /\ Len(s) >= 1
         /\ Last(s) = s[Len(s)] /\ Last(s) \in FrameType
         /\ Front(s) = SubSeq(s, 1, Len(s) - 1)
         /\ Front(s) \in Seq(FrameType) /\ Len(Front(s)) = Len(s) - 1
         /\ \A i \in 1 .. Len(s) - 1 : Front(s)[i] = s[i]
<1>1. Len(s) \in Nat /\ Len(s) >= 1 /\ s[Len(s)] \in FrameType
  BY DEF Stack
<1>2. Front(s) = SubSeq(s, 1, Len(s) - 1) /\ Last(s) = s[Len(s)]
  BY DEF Front, Last
<1> QED
  BY <1>1, <1>2, BelowFacts DEF Stack

(* The calls below one that is not the outermost. *)
LEMMA BelowStack ==
  ASSUME NEW s, Stack(s), Front(s) # << >>
  PROVE  Stack(Front(s))
<1>1. /\ Len(s) \in Nat /\ Len(s) >= 1 /\ Front(s) \in Seq(FrameType)
      /\ Len(Front(s)) = Len(s) - 1
      /\ \A i \in 1 .. Len(s) - 1 : Front(s)[i] = s[i]
  BY TopCall
<1>2. Len(Front(s)) # 0
  BY <1>1
<1>3. Front(s)[1] = s[1]
  BY <1>1, <1>2
<1> QED
  BY <1>1, <1>3 DEF Stack

(* The innermost call goes on with other locals. *)
LEMMA ReplaceFacts ==
  ASSUME NEW s, Stack(s), NEW f \in FrameType, f.paren = Last(s).paren,
         f.prec = Last(s).prec
  PROVE  Stack(Append(Front(s), f))
<1> DEFINE k == Len(s)
           b == Front(s)
<1>1. /\ k \in Nat /\ k >= 1 /\ Last(s) = s[k] /\ b \in Seq(FrameType)
      /\ Len(b) = k - 1 /\ \A i \in 1 .. k - 1 : b[i] = s[i]
  BY TopCall
<1> HIDE DEF k, b
<1>2. Append(b, f) \in Seq(FrameType) /\ Append(b, f) # << >>
  BY <1>1
<1>3. s[1].paren = 0 /\ s[1].prec = 0
  BY DEF Stack
<1>4. CASE k = 1
  <2>1. Append(b, f)[1] = f
    BY <1>1, <1>4
  <2> QED
    BY <1>1, <1>2, <1>3, <1>4, <2>1 DEF b, Stack
<1>5. CASE k > 1
  <2>1. Append(b, f)[1] = s[1]
    BY <1>1, <1>5
  <2> QED
    BY <1>2, <1>3, <2>1 DEF b, Stack
<1> QED
  BY <1>1, <1>4, <1>5

LEMMA CalledFacts ==
  ASSUME NEW s, Stack(s), NEW f \in FrameType
  PROVE  Stack(Append(s, f))
<1>1. Len(s) \in Nat /\ Len(s) >= 1 /\ s \in Seq(FrameType)
  BY DEF Stack
<1>2. Append(s, f)[1] = s[1] /\ Append(s, f) \in Seq(FrameType) /\ Append(s, f) # << >>
  BY <1>1
<1> QED
  BY <1>2 DEF Stack

(* What is read. *)
LEMMA GetFacts ==
  ASSUME IfInv, NEW t, Get(t)
  PROVE  /\ answer = "reading" /\ cond' \in Seq(CondToken \cup {Eol})
         /\ Len(cond') <= MaxCondTokens + 1
         /\ t \in CondToken \cup {Eol}
         /\ t # Eol => back # Eol /\ Len(cond') <= MaxCondTokens
<1>1. /\ MaxCondTokens \in Nat /\ cond \in Seq(CondToken \cup {Eol})
      /\ Len(cond) \in Nat /\ Len(cond) <= MaxCondTokens + 1
  BY IfExpressionAssumption DEF IfExpressionAssumption, IfInv, IfTypeOK
<1>2. CASE back # None /\ t = back /\ UNCHANGED cond
  <2>1. t \in CondToken \cup {Eol}
    BY <1>2 DEF IfInv, IfTypeOK
  <2> QED
    BY <1>1, <1>2, <2>1 DEF IfInv, LineEnds, Get
<1>3. CASE /\ back = None
           /\ t \in {c \in CondToken : Len(cond) < MaxCondTokens} \cup {Eol}
           /\ cond' = Append(cond, t)
  <2>1. t \in CondToken \cup {Eol}
    BY <1>3
  <2>2. cond' \in Seq(CondToken \cup {Eol}) /\ Len(cond') = Len(cond) + 1
    BY <1>1, <1>3, <2>1
  <2>3. back # Eol /\ Len(cond) <= MaxCondTokens
    BY <1>3 DEF IfInv, LineEnds, Get, None, Eol
  <2> QED
    BY <1>1, <1>3, <2>1, <2>2, <2>3 DEF Get
<1> QED
  BY <1>2, <1>3 DEF Get

(* A token was read that does not end the line, or ended it. *)
LEMMA ReadStep ==
  ASSUME IfInv, NEW t, Get(t), Stack(frames'),
         back' \in CondToken \cup {Eol, None}, strayed' \in BOOLEAN,
         answer' \in {"reading", "refused", "true", "false"},
         \/ answer' # "reading" \/ back' = Eol \/ t # Eol
  PROVE  IfInv'
<1>1. /\ cond' \in Seq(CondToken \cup {Eol}) /\ Len(cond') <= MaxCondTokens + 1
      /\ t # Eol => Len(cond') <= MaxCondTokens
  BY GetFacts
<1>2. IfTypeOK'
  BY <1>1 DEF IfTypeOK, Stack, FrameType
<1>3. LineEnds'
  BY <1>1 DEF LineEnds
<1> QED
  BY <1>2, <1>3 DEF IfInv, Outermost, Stack

LEMMA NoneType == None \in CondToken \cup {Eol, None} /\ None # Eol
BY DEF None, Eol

LEMMA RefuseStep ==
  ASSUME IfInv, NEW t, Get(t), Refuse
  PROVE  IfInv'
<1>1. Stack(frames')
  BY StackFacts DEF Refuse
<1>2. strayed' \in BOOLEAN
  BY DEF Refuse, IfInv, IfTypeOK
<1> QED
  BY <1>1, <1>2, ReadStep, NoneType DEF Refuse

(* A call ends: its caller gets the value, or the condition has it. *)
LEMMA ReturnFacts ==
  ASSUME IfInv, NEW v \in 0 .. 1, Return(v), answer = "reading"
  PROVE  Stack(frames') /\ answer' \in {"reading", "true", "false"}
<1> DEFINE callers == Front(frames)
           f == Last(callers)
<1>1. CASE callers = << >>
  BY <1>1, StackFacts DEF Return, Answer
<1>2. CASE callers # << >>
  <2>1. Stack(callers)
    BY <1>2, StackFacts, BelowStack
  <2>2. f \in FrameType
    BY <2>1, TopCall
  <2> DEFINE g == IF InParen(f, Caller) THEN Operand(f, v) ELSE [f EXCEPT !.n = v]
  <2>3. frames' = Append(Front(callers), g) /\ answer' = answer
    BY <1>2, Zenon DEF Return
  <2> HIDE DEF callers
  <2>4. [f EXCEPT !.n = v] \in FrameType /\ [f EXCEPT !.n = v].paren = f.paren
        /\ [f EXCEPT !.n = v].prec = f.prec
    BY <2>2 DEF FrameType
  <2>5. Operand(f, v) \in FrameType /\ Operand(f, v).paren = f.paren
        /\ Operand(f, v).prec = f.prec
    BY <2>2, OperandType
  <2>6. g \in FrameType /\ g.paren = f.paren /\ g.prec = f.prec
    BY <2>4, <2>5
  <2> HIDE DEF g
  <2>7. Stack(Append(Front(callers), g))
    BY <2>1, <2>6, ReplaceFacts
  <2> QED
    BY <2>3, <2>7
<1> QED
  BY <1>1, <1>2

LEMMA WaitingType ==
  ASSUME NEW f \in FrameType
  PROVE  Waiting(f) \in FrameType /\ Waiting(f).paren = f.paren
         /\ Waiting(f).prec = f.prec
<1> DEFINE w == IF f.state = 2 THEN f.n ELSE f.n1
<1>1. w \in 0 .. 1
  BY DEF FrameType
<1>2. Waiting(f) = [f EXCEPT !.n1 = w]
  BY Zenon DEF Waiting
<1> HIDE DEF w
<1> QED
  BY <1>1, <1>2 DEF FrameType

LEMMA CallerFacts ==
  ASSUME IfInv
  PROVE  /\ Stack(frames) /\ Caller \in FrameType /\ Caller = Last(frames)
         /\ strayed \in BOOLEAN
         /\ Caller.n \in 0 .. 1 /\ Caller.paren \in Nat /\ Caller.prec \in 0 .. 2
<1>1. Stack(frames) /\ Caller \in FrameType
  BY StackFacts, TopCall DEF Caller
<1>2. strayed \in BOOLEAN
  BY DEF IfInv, IfTypeOK
<1> QED
  BY <1>1, <1>2 DEF Caller, FrameType

LEMMA EndOfLineStep ==
  ASSUME IfInv, EndOfLine
  PROVE  IfInv'
<1>1. Get(Eol) /\ answer = "reading"
  BY DEF EndOfLine, Get
<1>2. CASE Caller.state # 1
  BY <1>1, <1>2, RefuseStep DEF EndOfLine
<1>3. CASE Caller.state = 1
  <2>1. Result(Caller) \in 0 .. 1
    BY CallerFacts, ResultType
  <2>2. Return(Result(Caller)) /\ back' = Eol /\ strayed' = strayed
    BY <1>3 DEF EndOfLine
  <2>3. Stack(frames') /\ answer' \in {"reading", "true", "false"}
    BY <1>1, <2>1, <2>2, ReturnFacts
  <2> QED
    BY <1>1, <2>2, <2>3, ReadStep, CallerFacts
<1> QED
  BY <1>2, <1>3

LEMMA NotStep ==
  ASSUME IfInv, Not
  PROVE  IfInv'
<1> DEFINE w == Waiting(Caller)
           f == [w EXCEPT !.not = ~@]
<1>1. w \in FrameType /\ w.paren = Caller.paren /\ w.prec = Caller.prec
  BY CallerFacts, WaitingType
<1>2. frames' = Append(Front(frames), f)
  BY DEF Not, Replace
<1> HIDE DEF w
<1>3. (~w.not) \in BOOLEAN
  BY <1>1
<1>4. f \in FrameType /\ f.paren = Caller.paren /\ f.prec = Caller.prec
  BY <1>1, <1>3 DEF FrameType
<1> HIDE DEF f
<1>5. Stack(frames')
  BY <1>2, <1>4, CallerFacts, ReplaceFacts
<1>6. Get("!") /\ back' = None /\ UNCHANGED <<answer, strayed>> /\ answer = "reading"
  BY DEF Not, Get
<1> QED
  BY <1>5, <1>6, ReadStep, CallerFacts, NoneType DEF Eol

LEMMA ReadOperandStep ==
  ASSUME IfInv, ReadOperand
  PROVE  IfInv'
<1>1. PICK t \in Numbers \cup Operators \cup NoOperators :
        /\ Get(t)
        /\ Replace(Operand(Waiting(Caller),
                     CASE t = "0" -> 0 [] t = "1" -> 1 [] OTHER -> Caller.n))
  BY DEF ReadOperand
<1> DEFINE v == CASE t = "0" -> 0 [] t = "1" -> 1 [] OTHER -> Caller.n
           w == Waiting(Caller)
<1>2. v \in 0 .. 1
  BY CallerFacts
<1>3. w \in FrameType /\ w.paren = Caller.paren /\ w.prec = Caller.prec
  BY CallerFacts, WaitingType
<1>4. frames' = Append(Front(frames), Operand(w, v))
  BY <1>1 DEF Replace
<1> HIDE DEF v, w
<1>5. /\ Operand(w, v) \in FrameType /\ Operand(w, v).paren = Caller.paren
      /\ Operand(w, v).prec = Caller.prec
  BY <1>2, <1>3, OperandType
<1>6. Stack(frames')
  BY <1>4, <1>5, CallerFacts, ReplaceFacts
<1>7. back' = None /\ UNCHANGED <<answer, strayed>> /\ answer = "reading" /\ t # Eol
  BY <1>1 DEF ReadOperand, Get, Numbers, Operators, NoOperators, Eol
<1> QED
  BY <1>1, <1>6, <1>7, ReadStep, CallerFacts, NoneType

LEMMA OpenParenStep ==
  ASSUME IfInv, OpenParen
  PROVE  IfInv'
<1> DEFINE w == Waiting(Caller)
           b == Append(Front(frames), w)
           f == Frame(Caller.n, Caller.paren + 1, 0, 0)
<1>1. w \in FrameType /\ w.paren = Caller.paren /\ w.prec = Caller.prec
  BY CallerFacts, WaitingType
<1>2. Stack(b)
  BY <1>1, CallerFacts, ReplaceFacts
<1>3. f \in FrameType
  <2>1. Caller.paren + 1 \in Nat /\ 0 \in 0 .. 2
    BY CallerFacts
  <2> QED
    BY <2>1, CallerFacts, FrameTypes
<1>4. frames' = Append(b, f)
  BY DEF OpenParen
<1> HIDE DEF b, f
<1>5. Stack(frames')
  BY <1>2, <1>3, <1>4, CalledFacts
<1>6. Get("(") /\ back' = None /\ UNCHANGED <<answer, strayed>> /\ answer = "reading"
  BY DEF OpenParen, Get
<1> QED
  BY <1>5, <1>6, ReadStep, CallerFacts, NoneType DEF Eol

LEMMA CloseParenStep ==
  ASSUME IfInv, CloseParen
  PROVE  IfInv'
<1>1. Get(")") /\ answer = "reading"
  BY DEF CloseParen, Get
<1>2. CASE Caller.state # 1 \/ Caller.paren = 0
  BY <1>1, <1>2, RefuseStep DEF CloseParen
<1>3. CASE ~(Caller.state # 1 \/ Caller.paren = 0)
  <2>1. Result(Caller) \in 0 .. 1
    BY CallerFacts, ResultType
  <2>2. /\ Return(Result(Caller)) /\ back' = None
        /\ strayed' = (strayed \/ ~InParen(frames[Len(frames) - 1], Caller))
    BY <1>3 DEF CloseParen
  <2>3. Stack(frames') /\ answer' \in {"reading", "true", "false"}
    BY <1>1, <2>1, <2>2, ReturnFacts
  <2>4. strayed' \in BOOLEAN
    BY <2>2, Zenon
  <2> QED
    BY <1>1, <2>2, <2>3, <2>4, ReadStep, NoneType DEF Eol
<1> QED
  BY <1>2, <1>3

LEMMA OperatorStep ==
  ASSUME IfInv, SameLevel \/ Tighter \/ Looser
  PROVE  IfInv'
<1>1. answer = "reading" /\ \A op \in Operators : op # Eol
  BY DEF SameLevel, Tighter, Looser, Get, Operators, Eol
<1>2. \A op \in Operators : Precedence(op) \in 0 .. 2
  BY DEF Precedence, Operators
<1>3. CASE SameLevel
  <2>1. PICK op \in Operators :
          /\ Get(op)
          /\ Replace([Caller EXCEPT !.n = Result(Caller), !.oper = op, !.state = 2])
    BY <1>3 DEF SameLevel
  <2> DEFINE f == [Caller EXCEPT !.n = Result(Caller), !.oper = op, !.state = 2]
  <2>2. f \in FrameType /\ f.paren = Caller.paren /\ f.prec = Caller.prec
    <3>1. Result(Caller) \in 0 .. 1 /\ op \in Operators \cup {None} /\ 2 \in 0 .. 2
      BY CallerFacts, ResultType
    <3> QED
      BY <3>1, CallerFacts DEF FrameType
  <2>3. frames' = Append(Front(frames), f)
    BY <2>1 DEF Replace
  <2> HIDE DEF f
  <2>4. Stack(frames')
    BY <2>2, <2>3, CallerFacts, ReplaceFacts
  <2> QED
    BY <1>1, <1>3, <2>1, <2>4, ReadStep, CallerFacts, NoneType DEF SameLevel
<1>4. CASE Tighter
  <2>1. PICK op \in Operators :
          /\ Get(op) /\ back' = op
          /\ frames' = Append(frames, Frame(Caller.n, Caller.paren, Precedence(op), 1))
    BY <1>4 DEF Tighter
  <2>2. Frame(Caller.n, Caller.paren, Precedence(op), 1) \in FrameType
    <3>1. 1 \in 0 .. 2
      OBVIOUS
    <3> QED
      BY <1>2, <3>1, CallerFacts, FrameTypes
  <2>3. Stack(frames')
    BY <2>1, <2>2, CallerFacts, CalledFacts
  <2>4. back' \in CondToken \cup {Eol, None}
    BY <2>1, GetFacts
  <2> QED
    BY <1>1, <1>4, <2>1, <2>3, <2>4, ReadStep, CallerFacts DEF Tighter
<1>5. CASE Looser
  <2>1. PICK op \in Operators :
          Get(op) /\ Precedence(op) < Caller.prec /\ back' = op
    BY <1>5 DEF Looser
  <2>2. Caller.prec # 0
    BY <1>2, <2>1, CallerFacts
  <2>3. Front(frames) # << >>
    <3>1. /\ Len(frames) \in Nat /\ Len(frames) >= 1 /\ Caller = frames[Len(frames)]
          /\ Len(Front(frames)) = Len(frames) - 1
      BY CallerFacts, TopCall
    <3>2. Len(frames) # 1
      BY <2>2, <3>1, CallerFacts DEF Stack
    <3> QED
      BY <3>1, <3>2
  <2>4. Stack(frames')
    BY <1>5, <2>3, CallerFacts, BelowStack DEF Looser
  <2>5. back' \in CondToken \cup {Eol, None}
    BY <2>1, GetFacts
  <2> QED
    BY <1>1, <1>5, <2>1, <2>4, <2>5, ReadStep DEF Looser
<1> QED
  BY <1>3, <1>4, <1>5

LEMMA IfNextStep ==
  ASSUME IfInv, [IfNext]_ifvars
  PROVE  IfInv'
<1>1. CASE EndOfLine
  BY <1>1, EndOfLineStep
<1>2. CASE Not
  BY <1>2, NotStep
<1>3. CASE ReadOperand
  BY <1>3, ReadOperandStep
<1>4. CASE OpenParen
  BY <1>4, OpenParenStep
<1>5. CASE CloseParen
  BY <1>5, CloseParenStep
<1>6. CASE SameLevel \/ Tighter \/ Looser
  BY <1>6, OperatorStep
<1>7. CASE Unexpected
  <2>1. PICK t : Get(t) /\ Refuse
    BY <1>7 DEF Unexpected
  <2> QED
    BY <2>1, RefuseStep
<1>8. CASE UNCHANGED ifvars
  BY <1>8 DEF ifvars, IfInv, IfTypeOK, Outermost, LineEnds
<1> QED
  BY <1>1, <1>2, <1>3, <1>4, <1>5, <1>6, <1>7, <1>8 DEF IfNext

LEMMA IfInitHolds == IfInit => IfInv
<1> SUFFICES ASSUME IfInit PROVE IfInv
  OBVIOUS
<1> DEFINE f == Frame(0, 0, 0, 0)
<1>1. f \in FrameType /\ f.paren = 0 /\ f.prec = 0
  <2>1. 0 \in 0 .. 1 /\ 0 \in 0 .. 2 /\ 0 \in Nat
    OBVIOUS
  <2>2. f \in FrameType
    BY <2>1, FrameTypes
  <2> QED
    BY <2>2 DEF Frame
<1>2. /\ cond = << >> /\ back = None /\ answer = "reading" /\ frames = <<f>>
      /\ MaxCondTokens \in Nat
  BY IfExpressionAssumption DEF IfInit, IfExpressionAssumption
<1>3. strayed \in BOOLEAN
  BY Zenon DEF IfInit
<1> HIDE DEF f
<1>4. Stack(frames)
  BY <1>1, <1>2 DEF Stack
<1>5. cond \in Seq(CondToken \cup {Eol}) /\ Len(cond) = 0
  BY <1>2
<1> QED
  BY <1>2, <1>3, <1>4, <1>5 DEF IfInv, IfTypeOK, Outermost, LineEnds, Stack, FrameType

(* The calls of parse_ifdef_expression() are at least one until the        *)
(* condition is answered, their values are 0 or 1 here, and no token is    *)
(* read past the end of the line, for conditions of any length.            *)
THEOREM ConditionTypeCorrect == IfExpressionSpec => []IfTypeOK
<1>1. IfInv => IfTypeOK
  BY DEF IfInv
<1> QED
  BY <1>1, IfInitHolds, IfNextStep, PTL DEF IfExpressionSpec
============================================================================
