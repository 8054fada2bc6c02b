-------------------------- MODULE CharStackProofs --------------------------
(***************************************************************************)
(* Proofs about CharStack, for every table of macros and every text: the   *)
(* levels of the buffer stay in step with the stack of macros, and a macro *)
(* that is read from def_param_stack_data is never overwritten.  What      *)
(* makes the second inductive is that the regions are in order, whether a  *)
(* macro still points into them or not, and that a running copy writes     *)
(* above all of them.                                                      *)
(***************************************************************************)
EXTENDS CharStack, TLAPS

Given == Char \cup {Eof}

Callable == {m \in DOMAIN Macro : Macro[m].params > 0}

(* What is true of the locals of macros_expand_params() while it runs. *)
Locals ==
  /\ pc \in {"open", "args", "copy"} => macro \in Callable
  /\ pc = "args" => args # << >>
  /\ pc = "copy" => /\ Len(args) = Macro[macro].params
                    /\ define >= 1 /\ FreeSpace <= ptr
                    /\ define > 1 => ptr < ParamStackLen

LocalTypes ==
  /\ args \in Seq(Seq(Char)) /\ parens \in Nat /\ define \in Nat /\ ptr \in Nat
  /\ token \in Seq(Given)
  /\ pc \in {"token", "new", "more", "open", "args", "copy",
             "ended", "failed", "done", "exited", "exhausted"}

StackTypes ==
  /\ files \in Seq(Seq(Char)) /\ files # << >>
  /\ unget \in Seq(Given)
  /\ unget_stack \in Seq(Nat) /\ unget_stack # << >>
  /\ stack \in Seq(Frame)
  /\ def_param_stack_data \in [Offset -> Char \cup {Nul}]
  /\ def_param_stack_ptr \in Seq(Nat) /\ def_param_stack_ptr # << >>

Levels(levels, depth, end) ==
  /\ Len(levels) = depth + 1
  /\ \A i \in DOMAIN levels : levels[i] <= end
  /\ \A i, j \in DOMAIN levels : i <= j => levels[i] <= levels[j]

RegionsInOrder(begins) ==
  /\ \A i \in 1 .. Len(begins) : begins[i] <= ParamStackLen
  /\ \A i, j \in 1 .. Len(begins) : i < j => begins[i] < begins[j]

RegionsEnded(begins, data) ==
  \A r \in 1 .. Len(begins) - 1 : data[begins[r + 1] - 1] = Nul

Placed(frame, begins) ==
  /\ frame.of # Params => frame.at >= 1 /\ Macro[frame.of].params = 0
  /\ frame.of = Params =>
       /\ frame.region \in 1 .. Len(begins) - 1
       /\ begins[frame.region] <= frame.at
       /\ frame.at < begins[frame.region + 1]

FramesPlaced(frames, begins) ==
  /\ \A i \in 1 .. Len(frames) : Placed(frames[i], begins)
  /\ \A i, j \in 1 .. Len(frames) :
       i < j /\ frames[i].of = Params /\ frames[j].of = Params
         => frames[i].region < frames[j].region

IInv ==
  /\ TypeOK
  /\ Locals
  /\ pc # "exhausted" => Levels(unget_stack, Len(stack), Len(unget))
  /\ RegionsInOrder(def_param_stack_ptr)
  /\ RegionsEnded(def_param_stack_ptr, def_param_stack_data)
  /\ FramesPlaced(stack, def_param_stack_ptr)

----------------------------------------------------------------------------

(* What the operators on sequences return. *)
LEMMA FrontFacts ==
  ASSUME NEW S, NEW s \in Seq(S), s # << >>
  PROVE  /\ Front(s) \in Seq(S) /\ Len(Front(s)) = Len(s) - 1 /\ Len(s) >= 1
         /\ \A i \in 1 .. Len(s) - 1 : Front(s)[i] = s[i]
         /\ Last(s) \in S /\ Last(s) = s[Len(s)]
<1>1. PICK n \in Nat : n = Len(s)
  OBVIOUS
<1>2. n >= 1 /\ s[n] \in S
  BY <1>1
<1>3. SubSeq(s, 1, n - 1) \in Seq(S) /\ Len(SubSeq(s, 1, n - 1)) = n - 1
  BY <1>1, <1>2
<1>4. \A i \in 1 .. n - 1 : SubSeq(s, 1, n - 1)[i] = s[i]
  BY <1>1, <1>2
<1> QED
  BY <1>1, <1>2, <1>3, <1>4 DEF Front, Last

LEMMA AppendFacts ==
  ASSUME NEW S, NEW s \in Seq(S), NEW e \in S
  PROVE  /\ Append(s, e) \in Seq(S) /\ Len(Append(s, e)) = Len(s) + 1
         /\ \A i \in 1 .. Len(s) : Append(s, e)[i] = s[i]
         /\ Append(s, e)[Len(s) + 1] = e
         /\ Append(s, e) # << >>
OBVIOUS

LEMMA ReplacedFacts ==
  ASSUME NEW S, NEW s \in Seq(S), NEW k \in 1 .. Len(s), NEW e \in S
  PROVE  /\ [s EXCEPT ![k] = e] \in Seq(S)
         /\ Len([s EXCEPT ![k] = e]) = Len(s)
         /\ \A i \in 1 .. Len(s) : [s EXCEPT ![k] = e][i] = IF i = k THEN e ELSE s[i]
OBVIOUS

(* The free space begins where the last region ends. *)
LEMMA FreeSpaceType ==
  ASSUME TypeOK
  PROVE  /\ Len(def_param_stack_ptr) \in Nat \ {0}
         /\ FreeSpace = def_param_stack_ptr[Len(def_param_stack_ptr)]
         /\ FreeSpace \in Nat
BY DEF TypeOK, FreeSpace

(* A pointer that is not at the end of its text points at a character. *)
LEMMA TopChar ==
  ASSUME IInv, stack # << >>, At(Top, 0) # Nul
  PROVE  /\ At(Top, 0) \in Char
         /\ Top.of = Params => def_param_stack_data[Top.at] # Nul
<1> DEFINE n == Len(stack)
<1>1. n \in Nat \ {0} /\ Top = stack[n] /\ Top \in Frame
  BY DEF IInv, TypeOK, Top
<1>2. Placed(Top, def_param_stack_ptr)
  BY <1>1 DEF IInv, FramesPlaced
<1>3. CASE Top.of = Params
  <2> DEFINE r == Top.region
             m == Len(def_param_stack_ptr)
  <2>t. /\ def_param_stack_ptr \in Seq(Nat)
        /\ def_param_stack_data \in [Offset -> Char \cup {Nul}]
    BY Zenon DEF IInv, TypeOK
  <2>0. m \in Nat /\ def_param_stack_ptr \in Seq(Nat) /\ Top.at \in Nat
    BY <1>1, <2>t DEF Frame
  <2>a. r \in 1 .. m - 1 /\ Top.at < def_param_stack_ptr[r + 1]
    BY <1>2, <1>3 DEF Placed
  <2>b. r + 1 \in 1 .. m
    BY <2>0, <2>a
  <2>c. def_param_stack_ptr[r + 1] <= ParamStackLen /\ def_param_stack_ptr[r + 1] \in Nat
    BY <2>0, <2>b DEF IInv, RegionsInOrder
  <2>1. Top.at \in Offset
    BY <2>0, <2>a, <2>c, CharStackAssumption DEF Offset, CharStackAssumption
  <2>2. Top.at + 0 = Top.at /\ def_param_stack_data[Top.at] \in Char \cup {Nul}
    BY <2>0, <2>t, <2>1
  <2> QED
    BY <1>3, <2>2 DEF At
<1>4. CASE Top.of # Params
  <2>1. Top.of \in DOMAIN Macro /\ Macro[Top.of].params = 0 /\ Top.at \in Nat \ {0}
    BY <1>1, <1>2, <1>4 DEF Placed, Frame
  <2>2. Macro[Top.of].text \in Seq(Char)
    BY <2>1, CharStackAssumption DEF CharStackAssumption
  <2> QED
    BY <1>4, <2>1, <2>2 DEF At
<1> QED
  BY <1>3, <1>4

(* A character that is read changes the locals and the token only. *)
LEMMA DeliverStep ==
  ASSUME IInv, NEW ch \in Given, Deliver(ch), UNCHANGED array
  PROVE  LocalTypes' /\ Locals' /\ pc # "exhausted" /\ pc' # "exhausted"
<1> USE DEF Given
<1>1. LocalTypes /\ Locals
  BY DEF IInv, TypeOK, LocalTypes
<1>2. FreeSpace \in Nat /\ FreeSpace' = FreeSpace
  BY FreeSpaceType DEF IInv, FreeSpace, array
<1>3. CASE pc \in {"new", "more"} /\ ToToken(ch)
  <2>1. token' \in Seq(Given)
    BY <1>1, <1>3 DEF ToToken, LocalTypes
  <2>2. /\ UNCHANGED <<macro, args, parens, define, ptr>> /\ pc' = "token"
    BY <1>3 DEF ToToken, expansion
  <2> QED
    BY <1>1, <1>3, <2>1, <2>2 DEF Locals, LocalTypes
<1>4. CASE pc = "open" /\ ToOpen(ch)
  <2>1. UNCHANGED <<macro, parens, define, ptr, token>>
    BY <1>4 DEF ToOpen, tokenizer
  <2>2. \/ pc' = "args" /\ args' = << << >> >>
        \/ pc' = "failed" /\ args' = args
    BY <1>4 DEF ToOpen
  <2>3. << << >> >> \in Seq(Seq(Char)) /\ << << >> >> # << >>
    OBVIOUS
  <2> QED
    BY <1>1, <1>4, <2>1, <2>2, <2>3 DEF Locals, LocalTypes
<1>5. CASE pc = "args" /\ ToArgs(ch)
  <2>1. UNCHANGED <<macro, token>> /\ macro \in Callable /\ args # << >>
    BY <1>1, <1>5 DEF ToArgs, tokenizer, Locals
  <2>2. CASE /\ pc' = IF Len(args) = Macro[macro].params THEN "copy" ELSE "ended"
             /\ define' = 1 /\ ptr' = FreeSpace
             /\ UNCHANGED <<args, parens>>
    <3>1. args' = args /\ parens' = parens /\ macro' = macro /\ token' = token
      BY <2>1, <2>2
    <3>2. LocalTypes'
      BY <1>1, <1>2, <2>2, <3>1 DEF LocalTypes
    <3>3. CASE pc' = "copy"
      <4>1. Len(args') = Macro[macro'].params
        BY <2>2, <3>1, <3>3
      <4> QED
        BY <1>2, <1>5, <2>1, <2>2, <3>1, <3>2, <3>3, <4>1 DEF Locals
    <3>4. CASE pc' = "ended"
      BY <1>5, <3>2, <3>4 DEF Locals
    <3> QED
      BY <1>5, <2>2, <3>3, <3>4
  <2>3. CASE /\ pc' = "ended"
             /\ UNCHANGED <<args, parens, define, ptr>>
    <3>1. args' = args /\ parens' = parens /\ define' = define /\ ptr' = ptr
      BY <2>3
    <3> QED
      BY <1>1, <1>5, <2>1, <2>3, <3>1 DEF Locals, LocalTypes
  <2>4. CASE /\ args' = Append(args, << >>)
             /\ UNCHANGED <<parens, define, ptr, pc>>
    <3>1. args' \in Seq(Seq(Char)) /\ args' # << >>
      BY <1>1, <2>4, AppendFacts DEF LocalTypes
    <3> QED
      BY <1>1, <1>5, <2>1, <2>4, <3>1 DEF Locals, LocalTypes
  <2>5. CASE /\ ch \in Char /\ AddToArg(ch)
             /\ parens' \in Nat /\ UNCHANGED <<define, ptr, pc>>
    <3> DEFINE n == Len(args)
    <3>1. n \in Nat \ {0} /\ args[n] \in Seq(Char) /\ args \in Seq(Seq(Char))
      BY <1>1, <2>1 DEF LocalTypes
    <3>2. Append(args[n], ch) \in Seq(Char)
      BY <2>5, <3>1
    <3>3. args' = [args EXCEPT ![n] = Append(args[n], ch)]
      BY <2>5 DEF AddToArg
    <3>4. args' \in Seq(Seq(Char)) /\ Len(args') = n
      <4> HIDE DEF n
      <4>1. n \in 1 .. Len(args)
        BY <3>1 DEF n
      <4> QED
        BY <3>1, <3>2, <3>3, <4>1, ReplacedFacts DEF n
    <3>5. args' # << >>
      BY <3>1, <3>4
    <3> QED
      BY <1>1, <1>5, <2>1, <2>5, <3>4, <3>5 DEF Locals, LocalTypes
  <2>6. parens \in Nat /\ {Open, Close, Comma, Eol} \subseteq Char /\ Eof \notin Char
    BY <1>1, CharStackAssumption DEF LocalTypes, CharStackAssumption
  <2>7. CASE /\ ch = Open \/ (ch = Close /\ parens > 0)
             /\ parens' = IF ch = Open THEN parens + 1 ELSE parens - 1
             /\ AddToArg(ch)
             /\ UNCHANGED <<define, ptr, pc>>
    <3>1. parens' \in Nat /\ ch \in Char
      BY <2>6, <2>7
    <3> QED
      BY <2>5, <2>7, <3>1
  <2>8. CASE /\ ch \notin {Open, Close, Eol, Eof}
             /\ AddToArg(ch)
             /\ UNCHANGED <<parens, define, ptr, pc>>
    <3>1. parens' \in Nat /\ ch \in Char
      BY <2>6, <2>8
    <3> QED
      BY <2>5, <2>8, <3>1
  <2> QED
    BY <1>5, <2>2, <2>3, <2>4, <2>7, <2>8 DEF ToArgs
<1> QED
  BY <1>3, <1>4, <1>5 DEF Deliver

LEMMA TypesSplit == TypeOK <=> StackTypes /\ LocalTypes
BY DEF TypeOK, StackTypes, LocalTypes, Given

LEMMA TypesSplitNext == TypeOK' <=> StackTypes' /\ LocalTypes'
BY DEF TypeOK, StackTypes, LocalTypes, Given

LEMMA GetUngotStep == ASSUME IInv, GetUngot PROVE IInv'
<1> DEFINE k == Len(unget)
<1>1. StackTypes /\ UNCHANGED <<files, unget_stack, stack, array>>
  BY TypesSplit DEF IInv, GetUngot
<1>2. k \in Nat /\ k > unget_stack[Len(unget_stack)]
  BY <1>1 DEF GetUngot, Ungot, StackTypes
<1>3. Len(unget_stack) \in Nat \ {0} /\ unget_stack[Len(unget_stack)] \in Nat
  BY <1>1 DEF StackTypes
<1>4. unget # << >>
  BY <1>2, <1>3
<1>5. unget' \in Seq(Given) /\ Len(unget') = k - 1 /\ Last(unget) \in Given
  BY <1>1, <1>4, FrontFacts DEF GetUngot, StackTypes
<1>6. LocalTypes' /\ Locals' /\ pc # "exhausted"
  BY <1>1, <1>5, DeliverStep DEF GetUngot
<1>7. Levels(unget_stack, Len(stack), k)
  BY <1>6 DEF IInv
<1>8. Levels(unget_stack', Len(stack'), Len(unget'))
  <2>1. \A i \in DOMAIN unget_stack : unget_stack[i] <= k - 1
    <3> TAKE i \in DOMAIN unget_stack
    <3>1. i \in 1 .. Len(unget_stack) /\ i <= Len(unget_stack)
            /\ Len(unget_stack) \in DOMAIN unget_stack /\ unget_stack[i] \in Nat
      BY SMTT(30), <1>1, <1>3 DEF StackTypes
    <3>2. unget_stack[i] <= unget_stack[Len(unget_stack)]
      BY <1>7, <3>1 DEF Levels
    <3> QED
      BY <1>2, <1>3, <3>1, <3>2
  <2> QED
    BY <1>1, <1>5, <1>7, <2>1 DEF Levels
<1>9. StackTypes'
  BY <1>1, <1>5 DEF StackTypes, array
<1> QED
  BY <1>1, <1>6, <1>8, <1>9, TypesSplitNext DEF IInv, array

LEMMA GetFrameStep == ASSUME IInv, GetFrame PROVE IInv'
<1> DEFINE n == Len(stack)
           f == Advanced(stack[n])
<1>1. StackTypes /\ UNCHANGED <<files, unget, unget_stack, array>> /\ stack # << >>
  BY TypesSplit DEF IInv, GetFrame
<1>2. n \in Nat \ {0} /\ stack[n] \in Frame /\ n \in 1 .. n
  BY <1>1 DEF StackTypes
<1>3. f \in Frame /\ f.of = stack[n].of /\ f.region = stack[n].region
        /\ f.at = stack[n].at + 1 /\ stack[n].at \in Nat
  BY <1>2 DEF Advanced, Frame
<1>4. stack' = [stack EXCEPT ![n] = f]
  BY DEF GetFrame
<1>5. /\ stack' \in Seq(Frame) /\ Len(stack') = n
      /\ \A i \in 1 .. n : stack'[i] = IF i = n THEN f ELSE stack[i]
  <2> HIDE DEF n, f
  <2>1. stack \in Seq(Frame) /\ n = Len(stack)
    BY <1>1 DEF StackTypes, n
  <2> QED
    BY <1>2, <1>3, <1>4, <2>1, ReplacedFacts
<1>6. LocalTypes' /\ Locals' /\ pc # "exhausted"
  <2>1. At(Top, 0) \in Given
    BY TopChar DEF GetFrame, Given
  <2> QED
    BY <1>1, <2>1, DeliverStep DEF GetFrame
<1>7. Levels(unget_stack', Len(stack'), Len(unget'))
  BY <1>1, <1>5, <1>6 DEF IInv, Levels
<1>8. StackTypes'
  <2>1. stack' \in Seq(Frame)
    BY <1>5
  <2> QED
    BY <1>1, <2>1 DEF StackTypes, array
<1>9. Placed(f, def_param_stack_ptr)
  <2>1. Placed(stack[n], def_param_stack_ptr)
    BY <1>2 DEF IInv, FramesPlaced
  <2>2. CASE stack[n].of # Params
    BY <1>3, <2>1, <2>2 DEF Placed
  <2>3. CASE stack[n].of = Params
    <3> DEFINE r == stack[n].region
               m == Len(def_param_stack_ptr)
    <3>1. r \in 1 .. m - 1 /\ m \in Nat /\ stack[n].at < def_param_stack_ptr[r + 1]
            /\ def_param_stack_ptr[r] <= stack[n].at
      BY <1>1, <2>1, <2>3 DEF Placed, StackTypes
    <3>2. r + 1 \in 1 .. m /\ def_param_stack_ptr[r + 1] \in Nat
            /\ def_param_stack_ptr[r] \in Nat
      <4>1. r + 1 \in 1 .. m /\ r \in 1 .. m
        BY <3>1
      <4>2. def_param_stack_ptr \in Seq(Nat)
        BY <1>1 DEF StackTypes
      <4>3. \A i \in 1 .. m : def_param_stack_ptr[i] \in Nat
        BY <4>2
      <4> QED
        BY <4>1, <4>3
    <3>3. def_param_stack_data[def_param_stack_ptr[r + 1] - 1] = Nul
      BY <3>1 DEF IInv, RegionsEnded
    <3>4. def_param_stack_data[stack[n].at] # Nul
      BY <2>3, TopChar DEF GetFrame, Top
    <3>5. stack[n].at # def_param_stack_ptr[r + 1] - 1
      BY <3>3, <3>4
    <3>6. f.at < def_param_stack_ptr[r + 1] /\ def_param_stack_ptr[r] <= f.at
      BY SMTT(30), <1>3, <3>1, <3>2, <3>5
    <3> QED
      BY <1>3, <2>3, <3>1, <3>6 DEF Placed
  <2> QED
    BY <2>2, <2>3
<1>10. FramesPlaced(stack', def_param_stack_ptr)
  <2>1. \A i \in 1 .. n : stack'[i].of = stack[i].of /\ stack'[i].region = stack[i].region
    BY <1>3, <1>5
  <2>2. \A i \in 1 .. n : Placed(stack'[i], def_param_stack_ptr)
    BY <1>5, <1>9 DEF IInv, FramesPlaced
  <2> QED
    BY <1>5, <2>1, <2>2 DEF IInv, FramesPlaced
<1> QED
  BY <1>1, <1>6, <1>7, <1>8, <1>10, TypesSplitNext DEF IInv, array

(* The macro that is dropped was in the highest region that is in use. *)
LEMMA PopFrameStep == ASSUME IInv, PopFrame PROVE IInv'
<1> DEFINE n == Len(stack)
           m == Len(def_param_stack_ptr)
           l == Len(unget_stack)
<1>1. /\ StackTypes /\ LocalTypes /\ stack # << >>
      /\ UNCHANGED <<files, unget, def_param_stack_data, expansion, tokenizer, pc>>
      /\ pc \in {"new", "more", "open", "args"}
  BY TypesSplit DEF IInv, PopFrame, Reading
<1>2. n \in Nat \ {0} /\ stack[n] \in Frame /\ n \in 1 .. n /\ Top = stack[n]
  BY <1>1 DEF StackTypes, Top
<1>3. stack' \in Seq(Frame) /\ Len(stack') = n - 1
        /\ \A i \in 1 .. n - 1 : stack'[i] = stack[i]
  BY <1>1, FrontFacts DEF PopFrame, StackTypes
<1>4. l \in Nat /\ m \in Nat
  BY <1>1 DEF StackTypes
<1>5. Levels(unget_stack, n, Len(unget)) /\ l = n + 1
  BY <1>1 DEF IInv, Levels
<1>6. unget_stack' \in Seq(Nat) /\ Len(unget_stack') = l - 1
        /\ \A i \in 1 .. l - 1 : unget_stack'[i] = unget_stack[i]
  BY <1>1, FrontFacts DEF PopFrame, LevelsBelow, StackTypes
<1>7. Levels(unget_stack', n - 1, Len(unget)) /\ unget_stack' # << >>
  <2>1. Len(unget_stack') = n - 1 + 1 /\ unget_stack' # << >>
    BY <1>2, <1>5, <1>6
  <2>2. DOMAIN unget_stack' = 1 .. l - 1 /\ DOMAIN unget_stack = 1 .. l
    BY <1>1, <1>6 DEF StackTypes
  <2>3. \A i \in 1 .. l - 1 : i \in 1 .. l
    BY <1>4
  <2> QED
    BY <1>5, <1>6, <2>1, <2>2, <2>3 DEF Levels
<1>8. LocalTypes' /\ (FreeSpace' = FreeSpace => Locals')
  BY <1>1 DEF IInv, LocalTypes, Locals, expansion, tokenizer
<1>9. Locals'
  BY <1>1 DEF IInv, Locals, expansion
<1>10. Placed(stack[n], def_param_stack_ptr)
  BY <1>2 DEF IInv, FramesPlaced
<1>11. CASE ~InArray(Top)
  <2>1. def_param_stack_ptr' = def_param_stack_ptr
    BY <1>11 DEF PopFrame
  <2>2. FramesPlaced(stack', def_param_stack_ptr)
    BY <1>2, <1>3 DEF IInv, FramesPlaced
  <2>3. StackTypes'
    BY <1>1, <1>3, <1>6, <1>7, <2>1 DEF StackTypes
  <2> QED
    BY <1>1, <1>3, <1>7, <1>8, <1>9, <2>1, <2>2, <2>3, TypesSplitNext DEF IInv
<1>12. CASE InArray(Top)
  <2>1. def_param_stack_ptr' = Front(def_param_stack_ptr) /\ stack[n].of = Params
    BY <1>2, <1>12 DEF PopFrame, InArray
  <2>2. /\ def_param_stack_ptr' \in Seq(Nat) /\ Len(def_param_stack_ptr') = m - 1
        /\ \A i \in 1 .. m - 1 : def_param_stack_ptr'[i] = def_param_stack_ptr[i]
    BY <1>1, <2>1, FrontFacts DEF StackTypes
  <2>3. stack[n].region \in 1 .. m - 1
    BY <1>10, <2>1 DEF Placed
  <2>4. def_param_stack_ptr' # << >>
    BY <1>4, <2>2, <2>3
  <2>5. RegionsInOrder(def_param_stack_ptr')
    <3>1. \A i \in 1 .. m - 1 : i \in 1 .. m
      BY <1>4
    <3> QED
      BY <2>2, <3>1 DEF IInv, RegionsInOrder
  <2>6. RegionsEnded(def_param_stack_ptr', def_param_stack_data)
    <3>1. \A r \in 1 .. (m - 1) - 1 : r \in 1 .. m - 1 /\ r + 1 \in 1 .. m - 1
      BY <1>4
    <3> QED
      BY <2>2, <3>1 DEF IInv, RegionsEnded
  <2>7. FramesPlaced(stack', def_param_stack_ptr')
    <3>1. ASSUME NEW i \in 1 .. n - 1 PROVE Placed(stack'[i], def_param_stack_ptr')
      <4>1. i \in 1 .. n /\ i < n /\ stack'[i] = stack[i] /\ stack[i] \in Frame
        BY <1>1, <1>2, <1>3, <3>1 DEF StackTypes
      <4>2. Placed(stack[i], def_param_stack_ptr)
        BY <4>1 DEF IInv, FramesPlaced
      <4>3. CASE stack[i].of # Params
        BY <4>1, <4>2, <4>3 DEF Placed
      <4>4. CASE stack[i].of = Params
        <5> DEFINE r == stack[i].region
        <5>1. r < stack[n].region
          BY <1>2, <2>1, <4>1, <4>4 DEF IInv, FramesPlaced
        <5>2. r \in 1 .. m - 1
          BY <4>2, <4>4 DEF Placed
        <5>3. r \in 1 .. (m - 1) - 1 /\ r + 1 \in 1 .. m - 1
          BY <1>4, <2>3, <5>1, <5>2
        <5>4. r \in 1 .. m - 1 /\ Len(def_param_stack_ptr') - 1 = (m - 1) - 1
          BY <2>2, <5>3
        <5>5. /\ def_param_stack_ptr'[r] = def_param_stack_ptr[r]
              /\ def_param_stack_ptr'[r + 1] = def_param_stack_ptr[r + 1]
          BY <2>2, <5>3, <5>4
        <5>6. /\ def_param_stack_ptr'[r] <= stack[i].at
              /\ stack[i].at < def_param_stack_ptr'[r + 1]
          BY <4>2, <4>4, <5>5 DEF Placed
        <5>7. Placed(stack[i], def_param_stack_ptr')
          BY <4>4, <5>3, <5>4, <5>6 DEF Placed
        <5> QED
          BY <4>1, <5>7
      <4> QED
        BY <4>3, <4>4
    <3>2. \A i \in 1 .. n - 1 : i \in 1 .. n
      BY <1>2
    <3> QED
      BY <1>3, <3>1, <3>2 DEF IInv, FramesPlaced
  <2>8. StackTypes'
    BY <1>1, <1>3, <1>6, <1>7, <2>2, <2>4 DEF StackTypes
  <2> QED
    BY <1>1, <1>3, <1>7, <1>8, <1>9, <2>5, <2>6, <2>7, <2>8, TypesSplitNext DEF IInv
<1> QED
  BY <1>11, <1>12

LEMMA GetFileStep == ASSUME IInv, GetFile PROVE IInv'
<1> DEFINE k == Len(files)
<1>1. StackTypes /\ UNCHANGED <<unget, unget_stack, stack, array>>
  BY TypesSplit DEF IInv, GetFile
<1>2. k \in Nat \ {0} /\ files[k] \in Seq(Char) /\ Last(files) = files[k]
  BY <1>1 DEF StackTypes, Last
<1>3. \/ Deliver(Eof) /\ files' = files
      \/ /\ files[k] # << >> /\ Deliver(Head(files[k]))
         /\ files' = [files EXCEPT ![k] = Tail(files[k])]
  BY <1>2 DEF GetFile
<1>4. (Head(files[k]) \in Char /\ Tail(files[k]) \in Seq(Char)) \/ files[k] = << >>
  BY <1>2
<1>5. files' \in Seq(Seq(Char)) /\ files' # << >>
  <2>1. CASE files' = files
    BY <1>1, <2>1 DEF StackTypes
  <2>2. CASE files[k] # << >> /\ files' = [files EXCEPT ![k] = Tail(files[k])]
    <3> HIDE DEF k
    <3>1. k \in 1 .. Len(files) /\ files \in Seq(Seq(Char)) /\ Tail(files[k]) \in Seq(Char)
      BY <1>1, <1>2, <1>4, <2>2 DEF StackTypes, k
    <3>2. files' \in Seq(Seq(Char)) /\ Len(files') = Len(files)
      BY <2>2, <3>1, ReplacedFacts
    <3> QED
      BY <3>1, <3>2
  <2> QED
    BY <1>3, <2>1, <2>2
<1>6. LocalTypes' /\ Locals' /\ pc # "exhausted"
  <2>1. CASE Deliver(Eof)
    BY <1>1, <2>1, DeliverStep DEF Given
  <2>2. CASE files[k] # << >> /\ Deliver(Head(files[k]))
    <3>1. Head(files[k]) \in Given
      BY <1>4, <2>2 DEF Given
    <3> QED
      BY <1>1, <2>2, <3>1, DeliverStep
  <2> QED
    BY <1>3, <2>1, <2>2
<1>7. StackTypes'
  BY <1>1, <1>5 DEF StackTypes, array
<1> QED
  BY <1>1, <1>6, <1>7, TypesSplitNext DEF IInv, array

LEMMA ReadStep == ASSUME IInv, NEW new \in BOOLEAN, Read(new) PROVE IInv'
<1>1. /\ StackTypes /\ LocalTypes
      /\ UNCHANGED <<files, unget, unget_stack, stack, array, expansion, tokenizer>>
      /\ pc = "token" /\ pc' \in {"new", "more"}
  BY TypesSplit DEF IInv, Read
<1>2. StackTypes' /\ LocalTypes' /\ Locals'
  BY <1>1 DEF StackTypes, LocalTypes, Locals, array, expansion, tokenizer
<1> QED
  BY <1>1, <1>2, TypesSplitNext DEF IInv, array

LEMMA UngetStep == ASSUME IInv, Unget PROVE IInv'
<1>1. /\ StackTypes /\ LocalTypes /\ token # << >> /\ pc = "token"
      /\ UNCHANGED <<files, unget_stack, stack, array, expansion, pc>>
  BY TypesSplit DEF IInv, Unget
<1>2. Last(token) \in Given /\ Front(token) \in Seq(Given)
  BY <1>1, FrontFacts DEF LocalTypes
<1>3. unget' \in Seq(Given) /\ Len(unget') = Len(unget) + 1
  BY <1>1, <1>2, AppendFacts DEF Unget, StackTypes
<1>4. StackTypes' /\ LocalTypes' /\ Locals'
  BY <1>1, <1>2, <1>3 DEF Unget, StackTypes, LocalTypes, Locals, array, expansion
<1>5. Levels(unget_stack, Len(stack), Len(unget) + 1)
  <2>1. Levels(unget_stack, Len(stack), Len(unget)) /\ Len(unget) \in Nat
    BY <1>1 DEF IInv, StackTypes
  <2>2. \A i \in DOMAIN unget_stack : unget_stack[i] \in Nat
    BY <1>1 DEF StackTypes
  <2> QED
    BY <2>1, <2>2 DEF Levels
<1> QED
  BY <1>1, <1>3, <1>4, <1>5, TypesSplitNext DEF IInv, array

(* A new level begins at the end of the buffer. *)
LEMMA PushStep ==
  ASSUME IInv, NEW frame \in Frame, Push(frame), unget' = unget, pc # "exhausted"
  PROVE  /\ unget_stack' \in Seq(Nat) /\ unget_stack' # << >>
         /\ token' = << >> /\ pc' \in {"token", "exhausted"}
         /\ stack' \in Seq(Frame)
         /\ pc' # "exhausted" => Levels(unget_stack', Len(stack'), Len(unget'))
         /\ stack' = stack \/ stack' = Append(stack, frame)
<1> DEFINE l == Len(unget_stack)
           k == Len(unget)
<1>1. StackTypes /\ Levels(unget_stack, Len(stack), k) /\ k \in Nat /\ l \in Nat
  BY TypesSplit DEF IInv, StackTypes
<1>2. stack \in Seq(Frame) /\ unget_stack \in Seq(Nat)
  BY <1>1 DEF StackTypes
<1>3. unget_stack' = Append(unget_stack, k) /\ token' = << >>
        /\ (\/ stack' = Append(stack, frame) /\ pc' = "token"
            \/ stack' = stack /\ pc' = "exhausted")
  BY DEF Push
<1>4. /\ unget_stack' \in Seq(Nat) /\ Len(unget_stack') = l + 1 /\ unget_stack' # << >>
      /\ \A i \in 1 .. l : unget_stack'[i] = unget_stack[i]
      /\ unget_stack'[l + 1] = k
  BY <1>1, <1>2, <1>3, AppendFacts
<1>5. stack' \in Seq(Frame) /\ (pc' = "token" => Len(stack') = Len(stack) + 1)
  <2>1. Append(stack, frame) \in Seq(Frame) /\ Len(Append(stack, frame)) = Len(stack) + 1
    BY <1>2, AppendFacts
  <2> QED
    BY <1>2, <1>3, <2>1
<1>6. ASSUME pc' = "token" PROVE Levels(unget_stack', Len(stack'), Len(unget'))
  <2>1. DOMAIN unget_stack' = 1 .. l + 1 /\ DOMAIN unget_stack = 1 .. l
    BY <1>2, <1>4
  <2>2. \A i \in 1 .. l + 1 : i \in 1 .. l \/ i = l + 1
    BY <1>1
  <2>3. \A i \in 1 .. l : unget_stack[i] <= k
    BY <1>1, <2>1 DEF Levels
  <2>4. \A i \in 1 .. l + 1 : unget_stack'[i] <= k
    BY SMTT(30), <1>1, <1>4, <2>2, <2>3
  <2>5. ASSUME NEW i \in 1 .. l + 1, NEW j \in 1 .. l + 1, i <= j
        PROVE  unget_stack'[i] <= unget_stack'[j]
    <3>1. CASE j = l + 1
      BY <1>4, <2>4, <3>1
    <3>2. CASE j \in 1 .. l
      <4>1. i \in 1 .. l
        BY <1>1, <2>5, <3>2
      <4> QED
        BY <1>1, <1>4, <2>1, <2>5, <3>2, <4>1 DEF Levels
    <3> QED
      BY <2>2, <3>1, <3>2
  <2>6. Len(unget_stack') = Len(stack') + 1
    BY <1>1, <1>4, <1>5, <1>6 DEF Levels
  <2> QED
    BY <2>1, <2>4, <2>5, <2>6 DEF Levels
<1> QED
  BY <1>3, <1>4, <1>5, <1>6

(* A macro that is put on the others is placed as they are. *)
LEMMA PushPlaced ==
  ASSUME stack \in Seq(Frame), NEW frame \in Frame, NEW begins,
         stack' = stack \/ stack' = Append(stack, frame),
         FramesPlaced(stack, begins), Placed(frame, begins),
         frame.of = Params =>
           \A i \in 1 .. Len(stack) : stack[i].of = Params => stack[i].region < frame.region
  PROVE  FramesPlaced(stack', begins)
<1>1. CASE stack' = stack
  BY <1>1
<1>2. CASE stack' = Append(stack, frame)
  <2> DEFINE n == Len(stack)
  <2>1. /\ Len(stack') = n + 1 /\ n \in Nat
        /\ \A i \in 1 .. n : stack'[i] = stack[i]
        /\ stack'[n + 1] = frame
    BY <1>2, AppendFacts
  <2>2. \A i \in 1 .. n + 1 : i \in 1 .. n \/ i = n + 1
    BY <2>1
  <2>3. \A i \in 1 .. n + 1 : Placed(stack'[i], begins)
    BY <2>1, <2>2 DEF FramesPlaced
  <2>4. ASSUME NEW i \in 1 .. n + 1, NEW j \in 1 .. n + 1, i < j,
               stack'[i].of = Params, stack'[j].of = Params
        PROVE  stack'[i].region < stack'[j].region
    <3>1. i \in 1 .. n
      BY <2>1, <2>4
    <3>2. CASE j \in 1 .. n
      BY <2>1, <2>4, <3>1, <3>2 DEF FramesPlaced
    <3>3. CASE j = n + 1
      BY <2>1, <2>4, <3>1, <3>3
    <3> QED
      BY <2>2, <3>2, <3>3
  <2> QED
    BY <2>1, <2>3, <2>4 DEF FramesPlaced
<1> QED
  BY <1>1, <1>2

LEMMA ExpandStep == ASSUME IInv, Expand PROVE IInv'
<1>1. /\ StackTypes /\ LocalTypes /\ pc = "token"
      /\ UNCHANGED <<files, unget, array, expansion>>
  BY TypesSplit DEF IInv, Expand
<1>2. PICK m \in Called(FALSE) : Push([of |-> m, at |-> 1, region |-> 0])
  BY DEF Expand
<1> DEFINE frame == [of |-> m, at |-> 1, region |-> 0]
<1>3. m \in DOMAIN Macro /\ Macro[m].params = 0 /\ m # Params
  <2>1. m \in DOMAIN Macro /\ ~(Macro[m].params > 0)
    BY <1>2 DEF Called
  <2>2. Macro[m].params \in Nat /\ DOMAIN Macro \subseteq Char /\ Params \notin Char
    BY <2>1, CharStackAssumption DEF CharStackAssumption
  <2> QED
    BY <2>1, <2>2
<1>4. frame \in Frame /\ frame.of # Params
  BY <1>3 DEF Frame
<1>5. Placed(frame, def_param_stack_ptr)
  BY <1>3 DEF Placed
<1> HIDE DEF frame
<1>6. /\ unget_stack' \in Seq(Nat) /\ unget_stack' # << >>
      /\ token' = << >> /\ pc' \in {"token", "exhausted"}
      /\ stack' \in Seq(Frame)
      /\ pc' # "exhausted" => Levels(unget_stack', Len(stack'), Len(unget'))
      /\ stack' = stack \/ stack' = Append(stack, frame)
  BY <1>1, <1>2, <1>4, PushStep DEF frame
<1>7. FramesPlaced(stack', def_param_stack_ptr)
  BY <1>1, <1>4, <1>5, <1>6, PushPlaced DEF IInv, StackTypes
<1>8. StackTypes' /\ LocalTypes' /\ Locals'
  BY <1>1, <1>6 DEF StackTypes, LocalTypes, Locals, array, expansion
<1> QED
  BY <1>1, <1>6, <1>7, <1>8, TypesSplitNext DEF IInv, array

LEMMA StartCallStep == ASSUME IInv, StartCall PROVE IInv'
<1>1. /\ StackTypes /\ LocalTypes /\ pc = "token" /\ pc' = "open"
      /\ UNCHANGED <<files, unget, unget_stack, stack, array, args, parens, define, ptr,
                     tokenizer>>
      /\ macro' \in Callable
  BY TypesSplit DEF IInv, StartCall, Called, Callable
<1>2. StackTypes' /\ LocalTypes' /\ Locals'
  BY <1>1 DEF StackTypes, LocalTypes, Locals, array, tokenizer, Callable
<1> QED
  BY <1>1, <1>2, TypesSplitNext DEF IInv, array

LEMMA EnterStep == ASSUME IInv, Enter PROVE IInv'
<1>1. /\ StackTypes /\ LocalTypes /\ pc = "token"
      /\ UNCHANGED <<unget, unget_stack, stack, array, expansion, pc>> /\ token' = << >>
  BY TypesSplit DEF IInv, Enter
<1>2. PICK f \in File : files' = Append(files, f)
  BY DEF Enter
<1>3. f \in Seq(Char)
  BY CharStackAssumption DEF CharStackAssumption
<1>4. files' \in Seq(Seq(Char)) /\ files' # << >>
  <2>1. files \in Seq(Seq(Char))
    BY <1>1 DEF StackTypes
  <2> QED
    BY <2>1, <1>2, <1>3
<1>5. StackTypes' /\ LocalTypes' /\ Locals'
  BY <1>1, <1>4 DEF StackTypes, LocalTypes, Locals, array, expansion
<1> QED
  BY <1>1, <1>5, TypesSplitNext DEF IInv, array

LEMMA LeaveStep == ASSUME IInv, Leave PROVE IInv'
<1>1. /\ StackTypes /\ LocalTypes /\ pc \in {"token", "ended"}
      /\ UNCHANGED <<unget, unget_stack, stack, array>>
  BY TypesSplit DEF IInv, Leave
<1>2. CASE /\ Len(files) > 1
           /\ files' = Front(files) /\ token' = << >> /\ pc' = "token"
           /\ NoExpansion
  <2>1. files' \in Seq(Seq(Char)) /\ Len(files') = Len(files) - 1
    BY <1>1, <1>2, FrontFacts DEF StackTypes
  <2>2. files' # << >>
    BY <1>1, <1>2, <2>1 DEF StackTypes
  <2>3. StackTypes' /\ LocalTypes' /\ Locals'
    BY <1>1, <1>2, <2>1, <2>2 DEF StackTypes, LocalTypes, Locals, array, NoExpansion
  <2> QED
    BY <1>1, <1>2, <2>3, TypesSplitNext DEF IInv, array
<1>3. CASE pc' = "done" /\ UNCHANGED <<files, tokenizer, expansion>>
  <2>1. StackTypes' /\ LocalTypes' /\ Locals'
    BY <1>1, <1>3 DEF StackTypes, LocalTypes, Locals, array, expansion, tokenizer
  <2> QED
    BY <1>1, <1>3, <2>1, TypesSplitNext DEF IInv, array
<1> QED
  BY <1>2, <1>3 DEF Leave

(* An element of the text of a macro is a character, or one of as many     *)
(* arguments as the macro has parameters.                                  *)
LEMMA ElementType ==
  ASSUME IInv, pc = "copy", define <= Len(Macro[macro].text)
  PROVE  Element \in Seq(Char)
<1> DEFINE text == Macro[macro].text[define]
<1>1. macro \in DOMAIN Macro /\ Len(args) = Macro[macro].params /\ define >= 1
        /\ define \in Nat /\ args \in Seq(Seq(Char))
  BY DEF IInv, TypeOK, Locals, Callable
<1>2. /\ Macro[macro].text \in Seq(Char \cup {Param[p] : p \in DOMAIN Param})
      /\ \A i \in DOMAIN Macro[macro].text : \A p \in DOMAIN Param :
           Macro[macro].text[i] = Param[p] => p \in 1 .. Macro[macro].params
  BY <1>1, CharStackAssumption DEF CharStackAssumption
<1>3. define \in DOMAIN Macro[macro].text
  BY <1>1, <1>2
<1>4. text \in Char \cup {Param[p] : p \in DOMAIN Param}
  BY <1>2, <1>3
<1>5. CASE \E p \in DOMAIN Param : Param[p] = text
  <2> DEFINE q == CHOOSE p \in DOMAIN Param : Param[p] = text
  <2>1. q \in DOMAIN Param /\ Param[q] = text
    BY <1>5
  <2>2. q \in 1 .. Len(args)
    BY <1>1, <1>2, <1>3, <2>1
  <2>3. args[q] \in Seq(Char)
    BY <1>1, <2>2
  <2>4. Element = args[q]
    BY <1>5 DEF Element
  <2> QED
    BY <2>3, <2>4
<1>6. CASE ~ \E p \in DOMAIN Param : Param[p] = text
  <2>1. text \in Char
    BY <1>4, <1>6
  <2>2. Element = <<text>>
    BY <1>6 DEF Element
  <2> QED
    BY <2>1, <2>2
<1> QED
  BY <1>5, <1>6

(* What is written at the free space or above leaves the regions ended. *)
LEMMA WithTextStep ==
  ASSUME IInv, NEW at \in Nat, FreeSpace <= at, NEW text \in Seq(Char \cup {Nul})
  PROVE  /\ WithText(at, text) \in [Offset -> Char \cup {Nul}]
         /\ RegionsEnded(def_param_stack_ptr, WithText(at, text))
         /\ Len(text) = 1 /\ at < ParamStackLen => WithText(at, text)[at] = text[1]
<1> DEFINE m == Len(def_param_stack_ptr)
           data == WithText(at, text)
<1>1. def_param_stack_data \in [Offset -> Char \cup {Nul}] /\ def_param_stack_ptr \in Seq(Nat)
  BY Zenon DEF IInv, TypeOK
<1>2. /\ def_param_stack_data \in [Offset -> Char \cup {Nul}]
      /\ m \in Nat \ {0} /\ FreeSpace = def_param_stack_ptr[m] /\ FreeSpace \in Nat
      /\ \A i \in 1 .. m : def_param_stack_ptr[i] \in Nat
  <2>0. TypeOK
    BY DEF IInv
  <2>1. m \in Nat \ {0} /\ FreeSpace = def_param_stack_ptr[m] /\ FreeSpace \in Nat
    BY <2>0, FreeSpaceType
  <2>2. \A i \in 1 .. m : def_param_stack_ptr[i] \in Nat
    BY <1>1
  <2> QED
    BY <1>1, <2>1, <2>2
<1>3. data \in [Offset -> Char \cup {Nul}]
  <2>1. ASSUME NEW o \in Offset, at <= o, o < at + Len(text)
        PROVE  text[o - at + 1] \in Char \cup {Nul}
    <3>1. Len(text) \in Nat /\ o \in Nat
      BY DEF Offset
    <3>2. o - at + 1 \in 1 .. Len(text)
      BY <2>1, <3>1
    <3> QED
      BY <3>2
  <2> QED
    BY <1>2, <2>1 DEF WithText
<1>4. ASSUME NEW r \in 1 .. m - 1 PROVE data[def_param_stack_ptr[r + 1] - 1] = Nul
  <2> DEFINE o == def_param_stack_ptr[r + 1] - 1
  <2>1. r + 1 \in 1 .. m /\ r \in 1 .. m /\ m \in 1 .. m
    BY <1>2, <1>4
  <2>2. /\ def_param_stack_ptr[r] < def_param_stack_ptr[r + 1]
        /\ def_param_stack_ptr[r + 1] <= ParamStackLen
        /\ r + 1 = m \/ def_param_stack_ptr[r + 1] < def_param_stack_ptr[m]
    <3>1. r < r + 1 /\ (r + 1 = m \/ r + 1 < m)
      BY <1>2, <1>4
    <3> QED
      BY <2>1, <3>1 DEF IInv, RegionsInOrder
  <2>3. def_param_stack_ptr[r] \in Nat /\ def_param_stack_ptr[r + 1] \in Nat
    BY <1>2, <2>1
  <2>4. o \in Nat /\ o < def_param_stack_ptr[m] /\ o <= ParamStackLen - 1
    BY SMTT(30), <1>2, <2>2, <2>3, CharStackAssumption DEF CharStackAssumption
  <2>5. o \in Offset /\ ~(at <= o)
    BY <1>2, <2>4, CharStackAssumption DEF Offset, CharStackAssumption
  <2>6. data[o] = def_param_stack_data[o]
    BY <2>5 DEF WithText
  <2> QED
    BY <1>4, <2>6 DEF IInv, RegionsEnded
<1>5. ASSUME Len(text) = 1, at < ParamStackLen PROVE data[at] = text[1]
  <2>1. at \in Offset /\ at < at + Len(text) /\ at - at + 1 = 1
    BY <1>5, CharStackAssumption DEF Offset, CharStackAssumption
  <2> QED
    BY <2>1 DEF WithText
<1> QED
  BY <1>3, <1>4, <1>5 DEF RegionsEnded

LEMMA CopyStep == ASSUME IInv, Copy PROVE IInv'
<1>1. /\ StackTypes /\ LocalTypes /\ Locals /\ pc = "copy"
      /\ UNCHANGED <<files, unget, unget_stack, stack, def_param_stack_ptr, macro, args, parens,
                     token>>
      /\ FreeSpace \in Nat /\ FreeSpace <= ptr /\ FreeSpace' = FreeSpace
  BY TypesSplit, FreeSpaceType DEF IInv, Copy, tokenizer, Locals, FreeSpace
<1>2. Element \in Seq(Char) /\ Len(Element) \in Nat
  BY ElementType DEF Copy
<1>3. Element \in Seq(Char \cup {Nul})
  BY <1>2
<1>4. /\ def_param_stack_data' \in [Offset -> Char \cup {Nul}]
      /\ RegionsEnded(def_param_stack_ptr, def_param_stack_data')
  BY <1>1, <1>3, WithTextStep DEF Copy, LocalTypes
<1>5. /\ ptr' \in Nat /\ define' \in Nat /\ define' >= 1 /\ FreeSpace <= ptr'
      /\ pc' \in {"copy", "exited"} /\ (pc' = "copy" => ptr' < ParamStackLen)
  BY <1>1, <1>2, CharStackAssumption DEF Copy, LocalTypes, Locals, CharStackAssumption
<1>6. StackTypes' /\ LocalTypes' /\ Locals'
  BY <1>1, <1>4, <1>5 DEF StackTypes, LocalTypes, Locals
<1> QED
  BY <1>1, <1>4, <1>6, TypesSplitNext DEF IInv

LEMMA EndCopyStep == ASSUME IInv, EndCopy PROVE IInv'
<1> DEFINE m == Len(def_param_stack_ptr)
           frame == [of |-> Params, at |-> FreeSpace, region |-> m]
           begins == Append(def_param_stack_ptr, ptr + 1)
<1>1. /\ StackTypes /\ LocalTypes /\ Locals /\ pc = "copy"
      /\ UNCHANGED <<files, unget>> /\ NoExpansion
      /\ def_param_stack_ptr' = begins /\ Push(frame)
      /\ def_param_stack_data' = WithText(ptr, <<Nul>>)
  BY TypesSplit DEF IInv, EndCopy
<1>2. /\ m \in Nat \ {0} /\ FreeSpace = def_param_stack_ptr[m] /\ FreeSpace \in Nat
      /\ FreeSpace <= ptr /\ ptr \in Nat
  BY <1>1, FreeSpaceType DEF IInv, Locals, LocalTypes
<1>3. ptr < ParamStackLen
  <2>1. macro \in DOMAIN Macro /\ Macro[macro].params > 0
    BY <1>1 DEF Locals, Callable
  <2>2. Macro[macro].text # << >>
          /\ Macro[macro].text \in Seq(Char \cup {Param[p] : p \in DOMAIN Param})
    BY <2>1, CharStackAssumption DEF CharStackAssumption
  <2>3. Len(Macro[macro].text) \in Nat \ {0}
    BY <2>2
  <2>4. define > 1
    BY <1>1, <2>3 DEF EndCopy, LocalTypes
  <2> QED
    BY <1>1, <2>4 DEF Locals
<1>4. /\ begins \in Seq(Nat) /\ Len(begins) = m + 1 /\ begins # << >>
      /\ \A i \in 1 .. m : begins[i] = def_param_stack_ptr[i]
      /\ begins[m + 1] = ptr + 1
  <2>1. def_param_stack_ptr \in Seq(Nat) /\ ptr + 1 \in Nat
    BY <1>1, <1>2 DEF StackTypes
  <2> QED
    BY <2>1, AppendFacts
<1> HIDE DEF begins
<1>5. \A i \in 1 .. m : def_param_stack_ptr[i] \in Nat
  <2>1. def_param_stack_ptr \in Seq(Nat)
    BY <1>1 DEF StackTypes
  <2> QED
    BY <2>1
<1>6. \A i \in 1 .. m + 1 : i \in 1 .. m \/ i = m + 1
  BY <1>2
<1>7. \A i \in 1 .. m : begins[i] <= FreeSpace
  <2> TAKE i \in 1 .. m
  <2>1. i = m \/ (i < m /\ m \in 1 .. m)
    BY <1>2
  <2>2. def_param_stack_ptr[i] <= def_param_stack_ptr[m]
    BY <1>2, <1>5, <2>1 DEF IInv, RegionsInOrder
  <2> QED
    BY <1>2, <1>4, <2>2
<1>8. RegionsInOrder(begins)
  <2>1. \A i \in 1 .. m + 1 : begins[i] <= ParamStackLen
    BY <1>2, <1>3, <1>4, <1>6, CharStackAssumption
      DEF IInv, RegionsInOrder, CharStackAssumption
  <2>2. ASSUME NEW i \in 1 .. m + 1, NEW j \in 1 .. m + 1, i < j PROVE begins[i] < begins[j]
    <3>1. i \in 1 .. m /\ begins[i] \in Nat
      BY <1>2, <1>4, <1>5, <2>2
    <3>2. CASE j = m + 1
      BY <1>2, <1>4, <1>7, <3>1, <3>2
    <3>3. CASE j \in 1 .. m
      BY <1>4, <2>2, <3>1, <3>3 DEF IInv, RegionsInOrder
    <3> QED
      BY <1>6, <3>2, <3>3
  <2> QED
    BY <1>4, <2>1, <2>2 DEF RegionsInOrder
<1>9. /\ def_param_stack_data' \in [Offset -> Char \cup {Nul}]
      /\ RegionsEnded(def_param_stack_ptr, def_param_stack_data')
      /\ def_param_stack_data'[ptr] = Nul
  <2>1. <<Nul>> \in Seq(Char \cup {Nul}) /\ Len(<<Nul>>) = 1 /\ <<Nul>>[1] = Nul
    OBVIOUS
  <2> QED
    BY <1>1, <1>2, <1>3, <2>1, WithTextStep
<1>10. RegionsEnded(begins, def_param_stack_data')
  <2>1. ASSUME NEW r \in 1 .. m PROVE def_param_stack_data'[begins[r + 1] - 1] = Nul
    <3>1. CASE r = m
      <4>1. begins[r + 1] - 1 = ptr
        BY <1>2, <1>4, <3>1
      <4> QED
        BY <1>9, <4>1
    <3>2. CASE r # m
      <4>1. r \in 1 .. m - 1 /\ r + 1 \in 1 .. m
        BY <1>2, <3>2
      <4> QED
        BY <1>4, <1>9, <4>1 DEF RegionsEnded
    <3> QED
      BY <3>1, <3>2
  <2>2. Len(begins) - 1 = m
    BY <1>2, <1>4
  <2> QED
    BY <2>1, <2>2 DEF RegionsEnded
<1>11. frame \in Frame
  BY <1>2 DEF Frame
<1>12. Placed(frame, begins)
  <2>1. m \in 1 .. Len(begins) - 1 /\ begins[m] = FreeSpace /\ FreeSpace < begins[m + 1]
    BY <1>2, <1>4
  <2>2. frame.of = Params /\ frame.region = m /\ frame.at = FreeSpace
    OBVIOUS
  <2> HIDE DEF frame, m
  <2>3. frame.region \in 1 .. Len(begins) - 1 /\ begins[frame.region] <= frame.at
          /\ frame.at < begins[frame.region + 1]
    BY <1>2, <2>1, <2>2
  <2> QED
    BY <2>2, <2>3 DEF Placed
<1>13. \A i \in 1 .. Len(stack) :
         Placed(stack[i], begins) /\ (stack[i].of = Params => stack[i].region < m)
  <2> TAKE i \in 1 .. Len(stack)
  <2>1. Placed(stack[i], def_param_stack_ptr)
    BY DEF IInv, FramesPlaced
  <2>2. CASE stack[i].of = Params
    <3> DEFINE r == stack[i].region
    <3>a. r \in 1 .. m - 1
      BY <2>1, <2>2 DEF Placed
    <3>b. Len(begins) - 1 = m
      BY <1>2, <1>4
    <3>1. r \in 1 .. m - 1 /\ r \in 1 .. m /\ r + 1 \in 1 .. m /\ r < m
            /\ r \in 1 .. Len(begins) - 1
      BY <1>2, <3>a, <3>b
    <3>2. begins[r] = def_param_stack_ptr[r] /\ begins[r + 1] = def_param_stack_ptr[r + 1]
      BY <1>4, <3>1
    <3>3. begins[r] <= stack[i].at /\ stack[i].at < begins[r + 1]
      BY <2>1, <2>2, <3>2 DEF Placed
    <3> QED
      BY <2>2, <3>1, <3>3 DEF Placed
  <2>3. CASE stack[i].of # Params
    BY <2>1, <2>3 DEF Placed
  <2> QED
    BY <2>2, <2>3
<1>14. FramesPlaced(stack, begins)
  BY <1>13 DEF IInv, FramesPlaced
<1>15. /\ unget_stack' \in Seq(Nat) /\ unget_stack' # << >>
       /\ token' = << >> /\ pc' \in {"token", "exhausted"}
       /\ stack' \in Seq(Frame)
       /\ pc' # "exhausted" => Levels(unget_stack', Len(stack'), Len(unget'))
       /\ stack' = stack \/ stack' = Append(stack, frame)
  <2> HIDE DEF frame
  <2> QED
    BY <1>1, <1>11, PushStep
<1>16. FramesPlaced(stack', begins)
  <2>1. frame.region = m
    OBVIOUS
  <2> HIDE DEF frame
  <2>2. stack \in Seq(Frame)
    BY <1>1 DEF StackTypes
  <2> QED
    BY <1>11, <1>12, <1>13, <1>14, <1>15, <2>1, <2>2, PushPlaced
<1>17. StackTypes' /\ LocalTypes' /\ Locals'
  <2>1. args' = << >> /\ parens' = 0 /\ define' = 0 /\ ptr' = 0
    BY <1>1 DEF NoExpansion
  <2>2. files' = files /\ unget' = unget
    BY <1>1
  <2>3. StackTypes'
    BY <1>1, <1>4, <1>9, <1>15, <2>2 DEF StackTypes
  <2>4. LocalTypes' /\ Locals'
    BY <1>15, <2>1 DEF LocalTypes, Locals
  <2> QED
    BY <2>3, <2>4
<1> QED
  BY <1>1, <1>8, <1>10, <1>15, <1>16, <1>17, TypesSplitNext DEF IInv

----------------------------------------------------------------------------

LEMMA InitInv == Init => IInv
<1> SUFFICES ASSUME Init PROVE IInv
  OBVIOUS
<1>1. PICK s \in Source : files = <<s>>
  BY DEF Init
<1>2. s \in Seq(Char) /\ ParamStackLen \in Nat \ {0}
  BY CharStackAssumption DEF CharStackAssumption
<1>3. files \in Seq(Seq(Char)) /\ files # << >>
  BY <1>1, <1>2
<1>4. TypeOK
  BY <1>3 DEF Init, TypeOK
<1>5. Locals /\ Levels(unget_stack, Len(stack), Len(unget))
  BY DEF Init, Locals, Levels
<1>6. RegionsInOrder(def_param_stack_ptr) /\ FramesPlaced(stack, def_param_stack_ptr)
        /\ RegionsEnded(def_param_stack_ptr, def_param_stack_data)
  BY <1>2 DEF Init, RegionsInOrder, RegionsEnded, FramesPlaced
<1> QED
  BY <1>4, <1>5, <1>6 DEF IInv

LEMMA NextInv == IInv /\ [Next]_vars => IInv'
<1> SUFFICES ASSUME IInv, [Next]_vars PROVE IInv'
  OBVIOUS
<1>1. ASSUME NEW new \in BOOLEAN, Read(new) PROVE IInv'
  BY <1>1, ReadStep
<1>2. CASE UNCHANGED vars
  <2>1. StackTypes /\ LocalTypes
    BY TypesSplit DEF IInv
  <2>2. UNCHANGED <<files, unget, unget_stack, stack, def_param_stack_data, def_param_stack_ptr,
                    macro, args, parens, define, ptr, token, pc>>
    BY <1>2 DEF vars, array, expansion, tokenizer
  <2>3. StackTypes' /\ LocalTypes'
    BY <2>1, <2>2 DEF StackTypes, LocalTypes
  <2>4. FreeSpace' = FreeSpace
    BY <2>2 DEF FreeSpace
  <2>5. Locals'
    BY <2>2, <2>4 DEF IInv, Locals
  <2> QED
    BY <2>2, <2>3, <2>5, TypesSplitNext DEF IInv
<1> QED
  BY <1>1, <1>2, GetUngotStep, GetFrameStep, PopFrameStep, GetFileStep, UngetStep,
     ExpandStep, StartCallStep, CopyStep, EndCopyStep, EnterStep, LeaveStep DEF Next

(* Every variable keeps its type; a running expansion has as many          *)
(* arguments as its macro has parameters (Macros.cpp:585).                 *)
THEOREM TypeCorrect == Spec => []TypeOK
<1>1. IInv => TypeOK
  BY DEF IInv
<1> QED
  BY InitInv, NextInv, <1>1, PTL DEF Spec

(* The levels of the buffer of characters given back (tokens.cpp:193) and  *)
(* the stack of macros (Macros.cpp:281) are never out of step, for any     *)
(* table of macros.                                                        *)
THEOREM LevelsKept == Spec => []LevelsInStep
<1>1. IInv => LevelsInStep
  BY DEF IInv, Levels, LevelsInStep
<1> QED
  BY InitInv, NextInv, <1>1, PTL DEF Spec

(* A macro being read from the array of parameters (Macros.cpp:281 and     *)
(* 585) has its own region, and no call that is expanded meanwhile writes  *)
(* into it, for any length of the array.                                   *)
THEOREM RegionsKept == Spec => []RegionsLive
<1>1. ASSUME IInv PROVE RegionsLive
  <2> DEFINE m == Len(def_param_stack_ptr)
  <2>1. DOMAIN stack = 1 .. Len(stack) /\ m \in Nat
    BY <1>1 DEF IInv, TypeOK
  <2>2. ASSUME NEW i \in DOMAIN stack, stack[i].of = Params
        PROVE  /\ stack[i].region \in 1 .. m - 1
               /\ def_param_stack_ptr[stack[i].region] <= stack[i].at
               /\ stack[i].at < def_param_stack_ptr[stack[i].region + 1]
               /\ def_param_stack_ptr[stack[i].region + 1] <= ParamStackLen
               /\ def_param_stack_data[def_param_stack_ptr[stack[i].region + 1] - 1] = Nul
    <3>1. Placed(stack[i], def_param_stack_ptr)
      BY <1>1, <2>1 DEF IInv, FramesPlaced
    <3>2. stack[i].region \in 1 .. m - 1 /\ stack[i].region + 1 \in 1 .. m
      BY <2>1, <2>2, <3>1 DEF Placed
    <3> QED
      BY <1>1, <2>2, <3>1, <3>2 DEF IInv, Placed, RegionsInOrder, RegionsEnded
  <2>3. \A i, j \in DOMAIN stack :
          i < j /\ stack[i].of = Params /\ stack[j].of = Params
            => stack[i].region < stack[j].region
    BY <1>1, <2>1 DEF IInv, FramesPlaced
  <2> QED
    BY <2>2, <2>3 DEF RegionsLive
<1> QED
  BY InitInv, NextInv, <1>1, PTL DEF Spec
=============================================================================
