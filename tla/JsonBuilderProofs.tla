--------------------------- MODULE JsonBuilderProofs ---------------------------
(***************************************************************************)
(* For values of any width and depth: the builder's open containers are    *)
(* the levels of the VM's walk, and what it makes of the value is what the *)
(* value should be shown as.                                               *)
(***************************************************************************)
EXTENDS JsonBuilder, Integers, SequenceTheorems, WellFoundedInduction, TLAPS

-----------------------------------------------------------------------------
(* The invariant.                                                          *)

\* A container waits for the parts left in its level, and for the one around the
\* next level.
Waits(i) ==
  /\ stack[i].remaining \in Nat \ {0}
  /\ i = Len(stack) => stack[i].remaining = Len(unvisited[i + 1])
  /\ i < Len(stack) => stack[i].remaining = Len(unvisited[i + 1]) + 1

Matched ==
  IF unvisited = <<>> THEN stack = <<>>
  ELSE /\ root = Nothing
       /\ Len(unvisited) = Len(stack) + 1
       /\ Len(unvisited[1]) = IF stack = <<>> THEN 1 ELSE 0
       /\ \A i \in 1 .. Len(stack) : Waits(i)

JsonInv ==
  /\ unvisited \in Seq(Seq(Values))
  /\ stack \in Seq(ToSet(stack))
  /\ Matched

-----------------------------------------------------------------------------
(* The last one of a sequence.                                             *)

LEMMA Least ==
  ASSUME NEW T \in SUBSET Nat, T # {}
  PROVE  \E x \in T : \A y \in T : x <= y
<1> DEFINE R == {ss \in Nat \X Nat : ss[1] < ss[2]}
<1>1. IsWellFoundedOn(R, Nat)
  BY NatLessThanWellFounded DEF OpToRel
<1> HIDE DEF R
<1>2. PICK x \in T : \A y \in T : ~ (<<y, x>> \in R)
  BY <1>1, WFMin
<1>3. ASSUME NEW y \in T PROVE x <= y
  <2>1. x \in Nat /\ y \in Nat /\ ~ (<<y, x>> \in R)
    BY <1>2
  <2>2. <<y, x>> \in Nat \X Nat /\ <<y, x>>[1] = y /\ <<y, x>>[2] = x
    BY <2>1
  <2>3. ~ (y < x)
    BY <2>1, <2>2 DEF R
  <2> QED
    BY <2>1, <2>3
<1> QED
  BY <1>3

LEMMA MaxIs ==
  ASSUME NEW n \in Nat, NEW T \in SUBSET (1 .. n), T # {}
  PROVE  Max(T) \in T /\ \A y \in T : y <= Max(T)
<1> DEFINE U == {m \in Nat : n - m \in T}
<1>1. PICK k \in T : TRUE
  OBVIOUS
<1>2. k \in 1 .. n /\ n - k \in Nat /\ n - (n - k) = k
  OBVIOUS
<1>3. n - k \in U
  BY <1>1, <1>2
<1>4. U \in SUBSET Nat /\ U # {}
  BY <1>3
<1> HIDE DEF U
<1>5. PICK u \in U : \A v \in U : u <= v
  BY <1>4, Least
<1>6. u \in Nat /\ n - u \in T
  BY <1>5 DEF U
<1>7. ASSUME NEW y \in T PROVE n - u >= y
  <2>1. y \in 1 .. n /\ n - y \in Nat /\ n - (n - y) = y
    OBVIOUS
  <2>2. n - y \in U
    BY <2>1 DEF U
  <2>3. u <= n - y
    BY <1>5, <2>2
  <2> QED
    BY <1>6, <2>1, <2>3
<1>8. Max(T) \in T /\ \A y \in T : Max(T) >= y
  BY <1>6, <1>7 DEF Max
<1> QED
  BY <1>8

\* The innermost level of a walk in which a part is left.
LevelOf(walk) == SelectLastInSeq(walk, LAMBDA parts : parts # <<>>)

LEMMA LevelIs ==
  ASSUME NEW walk \in Seq(Seq(Values))
  PROVE  /\ LevelOf(walk) \in 0 .. Len(walk)
         /\ LevelOf(walk) > 0 => walk[LevelOf(walk)] # <<>>
         /\ \A j \in 1 .. Len(walk) : j > LevelOf(walk) => walk[j] = <<>>
<1> DEFINE T == {i \in 1 .. Len(walk) : walk[i] # <<>>}
<1>1. Len(walk) \in Nat
  BY LenProperties
<1>2. LevelOf(walk) = IF T # {} THEN Max(T) ELSE 0
  BY DEF LevelOf, SelectLastInSeq
<1>3. CASE T = {}
  BY <1>1, <1>2, <1>3
<1>4. CASE T # {}
  <2>1. LevelOf(walk) \in T /\ \A y \in T : y <= LevelOf(walk)
    BY <1>1, <1>2, <1>4, MaxIs
  <2> QED
    BY <1>1, <2>1
<1> QED
  BY <1>3, <1>4

LEMMA IncompleteIs ==
  ASSUME Len(stack) \in Nat
  PROVE  /\ Incomplete \in 0 .. Len(stack)
         /\ Incomplete > 0 => stack[Incomplete].remaining > 1
         /\ \A i \in 1 .. Len(stack) : i > Incomplete => ~ stack[i].remaining > 1
<1> DEFINE T == {i \in 1 .. Len(stack) : stack[i].remaining > 1}
<1>1. Incomplete = IF T # {} THEN Max(T) ELSE 0
  BY DEF Incomplete, SelectLastInSeq
<1>2. CASE T = {}
  BY <1>1, <1>2
<1>3. CASE T # {}
  <2>1. Incomplete \in T /\ \A y \in T : y <= Incomplete
    BY <1>1, <1>3, MaxIs
  <2> QED
    BY <2>1
<1> QED
  BY <1>2, <1>3

LEMMA TypedByItsItems ==
  ASSUME NEW S, NEW s \in Seq(S)
  PROVE  s \in Seq(ToSet(s)) /\ Len(s) \in Nat /\ DOMAIN s = 1 .. Len(s)
<1>1. Len(s) \in Nat /\ DOMAIN s = 1 .. Len(s) /\ s = [i \in 1 .. Len(s) |-> s[i]]
  BY LenProperties
<1>2. \A i \in 1 .. Len(s) : s[i] \in ToSet(s)
  BY <1>1 DEF ToSet
<1>3. s \in [1 .. Len(s) -> ToSet(s)]
  BY <1>1, <1>2
<1> QED
  BY <1>1, <1>3, SeqDef

-----------------------------------------------------------------------------
(* Adding an item.                                                         *)

\* What the invariant says where the VM is in a walk.
LEMMA InWalk ==
  ASSUME JsonInv, unvisited # <<>>
  PROVE  /\ root = Nothing /\ Len(stack) \in Nat /\ DOMAIN stack = 1 .. Len(stack)
         /\ Len(unvisited) = Len(stack) + 1
         /\ \A i \in 1 .. Len(unvisited) : unvisited[i] \in Seq(Values) /\ Len(unvisited[i]) \in Nat
         /\ Len(unvisited[1]) = IF Len(stack) = 0 THEN 1 ELSE 0
         /\ \A i \in 1 .. Len(stack) : Waits(i)
         /\ unvisited[Len(unvisited)] # <<>> /\ Part \in Values
         /\ Tail(unvisited[Len(unvisited)]) \in Seq(Values)
         /\ Len(Tail(unvisited[Len(unvisited)])) = Len(unvisited[Len(unvisited)]) - 1
<1>1. /\ root = Nothing /\ Len(unvisited) = Len(stack) + 1
      /\ Len(unvisited[1]) = IF stack = <<>> THEN 1 ELSE 0
      /\ \A i \in 1 .. Len(stack) : Waits(i)
  BY DEF JsonInv, Matched
<1>2. Len(stack) \in Nat /\ DOMAIN stack = 1 .. Len(stack) /\ (stack = <<>> <=> Len(stack) = 0)
  BY LenProperties, EmptySeq DEF JsonInv
<1>3. \A i \in 1 .. Len(unvisited) : unvisited[i] \in Seq(Values) /\ Len(unvisited[i]) \in Nat
  <2>1. \A i \in 1 .. Len(unvisited) : unvisited[i] \in Seq(Values)
    BY ElementOfSeq DEF JsonInv
  <2> QED
    BY <2>1, LenProperties
<1>4. PICK n \in Nat : n = Len(unvisited) /\ n \in 1 .. n /\ n = Len(stack) + 1
  BY <1>1, <1>2
<1>5. unvisited[n] \in Seq(Values) /\ Len(unvisited[n]) \in Nat
  BY <1>3, <1>4
<1>6. Len(unvisited[n]) > 0
  <2>1. CASE Len(stack) = 0
    BY <1>1, <1>2, <1>4, <2>1
  <2>2. CASE Len(stack) # 0
    <3>1. Len(stack) \in 1 .. Len(stack)
      BY <1>2, <2>2
    <3>2. Len(unvisited[n]) \in Nat \ {0}
      BY <1>1, <1>4, <3>1 DEF Waits
    <3> QED
      BY <3>2
  <2> QED
    BY <2>1, <2>2
<1>7. unvisited[n] # <<>>
  BY <1>6, EmptySeq
<1>8. /\ Head(unvisited[n]) \in Values /\ Tail(unvisited[n]) \in Seq(Values)
      /\ Len(Tail(unvisited[n])) = Len(unvisited[n]) - 1
  BY <1>5, <1>7, HeadTailProperties
<1>9. Part = Head(unvisited[n])
  BY <1>4 DEF Part, Last
<1> QED
  BY <1>1, <1>2, <1>3, <1>4, <1>7, <1>8, <1>9

\* The part that was visited, at level `n`, is gone from the walk, and nothing is
\* left behind it.
PassedAt(walk, n) ==
  /\ walk \in Seq(Seq(Values)) /\ Len(walk) >= n
  /\ \A i \in 1 .. n : i < n => walk[i] = unvisited[i]
  /\ walk[n] = Tail(unvisited[n])
  /\ \A i \in 1 .. Len(walk) : i > n => walk[i] = <<>>

\* The containers that an item completes are the levels of the walk that are done.
LEMMA LevelsDone ==
  ASSUME JsonInv, unvisited # <<>>, NEW walk, PassedAt(walk, Len(unvisited))
  PROVE  LevelOf(walk) = IF Incomplete = 0 THEN 0 ELSE Incomplete + 1
<1> DEFINE keep == Incomplete
           level == LevelOf(walk)
<1>1. PICK m \in Nat : m = Len(stack) /\ Len(unvisited) = m + 1
  BY InWalk
<1>2. /\ walk \in Seq(Seq(Values)) /\ Len(walk) \in Nat /\ Len(walk) >= m + 1
      /\ \A i \in 1 .. m : walk[i] = unvisited[i]
      /\ Len(walk[m + 1]) = Len(unvisited[m + 1]) - 1
      /\ \A i \in 1 .. Len(walk) : i > m + 1 => walk[i] = <<>>
  <2>1. \A i \in 1 .. m : i \in 1 .. m + 1 /\ i < m + 1
    OBVIOUS
  <2>2. Len(walk[m + 1]) = Len(unvisited[m + 1]) - 1
    BY <1>1, InWalk DEF PassedAt
  <2> QED
    BY <1>1, <2>1, <2>2, LenProperties DEF PassedAt
<1>3. /\ level \in 0 .. Len(walk)
      /\ level > 0 => walk[level] # <<>>
      /\ \A j \in 1 .. Len(walk) : j > level => walk[j] = <<>>
  BY <1>2, LevelIs
<1>4. /\ keep \in 0 .. m
      /\ keep > 0 => stack[keep].remaining > 1
      /\ \A i \in 1 .. m : i > keep => ~ stack[i].remaining > 1
  BY <1>1, IncompleteIs
<1>5. \A j \in 1 .. Len(walk) : walk[j] \in Seq(Values) /\ Len(walk[j]) \in Nat
                                /\ (walk[j] = <<>> <=> Len(walk[j]) = 0)
  <2>1. \A j \in 1 .. Len(walk) : walk[j] \in Seq(Values)
    BY <1>2, ElementOfSeq
  <2> QED
    BY <2>1, LenProperties, EmptySeq
<1>6. \A i \in 1 .. m + 1 : unvisited[i] \in Seq(Values) /\ Len(unvisited[i]) \in Nat
  BY <1>1, InWalk
<1>7. ASSUME NEW i \in 1 .. m
      PROVE  stack[i].remaining > 1 <=> walk[i + 1] # <<>>
  <2>1. /\ stack[i].remaining \in Nat \ {0}
        /\ i = m => stack[i].remaining = Len(unvisited[i + 1])
        /\ i < m => stack[i].remaining = Len(unvisited[i + 1]) + 1
    BY <1>1, InWalk DEF Waits
  <2>2. i + 1 \in 1 .. m + 1 /\ i + 1 \in 1 .. Len(walk)
    BY <1>2
  <2>3. Len(unvisited[i + 1]) \in Nat /\ Len(walk[i + 1]) \in Nat
    BY <1>5, <1>6, <2>2
  <2>4. CASE i < m
    <3>1. walk[i + 1] = unvisited[i + 1]
      BY <1>2, <2>4
    <3>2. stack[i].remaining = Len(walk[i + 1]) + 1
      BY <2>1, <2>4, <3>1
    <3> QED
      BY <1>5, <2>2, <2>3, <3>2
  <2>5. CASE i = m
    <3>1. stack[i].remaining = Len(walk[i + 1]) + 1
      BY <1>2, <2>1, <2>3, <2>5
    <3> QED
      BY <1>5, <2>2, <2>3, <3>1
  <2> QED
    BY <2>4, <2>5
<1>8. walk[1] = <<>>
  <2>1. 1 \in 1 .. Len(walk) /\ 1 \in 1 .. m + 1
    BY <1>2
  <2>2. Len(unvisited[1]) = IF m = 0 THEN 1 ELSE 0
    BY <1>1, InWalk
  <2>3. Len(walk[1]) = 0
    <3>1. CASE m = 0
      <4>1. m + 1 = 1
        BY <3>1
      <4>2. Len(walk[m + 1]) = Len(unvisited[m + 1]) - 1
        BY <1>2
      <4>3. Len(walk[1]) = Len(unvisited[1]) - 1
        BY <4>1, <4>2
      <4> QED
        BY <2>2, <3>1, <4>3
    <3>2. CASE m # 0
      BY <1>2, <2>2, <3>2
    <3> QED
      BY <3>1, <3>2
  <2> QED
    BY <1>5, <2>1, <2>3
<1> HIDE DEF keep, level
<1>9. \A j \in 1 .. Len(walk) : walk[j] # <<>> => j - 1 \in 1 .. m /\ stack[j - 1].remaining > 1
  <2> SUFFICES ASSUME NEW j \in 1 .. Len(walk), walk[j] # <<>>
               PROVE  j - 1 \in 1 .. m /\ stack[j - 1].remaining > 1
    OBVIOUS
  <2>1. j # 1 /\ ~ j > m + 1
    BY <1>2, <1>8
  <2>2. j - 1 \in 1 .. m /\ (j - 1) + 1 = j
    BY <1>2, <2>1
  <2> QED
    BY <1>7, <2>2
<1>10. CASE keep = 0
  <2>1. ~ level > 0
    <3> SUFFICES ASSUME level > 0 PROVE FALSE
      OBVIOUS
    <3>1. level \in 1 .. Len(walk) /\ walk[level] # <<>>
      BY <1>2, <1>3
    <3>2. level - 1 \in 1 .. m /\ stack[level - 1].remaining > 1
      BY <1>9, <3>1
    <3>3. level - 1 > keep
      BY <1>10, <3>2
    <3> QED
      BY <1>4, <3>2, <3>3
  <2>2. level = 0
    BY <1>2, <1>3, <2>1
  <2> QED
    BY <1>10, <2>2 DEF keep, level
<1>11. CASE keep # 0
  <2>1. keep \in 1 .. m /\ keep + 1 \in 1 .. Len(walk) /\ stack[keep].remaining > 1
    BY <1>2, <1>4, <1>11
  <2>2. walk[keep + 1] # <<>>
    BY <1>7, <2>1
  <2>3. ~ keep + 1 > level
    BY <1>3, <2>1, <2>2
  <2>4. level \in 1 .. Len(walk) /\ walk[level] # <<>>
    BY <1>2, <1>3, <2>1, <2>3
  <2>5. level - 1 \in 1 .. m /\ stack[level - 1].remaining > 1
    BY <1>9, <2>4
  <2>6. ~ level - 1 > keep
    BY <1>4, <2>5
  <2>7. level = keep + 1
    BY <1>2, <1>3, <2>1, <2>3, <2>6
  <2> QED
    BY <1>11, <2>7 DEF keep, level
<1> QED
  BY <1>10, <1>11

\* What is left open, and what of the walk: the innermost container that waits for
\* more gets the item with what it completes.
LEMMA AddShape ==
  ASSUME JsonInv, unvisited # <<>>, NEW walk, PassedAt(walk, Len(unvisited)), NEW item,
         Add(item), unvisited' = Resumed(walk)
  PROVE  /\ Incomplete = 0 => unvisited' = <<>> /\ stack' = <<>> /\ root' = Folded(item)
         /\ Incomplete # 0 =>
              /\ Incomplete \in 1 .. Len(stack) /\ stack[Incomplete].remaining > 1
              /\ unvisited' \in Seq(Seq(Values)) /\ unvisited' # <<>>
              /\ Len(unvisited') = Incomplete + 1
              /\ \A i \in 1 .. Incomplete + 1 : unvisited'[i] = walk[i]
              /\ stack' \in Seq(ToSet(stack')) /\ stack' # <<>> /\ Len(stack') = Incomplete
              /\ \A i \in 1 .. Incomplete :
                   stack'[i] = IF i = Incomplete THEN Filled(stack[Incomplete], Folded(item))
                               ELSE stack[i]
              /\ root' = root
<1> DEFINE keep == Incomplete
           frame == Filled(stack[keep], Folded(item))
           base == SubSeq(stack, 1, keep)
<1>1. PICK m \in Nat : m = Len(stack) /\ Len(unvisited) = m + 1
  BY InWalk
<1>2. walk \in Seq(Seq(Values)) /\ Len(walk) \in Nat /\ Len(walk) >= m + 1
  BY <1>1, LenProperties DEF PassedAt
<1>3. unvisited' = SubSeq(walk, 1, LevelOf(walk))
  BY DEF Resumed, LevelOf
<1>4. LevelOf(walk) = IF keep = 0 THEN 0 ELSE keep + 1
  BY LevelsDone
<1>5. keep \in 0 .. m /\ (keep > 0 => stack[keep].remaining > 1)
  BY <1>1, IncompleteIs
<1>6. stack \in Seq(ToSet(stack)) /\ root = Nothing
  BY InWalk DEF JsonInv
<1>7. /\ keep = 0 => stack' = <<>> /\ root' = Folded(item)
      /\ keep # 0 => stack' = [base EXCEPT ![keep] = Filled(@, Folded(item))] /\ root' = root
  BY DEF Add
<1> HIDE DEF keep
<1>8. CASE keep = 0
  <2>1. unvisited' = <<>> /\ stack' = <<>>
    BY <1>2, <1>3, <1>4, <1>7, <1>8, SubSeqProperties
  <2> QED
    BY <1>7, <1>8, <2>1 DEF keep
<1>9. CASE keep # 0
  <2>1. keep \in 1 .. m /\ keep + 1 \in 2 .. Len(walk)
    BY <1>2, <1>5, <1>9
  <2>2. /\ unvisited' \in Seq(Seq(Values)) /\ Len(unvisited') = keep + 1
        /\ \A i \in 1 .. keep + 1 : unvisited'[i] = walk[i]
    <3>1. \A i \in 1 .. keep + 1 : walk[i] \in Seq(Values)
      BY <1>2, <2>1, ElementOfSeq
    <3> QED
      BY <1>2, <1>3, <1>4, <1>9, <2>1, <3>1, SubSeqProperties
  <2>3. unvisited' # <<>>
    BY <2>1, <2>2, EmptySeq
  <2>4. /\ base \in Seq(ToSet(stack)) /\ Len(base) = keep
        /\ \A i \in 1 .. keep : base[i] = stack[i]
    <3>1. \A i \in 1 .. keep : stack[i] \in ToSet(stack)
      BY <1>1, <1>6, <2>1, ElementOfSeq
    <3> QED
      BY <1>1, <1>6, <2>1, <3>1, SubSeqProperties
  <2> HIDE DEF base
  <2>5. stack' = [base EXCEPT ![keep] = frame]
    BY <1>7, <1>9, <2>1, <2>4
  <2> HIDE DEF frame
  <2> DEFINE S == ToSet(stack) \cup {frame}
  <2>6. base \in Seq(S)
    BY <2>4, SeqMonotonic
  <2>7. frame \in S
    OBVIOUS
  <2> HIDE DEF S
  <2>8. /\ stack' \in Seq(S) /\ Len(stack') = keep
        /\ \A i \in 1 .. keep : stack'[i] = IF i = keep THEN frame ELSE stack[i]
    BY <2>1, <2>4, <2>5, <2>6, <2>7, ExceptSeq
  <2>9. stack' \in Seq(ToSet(stack'))
    BY <2>8, TypedByItsItems
  <2>10. stack' # <<>> /\ root' = root
    BY <1>7, <1>9, <2>1, <2>8, EmptySeq
  <2>11. /\ \A i \in 1 .. keep :
               stack'[i] = IF i = keep THEN Filled(stack[keep], Folded(item)) ELSE stack[i]
         /\ keep = Incomplete
    BY <2>8 DEF frame, keep
  <2>12. stack[keep].remaining > 1
    BY <1>5, <2>1
  <2> QED
    BY <1>1, <1>9, <2>1, <2>2, <2>3, <2>8, <2>9, <2>10, <2>11, <2>12
<1> QED
  BY <1>8, <1>9

LEMMA AddMatches ==
  ASSUME JsonInv, unvisited # <<>>, NEW walk, PassedAt(walk, Len(unvisited)), NEW item,
         Add(item), unvisited' = Resumed(walk)
  PROVE  JsonInv'
<1>1. PICK m \in Nat : m = Len(stack) /\ Len(unvisited) = m + 1
  BY InWalk
<1>2. /\ \A i \in 1 .. m : walk[i] = unvisited[i]
      /\ Len(walk[m + 1]) = Len(unvisited[m + 1]) - 1
  <2>1. \A i \in 1 .. m : i \in 1 .. m + 1 /\ i < m + 1
    OBVIOUS
  <2>2. Len(walk[m + 1]) = Len(unvisited[m + 1]) - 1
    BY <1>1, InWalk DEF PassedAt
  <2> QED
    BY <1>1, <2>1, <2>2 DEF PassedAt
<1>3. CASE Incomplete = 0
  <2>1. unvisited' = <<>> /\ stack' = <<>>
    BY <1>3, AddShape
  <2> QED
    BY <2>1 DEF JsonInv, Matched
<1>4. CASE Incomplete # 0
  <2>1. PICK keep \in 1 .. m : keep = Incomplete /\ stack[keep].remaining > 1
    BY <1>1, <1>4, AddShape
  <2>2. /\ unvisited' \in Seq(Seq(Values)) /\ Len(unvisited') = keep + 1
        /\ \A i \in 1 .. keep + 1 : unvisited'[i] = walk[i]
    BY <1>4, <2>1, AddShape
  <2>3. /\ stack' \in Seq(ToSet(stack')) /\ Len(stack') = keep
        /\ \A i \in 1 .. keep :
             stack'[i] = IF i = keep THEN Filled(stack[keep], Folded(item)) ELSE stack[i]
    BY <1>4, <2>1, AddShape
  <2>4. stack' # <<>> /\ unvisited' # <<>> /\ root' = Nothing
    BY <1>4, AddShape, InWalk
  <2>5. \A i \in 1 .. keep :
          stack'[i].remaining = IF i = keep THEN stack[i].remaining - 1 ELSE stack[i].remaining
    BY <2>3 DEF Filled
  <2>6. Len(unvisited'[1]) = 0
    <3>1. Len(unvisited[1]) = 0 /\ 1 \in 1 .. m /\ 1 \in 1 .. keep + 1
      BY <1>1, <2>1, InWalk
    <3> QED
      BY <1>2, <2>2, <3>1
  <2>7. ASSUME NEW i \in 1 .. keep
         PROVE  /\ stack'[i].remaining \in Nat \ {0}
                /\ i = keep => stack'[i].remaining = Len(unvisited'[i + 1])
                /\ i < keep => stack'[i].remaining = Len(unvisited'[i + 1]) + 1
    <3>1. i \in 1 .. m /\ i + 1 \in 1 .. keep + 1 /\ i + 1 \in 1 .. m + 1
      BY <2>1
    <3>2. /\ stack[i].remaining \in Nat \ {0}
          /\ i = m => stack[i].remaining = Len(unvisited[i + 1])
          /\ i < m => stack[i].remaining = Len(unvisited[i + 1]) + 1
          /\ Len(unvisited[i + 1]) \in Nat
      BY <1>1, <3>1, InWalk DEF Waits
    <3>3. unvisited'[i + 1] = walk[i + 1]
      BY <2>2, <3>1
    <3>4. i < m => walk[i + 1] = unvisited[i + 1]
      <4>1. i < m => i + 1 \in 1 .. m
        BY <3>1
      <4> QED
        BY <1>2, <4>1
    <3>5. CASE i # keep
      <4>1. i < m /\ stack'[i].remaining = stack[i].remaining
        BY <2>1, <2>5, <3>5
      <4> QED
        BY <3>2, <3>3, <3>4, <3>5, <4>1
    <3>6. CASE i = keep
      <4>1. stack'[i].remaining = stack[i].remaining - 1
        BY <2>5, <3>6
      <4>2. stack[i].remaining > 1 /\ ~ i < keep
        BY <2>1, <3>6
      <4>3. stack'[i].remaining \in Nat \ {0}
        BY <3>2, <4>1, <4>2
      <4>4. Len(walk[i + 1]) = stack[i].remaining - 1
        <5>1. CASE i < m
          BY <3>2, <3>4, <5>1
        <5>2. CASE i = m
          BY <1>2, <3>2, <5>2
        <5> QED
          BY <2>1, <5>1, <5>2
      <4> QED
        BY <3>3, <4>1, <4>2, <4>3, <4>4
    <3> QED
      BY <3>5, <3>6
  <2>8. \A i \in 1 .. Len(stack') : Waits(i)'
    BY <2>3, <2>7 DEF Waits
  <2> QED
    BY <2>2, <2>3, <2>4, <2>6, <2>8 DEF JsonInv, Matched
<1> QED
  BY <1>3, <1>4

-----------------------------------------------------------------------------
(* The visits.                                                             *)

\* The walk without the part that is visited.
LEMMA PassedIs ==
  ASSUME JsonInv, unvisited # <<>>
  PROVE  LET n == Len(unvisited)
         IN  /\ Passed \in Seq(Seq(Values)) /\ Len(Passed) = n /\ n \in Nat \ {0}
             /\ Passed[n] = Tail(unvisited[n])
             /\ \A i \in 1 .. n : i # n => Passed[i] = unvisited[i]
             /\ PassedAt(Passed, n)
<1>1. PICK n \in Nat \ {0} : n = Len(unvisited)
  BY InWalk
<1>2. /\ unvisited \in Seq(Seq(Values)) /\ Tail(unvisited[n]) \in Seq(Values)
      /\ Len(Tail(unvisited[n])) = Len(unvisited[n]) - 1
  BY <1>1, InWalk DEF JsonInv
<1>3. n \in 1 .. Len(unvisited) /\ Passed = [unvisited EXCEPT ![n] = Tail(unvisited[n])]
  BY <1>1 DEF Passed
<1> DEFINE t == Tail(unvisited[n])
<1> HIDE DEF t
<1>4. /\ t \in Seq(Values) /\ Passed = [unvisited EXCEPT ![n] = t]
  BY <1>2, <1>3 DEF t
<1>5. /\ Passed \in Seq(Seq(Values)) /\ Len(Passed) = n
      /\ \A i \in 1 .. n : Passed[i] = IF i = n THEN t ELSE unvisited[i]
  <2>1. unvisited \in Seq(Seq(Values)) /\ t \in Seq(Values) /\ n \in 1 .. Len(unvisited)
    BY <1>2, <1>3, <1>4
  <2> DEFINE passed == [unvisited EXCEPT ![n] = t]
  <2>2. /\ passed \in Seq(Seq(Values)) /\ Len(passed) = Len(unvisited)
        /\ \A i \in 1 .. Len(unvisited) : passed[i] = IF i = n THEN t ELSE unvisited[i]
    BY <2>1, ExceptSeq
  <2>3. Passed = passed
    BY <1>4
  <2> HIDE DEF passed
  <2> QED
    BY <1>1, <2>2, <2>3
<1>6. Passed[n] = t /\ \A i \in 1 .. n : i # n => Passed[i] = unvisited[i]
  BY <1>1, <1>5
<1>7. PassedAt(Passed, n)
  <2>1. \A i \in 1 .. n : i < n => i # n
    OBVIOUS
  <2>2. \A i \in 1 .. n : ~ i > n
    OBVIOUS
  <2> QED
    BY <1>1, <1>2, <1>5, <1>6, <2>1, <2>2 DEF PassedAt, t
<1> QED
  BY <1>1, <1>5, <1>6, <1>7 DEF t

LEMMA LeafMatches ==
  ASSUME JsonInv, VisitLeaf
  PROVE  JsonInv'
<1>1. PICK type \in Leaves : Visiting(type) /\ Add(LeafJson(type)) /\ unvisited' = Resumed(Passed)
  BY DEF VisitLeaf
<1>2. unvisited # <<>>
  BY <1>1 DEF Visiting
<1> QED
  BY <1>1, <1>2, PassedIs, AddMatches

\* What has just been opened is the innermost level, with all of its parts left.
LEMMA OpenedMatches ==
  ASSUME JsonInv, unvisited # <<>>, NEW items \in Seq(Values), items # <<>>, NEW frame,
         frame.remaining = Len(items), stack' = Append(stack, frame), root' = root,
         unvisited' = Append(Passed, items)
  PROVE  JsonInv'
<1>1. PICK m \in Nat : m = Len(stack) /\ Len(unvisited) = m + 1
  BY InWalk
<1>2. /\ Passed \in Seq(Seq(Values)) /\ Len(Passed) = m + 1
      /\ Passed[m + 1] = Tail(unvisited[m + 1])
      /\ \A i \in 1 .. m + 1 : i # m + 1 => Passed[i] = unvisited[i]
  BY <1>1, PassedIs
<1>3. /\ unvisited' \in Seq(Seq(Values)) /\ Len(unvisited') = (m + 1) + 1
      /\ unvisited'[(m + 1) + 1] = items
      /\ \A i \in 1 .. m + 1 : unvisited'[i] = Passed[i]
  BY <1>2, AppendProperties
<1>4. Len(items) \in Nat \ {0}
  BY LenProperties, EmptySeq
<1>5. stack \in Seq(ToSet(stack)) /\ root = Nothing
  BY InWalk DEF JsonInv
<1> DEFINE S == ToSet(stack) \cup {frame}
<1>6. stack \in Seq(S)
  BY <1>5, SeqMonotonic
<1>7. frame \in S
  OBVIOUS
<1> HIDE DEF S
<1>8. /\ stack' \in Seq(S) /\ Len(stack') = m + 1 /\ stack'[m + 1] = frame
      /\ \A i \in 1 .. m : stack'[i] = stack[i]
  BY <1>1, <1>6, <1>7, AppendProperties
<1>9. stack' \in Seq(ToSet(stack')) /\ stack' # <<>>
  <2>1. stack' \in Seq(ToSet(stack'))
    BY <1>8, TypedByItsItems
  <2>2. Len(stack') # 0
    BY <1>8
  <2> QED
    BY <1>8, <2>1, <2>2, EmptySeq
<1>10. unvisited' # <<>>
  BY <1>3, EmptySeq
<1>11. \A i \in 1 .. m + 1 : Len(unvisited[i]) \in Nat
  BY <1>1, InWalk
<1>12. Len(Passed[m + 1]) = Len(unvisited[m + 1]) - 1
  BY <1>1, <1>2, InWalk
<1>13. Len(unvisited'[1]) = 0
  <2>1. 1 \in 1 .. m + 1 /\ Len(unvisited[1]) = IF m = 0 THEN 1 ELSE 0
    BY <1>1, InWalk
  <2>2. CASE m = 0
    <3>1. m + 1 = 1
      BY <2>2
    <3>2. Len(Passed[1]) = Len(unvisited[1]) - 1
      BY <1>12, <3>1
    <3> QED
      BY <1>3, <2>1, <2>2, <3>2
  <2>3. CASE m # 0
    BY <1>2, <1>3, <2>1, <2>3
  <2> QED
    BY <2>2, <2>3
<1>14. ASSUME NEW i \in 1 .. m + 1
       PROVE  /\ stack'[i].remaining \in Nat \ {0}
              /\ i = m + 1 => stack'[i].remaining = Len(unvisited'[i + 1])
              /\ i < m + 1 => stack'[i].remaining = Len(unvisited'[i + 1]) + 1
  <2>1. CASE i = m + 1
    BY <1>3, <1>4, <1>8, <2>1
  <2>2. CASE i # m + 1
    <3>1. i \in 1 .. m /\ i + 1 \in 1 .. m + 1 /\ i < m + 1
      BY <2>2
    <3>2. /\ stack[i].remaining \in Nat \ {0}
          /\ i = m => stack[i].remaining = Len(unvisited[i + 1])
          /\ i < m => stack[i].remaining = Len(unvisited[i + 1]) + 1
      BY <1>1, <3>1, InWalk DEF Waits
    <3>3. stack'[i] = stack[i] /\ unvisited'[i + 1] = Passed[i + 1]
      BY <1>3, <1>8, <3>1
    <3>4. CASE i = m
      <4>1. stack'[i].remaining = Len(unvisited[i + 1])
        BY <3>2, <3>3, <3>4
      <4>2. Len(unvisited'[i + 1]) = Len(unvisited[i + 1]) - 1
        BY <1>12, <3>3, <3>4
      <4>3. Len(unvisited[i + 1]) \in Nat
        BY <1>11, <3>1
      <4>4. stack'[i].remaining = Len(unvisited'[i + 1]) + 1
        BY <4>1, <4>2, <4>3
      <4>5. stack'[i].remaining \in Nat \ {0}
        BY <3>2, <3>3
      <4> QED
        BY <2>2, <4>4, <4>5
    <3>5. CASE i < m
      <4>1. Passed[i + 1] = unvisited[i + 1]
        BY <1>2, <3>1, <3>5
      <4> QED
        BY <2>2, <3>2, <3>3, <3>5, <4>1
    <3>6. i = m \/ i < m
      BY <3>1
    <3> QED
      BY <3>4, <3>5, <3>6
  <2> QED
    BY <2>1, <2>2
<1>15. \A i \in 1 .. Len(stack') : Waits(i)'
  BY <1>8, <1>14 DEF Waits
<1> QED
  BY <1>3, <1>5, <1>8, <1>9, <1>10, <1>13, <1>15 DEF JsonInv, Matched

\* A container without parts is an item; one with parts is opened.
LEMMA ContainerIs ==
  ASSUME JsonInv, VisitContainer
  PROVE  \E kind \in Containers, items \in Seq(Values) :
           LET frame == [kind |-> kind, items |-> <<>>, remaining |-> Len(items)]
           IN  /\ Visiting(kind) /\ SetType(kind) /\ UNCHANGED <<value, decoded>>
               /\ items = Part.items
               /\ items = <<>> => /\ PassedAt(Append(Passed, items), Len(unvisited))
                                 /\ Add(IntoJson(frame))
                                 /\ unvisited' = Resumed(Append(Passed, items))
               /\ items # <<>> => /\ stack' = Append(stack, frame) /\ root' = root
                                  /\ unvisited' = Append(Passed, items)
<1>1. PICK kind \in Containers :
        /\ Visiting(kind) /\ SetType(kind) /\ Open(kind, Len(Part.items))
        /\ unvisited' = Resumed(Append(Passed, Part.items)) /\ UNCHANGED <<value, decoded>>
  BY DEF VisitContainer
<1>2. unvisited # <<>>
  BY <1>1 DEF Visiting
<1>3. PICK items \in Seq(Values) : items = Part.items
  BY <1>2, InWalk, ValueAssumption
<1>4. PICK n \in Nat \ {0} : n = Len(unvisited)
  BY <1>2, InWalk
<1> DEFINE walk == Append(Passed, items)
<1>5. Passed \in Seq(Seq(Values)) /\ Len(Passed) = n /\ PassedAt(Passed, n)
  BY <1>2, <1>4, PassedIs
<1>6. /\ walk \in Seq(Seq(Values)) /\ Len(walk) = n + 1 /\ walk[n + 1] = items
      /\ \A i \in 1 .. n : walk[i] = Passed[i]
  BY <1>5, AppendProperties
<1>7. unvisited' = Resumed(walk)
  BY <1>1, <1>3
<1> HIDE DEF walk
<1> DEFINE frame == [kind |-> kind, items |-> <<>>, remaining |-> Len(items)]
<1>8. CASE items = <<>>
  <2>1. PassedAt(walk, n)
    <3>1. \A i \in 1 .. n + 1 : i > n => i = n + 1
      OBVIOUS
    <3>2. n \in 1 .. n /\ n + 1 >= n
      OBVIOUS
    <3> QED
      BY <1>5, <1>6, <1>8, <3>1, <3>2 DEF PassedAt
  <2>2. Len(Part.items) = 0
    BY <1>3, <1>8, EmptySeq
  <2>3. Add(IntoJson(frame))
    BY <1>1, <1>3, <2>2 DEF Open
  <2> QED
    BY <1>1, <1>3, <1>4, <1>7, <1>8, <2>1, <2>3 DEF walk
<1>9. CASE items # <<>>
  <2>1. Len(items) \in Nat \ {0}
    BY <1>9, LenProperties, EmptySeq
  <2>2. stack' = Append(stack, frame) /\ root' = root
    BY <1>1, <1>3, <2>1 DEF Open
  <2>3. LevelOf(walk) = n + 1
    BY <1>6, <1>9, LevelIs
  <2>4. SubSeq(walk, 1, n + 1) = walk
    <3>1. \A i \in 1 .. n + 1 : walk[i] \in Seq(Values)
      BY <1>6, ElementOfSeq
    <3>2. /\ SubSeq(walk, 1, n + 1) \in Seq(Seq(Values))
          /\ Len(SubSeq(walk, 1, n + 1)) = n + 1
          /\ \A i \in 1 .. n + 1 : SubSeq(walk, 1, n + 1)[i] = walk[i]
      BY <1>6, <3>1, SubSeqProperties
    <3> QED
      BY <1>6, <3>2, SeqEqual
  <2>5. unvisited' = Append(Passed, items)
    BY <1>7, <2>3, <2>4 DEF Resumed, LevelOf, walk
  <2> QED
    BY <1>1, <1>3, <1>9, <2>2, <2>5
<1> QED
  BY <1>8, <1>9

LEMMA ContainerMatches ==
  ASSUME JsonInv, VisitContainer
  PROVE  JsonInv'
<1>1. PICK kind, items, frame :
        /\ kind \in Containers /\ items \in Seq(Values)
        /\ Visiting(kind) /\ frame.remaining = Len(items)
        /\ items = <<>> => /\ PassedAt(Append(Passed, items), Len(unvisited))
                          /\ Add(IntoJson(frame))
                          /\ unvisited' = Resumed(Append(Passed, items))
        /\ items # <<>> => /\ stack' = Append(stack, frame) /\ root' = root
                           /\ unvisited' = Append(Passed, items)
  <2>1. \A kind \in Containers, items \in Seq(Values) :
          [kind |-> kind, items |-> <<>>, remaining |-> Len(items)].remaining = Len(items)
    OBVIOUS
  <2> QED
    BY <2>1, ContainerIs
<1>2. unvisited # <<>>
  BY <1>1 DEF Visiting
<1>3. CASE items = <<>>
  BY <1>1, <1>2, <1>3, AddMatches
<1>4. CASE items # <<>>
  BY <1>1, <1>2, <1>4, OpenedMatches
<1> QED
  BY <1>3, <1>4

\* What a reference refers to is visited in its place.
LEMMA RefShape ==
  ASSUME JsonInv, VisitRef
  PROVE  LET n == Len(unvisited)
         IN  /\ unvisited' \in Seq(Seq(Values)) /\ Len(unvisited') = n
             /\ \A i \in 1 .. n : i # n => unvisited'[i] = unvisited[i]
             /\ Len(unvisited'[n]) = Len(unvisited[n])
             /\ Shown[unvisited'[n][1]] = Shown[Part]
             /\ \A j \in 2 .. Len(unvisited[n]) : unvisited'[n][j] = unvisited[n][j]
<1>1. unvisited # <<>> /\ Part.type = "reference"
  BY DEF VisitRef, Visiting
<1>2. PICK n \in Nat \ {0} : n = Len(unvisited)
  BY <1>1, InWalk
<1>3. PICK items \in Seq(Values) : items = Part.items
  BY <1>1, InWalk, ValueAssumption
<1>4. Len(items) = 1 /\ Shown[Part] = Shown[items[1]]
  BY <1>1, <1>3, InWalk, ValueAssumption, ShownAssumption
<1>5. /\ Passed \in Seq(Seq(Values)) /\ Len(Passed) = n
      /\ Passed[n] = Tail(unvisited[n])
      /\ \A i \in 1 .. n : i # n => Passed[i] = unvisited[i]
  BY <1>1, <1>2, PassedIs
<1>6. unvisited[n] \in Seq(Values) /\ unvisited[n] # <<>> /\ n \in 1 .. n
  BY <1>1, <1>2, InWalk
<1>7. PICK l \in Nat \ {0} : l = Len(unvisited[n])
  BY <1>6, LenProperties, EmptySeq
<1> DEFINE rest == Tail(unvisited[n])
<1>8. /\ rest \in Seq(Values) /\ Len(rest) = l - 1
      /\ \A j \in 1 .. l - 1 : rest[j] = unvisited[n][j + 1]
  BY <1>6, <1>7, HeadTailProperties
<1> HIDE DEF rest
<1> DEFINE level == items \o rest
<1>9. /\ level \in Seq(Values) /\ Len(level) = l /\ level[1] = items[1]
      /\ \A j \in 2 .. l : level[j] = unvisited[n][j]
  <2>1. /\ level \in Seq(Values) /\ Len(level) = Len(items) + Len(rest)
        /\ \A j \in 1 .. Len(items) + Len(rest) :
             level[j] = IF j <= Len(items) THEN items[j] ELSE rest[j - Len(items)]
    BY <1>8, ConcatProperties
  <2> HIDE DEF level
  <2>2. /\ Len(items) + Len(rest) = l
        /\ \A j \in 1 .. l : level[j] = IF j <= 1 THEN items[j] ELSE rest[j - 1]
    BY <1>4, <1>8, <2>1
  <2>3. ASSUME NEW j \in 2 .. l PROVE level[j] = unvisited[n][j]
    <3>1. j \in 1 .. l /\ ~ j <= 1 /\ j - 1 \in 1 .. l - 1 /\ (j - 1) + 1 = j
      OBVIOUS
    <3> QED
      BY <1>8, <2>2, <3>1
  <2>4. 1 \in 1 .. l /\ 1 <= 1
    OBVIOUS
  <2> QED
    BY <2>1, <2>2, <2>3, <2>4
<1>10. unvisited' = [Passed EXCEPT ![n] = level]
  BY <1>2, <1>3, <1>5, <1>6 DEF VisitRef, rest
<1> HIDE DEF level
<1>11. /\ unvisited' \in Seq(Seq(Values)) /\ Len(unvisited') = n
       /\ \A i \in 1 .. n : unvisited'[i] = IF i = n THEN level ELSE Passed[i]
  BY <1>5, <1>6, <1>9, <1>10, ExceptSeq
<1>12. /\ \A i \in 1 .. n : i # n => unvisited'[i] = unvisited[i]
       /\ unvisited'[n] = level
  BY <1>5, <1>6, <1>11
<1>13. Len(unvisited'[n]) = Len(unvisited[n]) /\ Shown[unvisited'[n][1]] = Shown[Part]
  BY <1>4, <1>7, <1>9, <1>12
<1>14. \A j \in 2 .. Len(unvisited[n]) : unvisited'[n][j] = unvisited[n][j]
  BY <1>7, <1>9, <1>12
<1> QED
  BY <1>2, <1>11, <1>12, <1>13, <1>14

LEMMA RefMatches ==
  ASSUME JsonInv, VisitRef
  PROVE  JsonInv'
<1>1. unvisited # <<>> /\ UNCHANGED <<stack, root>>
  BY DEF VisitRef, Visiting
<1>2. PICK n \in Nat \ {0} :
        /\ n = Len(unvisited) /\ unvisited' \in Seq(Seq(Values)) /\ Len(unvisited') = n
        /\ \A i \in 1 .. n : i # n => unvisited'[i] = unvisited[i]
        /\ Len(unvisited'[n]) = Len(unvisited[n])
  <2>1. PICK n \in Nat \ {0} : n = Len(unvisited)
    BY <1>1, InWalk
  <2> QED
    BY <2>1, RefShape
<1>3. \A i \in 1 .. n : Len(unvisited'[i]) = Len(unvisited[i])
  BY <1>2
<1>4. unvisited' # <<>> /\ n = Len(stack) + 1 /\ Len(stack) \in Nat
  BY <1>1, <1>2, EmptySeq, InWalk
<1>5. ASSUME NEW i \in 1 .. Len(stack')
      PROVE  Waits(i)'
  <2>1. i \in 1 .. Len(stack) /\ i + 1 \in 1 .. n /\ Waits(i)
    BY <1>1, <1>4, InWalk
  <2> QED
    BY <1>1, <1>3, <2>1 DEF Waits
<1>6. Len(unvisited'[1]) = IF stack' = <<>> THEN 1 ELSE 0
  <2>1. 1 \in 1 .. n /\ Len(unvisited[1]) = IF stack = <<>> THEN 1 ELSE 0
    BY <1>1, <1>2 DEF JsonInv, Matched
  <2> QED
    BY <1>1, <1>3, <2>1
<1>7. root = Nothing /\ stack \in Seq(ToSet(stack))
  BY <1>1 DEF JsonInv, Matched
<1> QED
  BY <1>1, <1>2, <1>4, <1>5, <1>6, <1>7 DEF JsonInv, Matched

LEMMA InitJsonInv == Init => JsonInv
<1> SUFFICES ASSUME Init PROVE JsonInv
  OBVIOUS
<1>1. /\ unvisited = <<<<value>>>> /\ stack = <<>> /\ root = Nothing /\ value \in Values
  BY DEF Init
<1>2. /\ <<value>> \in Seq(Values) /\ unvisited \in Seq(Seq(Values))
      /\ Len(unvisited) = 1 /\ Len(unvisited[1]) = 1
  BY <1>1
<1>3. unvisited # <<>> /\ Len(stack) = 0 /\ stack \in Seq(ToSet(stack))
  BY <1>1, <1>2, EmptySeq
<1> QED
  BY <1>1, <1>2, <1>3 DEF JsonInv, Matched

LEMMA NextJsonInv == JsonInv /\ [Next]_vars => JsonInv'
<1> SUFFICES ASSUME JsonInv, [Next]_vars PROVE JsonInv'
  OBVIOUS
<1>1. CASE UNCHANGED <<unvisited, stack, root>>
  BY <1>1 DEF JsonInv, Matched, Waits
<1>2. VisitFails \/ Decode \/ Over \/ UNCHANGED vars => UNCHANGED <<unvisited, stack, root>>
  BY DEF VisitFails, Decode, Over, vars
<1> QED
  BY <1>1, <1>2, LeafMatches, ContainerMatches, RefMatches DEF Next

LEMMA MatchedGoal ==
  ASSUME JsonInv
  PROVE  SlotsMatchWalk
<1>1. CASE unvisited = <<>>
  BY <1>1 DEF JsonInv, Matched, SlotsMatchWalk
<1>2. CASE unvisited # <<>>
  <2>1. /\ root = Nothing /\ Len(unvisited) = Len(stack) + 1 /\ Len(stack) \in Nat
        /\ DOMAIN stack = 1 .. Len(stack) /\ \A i \in 1 .. Len(stack) : Waits(i)
        /\ \A i \in 1 .. Len(unvisited) : Len(unvisited[i]) \in Nat
    BY <1>2, InWalk
  <2>2. ASSUME NEW i \in DOMAIN stack
        PROVE  /\ stack[i].remaining > 0
               /\ stack[i].remaining =
                    Len(unvisited[i + 1]) + (IF i < Len(stack) THEN 1 ELSE 0)
    <3>1. PICK n \in Nat : n = Len(stack)
      BY <2>1
    <3>2. i \in 1 .. n /\ i + 1 \in 1 .. n + 1
      BY <2>1, <3>1
    <3>3. PICK k \in Nat : k = Len(unvisited[i + 1])
      BY <2>1, <3>1, <3>2
    <3>4. PICK r \in Nat \ {0} : r = stack[i].remaining
      BY <2>1 DEF Waits
    <3>5. (i = n => r = k) /\ (i < n => r = k + 1)
      BY <2>1, <3>1, <3>3, <3>4 DEF Waits
    <3>6. r > 0 /\ r = k + (IF i < n THEN 1 ELSE 0)
      <4>1. CASE i = n
        BY <3>5, <4>1
      <4>2. CASE i < n
        BY <3>5, <4>2
      <4> QED
        BY <3>2, <4>1, <4>2
    <3> QED
      BY <3>1, <3>3, <3>4, <3>6
  <2> QED
    BY <1>2, <2>1, <2>2 DEF SlotsMatchWalk
<1> QED
  BY <1>1, <1>2

\* JsonBuilder's add and open keep one open container for each level that the walk
\* is in, and each waits for exactly the parts that are still to come, whatever the
\* width and depth of the value.
THEOREM SlotsAreTheWalk == Spec => []SlotsMatchWalk
<1> QED
  BY InitJsonInv, NextJsonInv, MatchedGoal, PTL DEF Spec

-----------------------------------------------------------------------------
(* What is decoded.                                                        *)

\* Where each completed container is `done`, given what goes into it, so is what
\* an item is folded into.
LEMMA FoldedIs ==
  ASSUME JsonInv, unvisited # <<>>, NEW item, NEW done,
         \A i \in 1 .. Len(stack) : i > Incomplete =>
           done[i] = IntoJson(Filled(stack[i], IF i = Len(stack) THEN item ELSE done[i + 1]))
  PROVE  Folded(item) = IF Incomplete = Len(stack) THEN item ELSE done[Incomplete + 1]
<1>1. PICK m \in Nat, keep \in Nat :
         m = Len(stack) /\ keep = Incomplete /\ keep <= m
  <2>1. Len(stack) \in Nat
    BY InWalk
  <2>2. Incomplete \in Nat /\ Incomplete <= Len(stack)
    BY <2>1, IncompleteIs
  <2> QED
    BY <2>1, <2>2
<1> DEFINE P == keep .. m
           Step(g, i) == IF i = m THEN item ELSE IntoJson(Filled(stack[i + 1], g[i + 1]))
           f == CHOOSE g : g = [i \in P |-> Step(g, i)]
           h == [i \in P |-> IF i = m THEN item ELSE done[i + 1]]
<1>2. Folded(item) = f[keep]
  BY <1>1 DEF Folded
<1>3. h = [i \in P |-> Step(h, i)]
  <2>1. ASSUME NEW i \in P PROVE h[i] = Step(h, i)
    <3>1. CASE i = m
      BY <3>1
    <3>2. CASE i # m
      <4>1. i + 1 \in P /\ i + 1 \in 1 .. m /\ i + 1 > keep
        BY <3>2
      <4>2. done[i + 1] = IntoJson(Filled(stack[i + 1], IF i + 1 = m THEN item ELSE done[(i + 1) + 1]))
        BY <1>1, <4>1
      <4>3. h[i + 1] = IF i + 1 = m THEN item ELSE done[(i + 1) + 1]
        BY <4>1
      <4> QED
        BY <3>2, <4>2, <4>3
    <3> QED
      BY <3>1, <3>2
  <2> QED
    BY <2>1
<1> HIDE DEF h
<1>4. f = [i \in P |-> Step(f, i)]
  BY <1>3
<1> HIDE DEF f
<1>5. \A i \in P : f[i] = h[i]
  <2> DEFINE T == {k \in Nat : m - k \in P /\ f[m - k] # h[m - k]}
  <2>1. CASE T = {}
    <3>1. \A i \in P : m - i \in Nat /\ m - (m - i) = i
      OBVIOUS
    <3> QED
      BY <2>1, <3>1
  <2>2. CASE T # {}
    <3> HIDE DEF T
    <3>1. T \in SUBSET Nat
      BY DEF T
    <3>2. PICK k \in T : \A y \in T : k <= y
      BY <2>2, <3>1, Least
    <3> DEFINE i == m - k
    <3>3. k \in Nat /\ i \in P /\ f[i] # h[i]
      BY <3>2 DEF T
    <3>4. f[i] = Step(f, i) /\ h[i] = Step(h, i)
      BY <1>3, <1>4, <3>3
    <3>5. CASE i = m
      BY <3>3, <3>4, <3>5
    <3>6. CASE i # m
      <4>1. k - 1 \in Nat /\ m - (k - 1) = i + 1 /\ i + 1 \in P /\ ~ k <= k - 1
        BY <3>3, <3>6
      <4>2. k - 1 \notin T
        BY <3>2, <4>1
      <4>3. f[i + 1] = h[i + 1]
        BY <4>1, <4>2 DEF T
      <4> QED
        BY <3>3, <3>4, <3>6, <4>3
    <3> QED
      BY <3>5, <3>6
  <2> QED
    BY <2>1, <2>2
<1>6. keep \in P
  BY <1>1
<1>7. Folded(item) = h[keep]
  BY <1>2, <1>5, <1>6
<1> QED
  BY <1>1, <1>6, <1>7 DEF h

\* Shown is what the property compares with.
J(v) == Shown[v].json
Jsons == {J(v) : v \in Values}

\* Container i becomes T[i]: its items are there, the next is the container around
\* the next level, and the last ones are what the parts left are shown as.
Becomes(T, i) ==
  /\ T[i] = IntoJson([kind |-> stack[i].kind, items |-> T[i].items])
  /\ T[i].items \in Seq(Jsons) /\ stack[i].items \in Seq(Jsons)
  /\ Len(T[i].items) = Len(stack[i].items) + stack[i].remaining
  /\ \A j \in 1 .. Len(stack[i].items) : T[i].items[j] = stack[i].items[j]
  /\ i < Len(stack) => T[i].items[Len(stack[i].items) + 1] = T[i + 1]
  /\ \A j \in 1 .. Len(unvisited[i + 1]) :
       T[i].items[Len(T[i].items) - Len(unvisited[i + 1]) + j] = J(unvisited[i + 1][j])

Targets(T) ==
  /\ \A i \in 1 .. Len(stack) : Becomes(T, i)
  /\ Len(stack) # 0 => Shown[value] = [type |-> firstType, json |-> T[1]] /\ firstType # Nothing
  /\ Len(stack) = 0 => Shown[value] = Shown[Part] /\ firstType = Nothing

\* While the walk is on the containers become parts of what the value is shown as;
\* when it is over the whole is there.
DecodingInv ==
  /\ JsonInv
  /\ value \in Values
  /\ unvisited # <<>> => \E T : Targets(T)
  /\ unvisited = <<>> => Shown[value] = [type |-> firstType, json |-> root] /\ firstType # Nothing
  /\ DecodesTheValue

\* What Becomes says of a container, in numbers.
LEMMA BecomesFacts ==
  ASSUME JsonInv, unvisited # <<>>, NEW T, NEW i \in 1 .. Len(stack), Becomes(T, i)
  PROVE  /\ Len(stack[i].items) \in Nat /\ stack[i].remaining \in Nat \ {0}
         /\ Len(unvisited[i + 1]) \in Nat
         /\ Len(T[i].items) = Len(stack[i].items) + stack[i].remaining
         /\ i = Len(stack) => stack[i].remaining = Len(unvisited[i + 1])
         /\ i < Len(stack) => stack[i].remaining = Len(unvisited[i + 1]) + 1
<1>1. /\ Len(stack[i].items) \in Nat /\ Len(T[i].items) = Len(stack[i].items) + stack[i].remaining
  BY LenProperties DEF Becomes
<1>2. i + 1 \in 1 .. Len(unvisited)
  BY InWalk
<1>3. Waits(i) /\ Len(unvisited[i + 1]) \in Nat
  BY <1>2, InWalk
<1> QED
  BY <1>1, <1>3 DEF Waits

\* An item that completes a container: the target of the container is the container
\* with it.
LEMMA Completed ==
  ASSUME JsonInv, unvisited # <<>>, NEW T, NEW i \in 1 .. Len(stack), Becomes(T, i),
         stack[i].remaining = 1,
         NEW last, last = T[i].items[Len(stack[i].items) + 1]
  PROVE  T[i] = IntoJson(Filled(stack[i], last))
<1>1. PICK k \in Nat : k = Len(stack[i].items) /\ Len(T[i].items) = k + 1
  BY BecomesFacts
<1>2. /\ T[i].items \in Seq(Jsons) /\ stack[i].items \in Seq(Jsons)
      /\ T[i] = IntoJson([kind |-> stack[i].kind, items |-> T[i].items])
      /\ \A j \in 1 .. k : T[i].items[j] = stack[i].items[j]
  BY <1>1 DEF Becomes
<1>3. last \in Jsons
  <2>1. k + 1 \in 1 .. Len(T[i].items)
    BY <1>1
  <2> QED
    BY <1>1, <1>2, <2>1, ElementOfSeq
<1> DEFINE s == Append(stack[i].items, last)
<1>4. /\ s \in Seq(Jsons) /\ Len(s) = k + 1 /\ s[k + 1] = last
      /\ \A j \in 1 .. k : s[j] = stack[i].items[j]
  BY <1>1, <1>2, <1>3, AppendProperties
<1> HIDE DEF s
<1>5. T[i].items = s
  <2>1. ASSUME NEW j \in 1 .. k + 1 PROVE T[i].items[j] = s[j]
    <3>1. CASE j = k + 1
      BY <1>1, <1>4, <3>1
    <3>2. CASE j # k + 1
      <4>1. j \in 1 .. k
        BY <3>2
      <4> QED
        BY <1>2, <1>4, <4>1
    <3> QED
      BY <3>1, <3>2
  <2> QED
    BY <1>1, <1>2, <1>4, <2>1, SeqEqual
<1> QED
  BY <1>2, <1>5 DEF s, Filled, IntoJson

\* What goes into container i next: the part visited, or the container around the
\* next level.
LEMMA NextItem ==
  ASSUME JsonInv, unvisited # <<>>, NEW T, NEW i \in 1 .. Len(stack), Becomes(T, i)
  PROVE  T[i].items[Len(stack[i].items) + 1] = IF i = Len(stack) THEN J(Part) ELSE T[i + 1]
<1>1. PICK m \in Nat : m = Len(stack) /\ Len(unvisited) = m + 1
  BY InWalk
<1>2. CASE i = m
  <2>1. PICK k \in Nat : k = Len(stack[m].items)
    BY <1>2, BecomesFacts
  <2>2. PICK r \in Nat \ {0} : r = stack[m].remaining
    BY <1>2, BecomesFacts
  <2>3. r = Len(unvisited[m + 1]) /\ Len(T[m].items) = k + r /\ k = Len(stack[m].items)
    BY <1>1, <1>2, <2>1, <2>2, BecomesFacts
  <2>4. 1 \in 1 .. r /\ (k + r) - r + 1 = k + 1
    BY <2>3
  <2>5. T[m].items[Len(T[m].items) - Len(unvisited[m + 1]) + 1] = J(unvisited[m + 1][1])
    BY <1>2, <2>3, <2>4 DEF Becomes
  <2>6. Part = unvisited[m + 1][1]
    BY <1>1 DEF Part, Last
  <2> QED
    BY <1>1, <1>2, <2>3, <2>4, <2>5, <2>6
<1>3. CASE i # m
  BY <1>1, <1>3 DEF Becomes
<1> QED
  BY <1>2, <1>3

\* The parts left once one is visited are still the last ones of the targets.
LEMMA RestShown ==
  ASSUME JsonInv, unvisited # <<>>, NEW walk, PassedAt(walk, Len(unvisited)),
         NEW T, NEW i \in 1 .. Len(stack), Becomes(T, i)
  PROVE  /\ Len(walk[i + 1]) \in Nat
         /\ \A j \in 1 .. Len(walk[i + 1]) :
              T[i].items[Len(T[i].items) - Len(walk[i + 1]) + j] = J(walk[i + 1][j])
<1>1. PICK m \in Nat : m = Len(stack) /\ Len(unvisited) = m + 1
  BY InWalk
<1>2. PICK k \in Nat : k = Len(stack[i].items)
  BY BecomesFacts
<1>3. PICK r \in Nat \ {0} : r = stack[i].remaining
  BY BecomesFacts
<1>4. PICK l \in Nat : l = Len(unvisited[i + 1])
  BY BecomesFacts
<1>5. /\ k = Len(stack[i].items) /\ r = stack[i].remaining /\ l = Len(unvisited[i + 1])
      /\ Len(T[i].items) = k + r
      /\ i = m => r = l
      /\ i < m => r = l + 1
  BY <1>1, <1>2, <1>3, <1>4, BecomesFacts
<1>6. \A j \in 1 .. l : T[i].items[(k + r) - l + j] = J(unvisited[i + 1][j])
  BY <1>5 DEF Becomes
<1>7. /\ i = m => /\ Len(walk[i + 1]) = l - 1
                  /\ \A j \in 1 .. l - 1 : walk[i + 1][j] = unvisited[i + 1][j + 1]
      /\ i # m => walk[i + 1] = unvisited[i + 1]
  <2>1. CASE i = m
    <3>1. /\ unvisited[m + 1] \in Seq(Values) /\ unvisited[m + 1] # <<>>
          /\ walk[m + 1] = Tail(unvisited[m + 1])
      BY <1>1, InWalk DEF PassedAt
    <3>2. /\ Len(Tail(unvisited[m + 1])) = Len(unvisited[m + 1]) - 1
          /\ \A j \in 1 .. Len(unvisited[m + 1]) - 1 :
               Tail(unvisited[m + 1])[j] = unvisited[m + 1][j + 1]
      BY <3>1, HeadTailProperties
    <3>3. l = Len(unvisited[m + 1])
      BY <1>5, <2>1
    <3>4. /\ Len(walk[m + 1]) = l - 1
          /\ \A j \in 1 .. l - 1 : walk[m + 1][j] = unvisited[m + 1][j + 1]
      BY <3>1, <3>2, <3>3
    <3> QED
      BY <2>1, <3>4
  <2>2. CASE i # m
    <3>1. i + 1 \in 1 .. m + 1 /\ i + 1 < m + 1
      BY <1>1, <2>2
    <3> QED
      BY <1>1, <2>2, <3>1 DEF PassedAt
  <2> QED
    BY <2>1, <2>2
<1>8. PICK d \in Nat : d = Len(walk[i + 1])
  <2>1. CASE i = m
    <3>1. l - 1 \in Nat
      BY <1>5, <2>1
    <3> QED
      BY <1>7, <2>1, <3>1
  <2>2. CASE i # m
    BY <1>5, <1>7, <2>2
  <2> QED
    BY <2>1, <2>2
<1>9. ASSUME NEW j \in 1 .. d
      PROVE  T[i].items[(k + r) - d + j] = J(walk[i + 1][j])
  <2>1. CASE i = m
    <3>1. d = l - 1
      BY <1>7, <1>8, <2>1
    <3>2. j \in 1 .. l - 1 /\ j + 1 \in 1 .. l /\ (k + r) - l + (j + 1) = (k + r) - d + j
      BY <3>1
    <3>3. T[i].items[(k + r) - l + (j + 1)] = J(unvisited[i + 1][j + 1])
      BY <1>6, <3>2
    <3>4. walk[i + 1][j] = unvisited[i + 1][j + 1]
      BY <1>7, <2>1, <3>2
    <3> QED
      BY <3>2, <3>3, <3>4
  <2>2. CASE i # m
    BY <1>5, <1>6, <1>7, <1>8, <2>2
  <2> QED
    BY <2>1, <2>2
<1> QED
  BY <1>5, <1>8, <1>9

\* The container that waits for more, with one item more.
LEMMA FilledBecomes ==
  ASSUME JsonInv, unvisited # <<>>, NEW walk, PassedAt(walk, Len(unvisited)),
         NEW T, NEW i \in 1 .. Len(stack), Becomes(T, i), stack[i].remaining > 1,
         NEW item, item = (IF i = Len(stack) THEN J(Part) ELSE T[i + 1]),
         stack'[i] = Filled(stack[i], item), unvisited'[i + 1] = walk[i + 1],
         Len(stack') = i
  PROVE  Becomes(T, i)'
<1>1. PICK m \in Nat : m = Len(stack) /\ Len(unvisited) = m + 1
  BY InWalk
<1>2. PICK k \in Nat : k = Len(stack[i].items)
  BY BecomesFacts
<1>3. PICK r \in Nat \ {0} : r = stack[i].remaining
  BY BecomesFacts
<1>4. k = Len(stack[i].items) /\ r = stack[i].remaining /\ Len(T[i].items) = k + r
  BY <1>1, <1>2, <1>3, BecomesFacts
<1>5. /\ T[i].items \in Seq(Jsons) /\ stack[i].items \in Seq(Jsons)
      /\ T[i] = IntoJson([kind |-> stack[i].kind, items |-> T[i].items])
      /\ \A j \in 1 .. k : T[i].items[j] = stack[i].items[j]
  BY <1>4 DEF Becomes
<1>6. T[i].items[k + 1] = item
  BY <1>4, NextItem
<1>7. item \in Jsons
  <2>1. k + 1 \in 1 .. Len(T[i].items)
    BY <1>4
  <2> QED
    BY <1>5, <1>6, <2>1, ElementOfSeq
<1> DEFINE s == Append(stack[i].items, item)
<1>8. /\ s \in Seq(Jsons) /\ Len(s) = k + 1 /\ s[k + 1] = item
      /\ \A j \in 1 .. k : s[j] = stack[i].items[j]
  BY <1>4, <1>5, <1>7, AppendProperties
<1> HIDE DEF s
<1>9. stack'[i].items = s /\ stack'[i].kind = stack[i].kind /\ stack'[i].remaining = r - 1
  BY <1>4 DEF Filled, s
<1>10. \A j \in 1 .. k + 1 : T[i].items[j] = s[j]
  <2>1. \A j \in 1 .. k + 1 : j = k + 1 \/ j \in 1 .. k
    OBVIOUS
  <2> QED
    BY <1>5, <1>6, <1>8, <2>1
<1>11. Len(T[i].items) = Len(stack'[i].items) + stack'[i].remaining
  <2>1. (k + 1) + (r - 1) = k + r
    OBVIOUS
  <2> QED
    BY <1>4, <1>8, <1>9, <2>1
<1>12. \A j \in 1 .. Len(unvisited'[i + 1]) :
         T[i].items[Len(T[i].items) - Len(unvisited'[i + 1]) + j] = J(unvisited'[i + 1][j])
  <2>1. PassedAt(walk, Len(unvisited)) /\ Becomes(T, i) /\ i \in 1 .. Len(stack)
    OBVIOUS
  <2>2. \A j \in 1 .. Len(walk[i + 1]) :
          T[i].items[Len(T[i].items) - Len(walk[i + 1]) + j] = J(walk[i + 1][j])
    BY ONLY JsonInv, unvisited # <<>>, <2>1, RestShown
  <2> QED
    BY <2>2
<1>13. ~ i < Len(stack')
  BY <1>1
<1> QED
  BY <1>5, <1>8, <1>9, <1>10, <1>11, <1>12, <1>13 DEF Becomes, J, Jsons

LEMMA AddDecodes ==
  ASSUME DecodingInv, unvisited # <<>>, decoded = Nothing, UNCHANGED <<value, decoded>>,
         NEW walk, PassedAt(walk, Len(unvisited)), NEW type, NEW item,
         Shown[Part] = [type |-> type, json |-> item], type # Nothing,
         SetType(type), Add(item), unvisited' = Resumed(walk)
  PROVE  DecodingInv'
<1>1. JsonInv /\ JsonInv'
  BY AddMatches DEF DecodingInv
<1>2. PICK T : Targets(T)
  BY DEF DecodingInv
<1>3. PICK m \in Nat : m = Len(stack) /\ Len(unvisited) = m + 1
  BY <1>1, InWalk
<1>4. item = J(Part)
  BY DEF J
<1>5. \A i \in 1 .. m : Becomes(T, i)
  BY <1>2, <1>3 DEF Targets
<1>6. PICK keep \in Nat : /\ keep = Incomplete /\ keep <= m
                          /\ \A i \in 1 .. m : i > keep => ~ stack[i].remaining > 1
  <2>1. /\ Incomplete \in 0 .. m
        /\ \A i \in 1 .. m : i > Incomplete => ~ stack[i].remaining > 1
    BY <1>3, IncompleteIs
  <2> QED
    BY <2>1
<1>7. Folded(item) = IF keep = m THEN item ELSE T[keep + 1]
  <2>1. ASSUME NEW i \in 1 .. m, i > keep
        PROVE  T[i] = IntoJson(Filled(stack[i], IF i = m THEN item ELSE T[i + 1]))
    <3>1. stack[i].remaining \in Nat \ {0} /\ ~ stack[i].remaining > 1
      BY <1>1, <1>3, <1>6, <2>1, InWalk DEF Waits
    <3>2. stack[i].remaining = 1
      BY <3>1
    <3>3. T[i].items[Len(stack[i].items) + 1] = IF i = m THEN item ELSE T[i + 1]
      BY <1>1, <1>3, <1>4, <1>5, NextItem
    <3> QED
      BY <1>1, <1>3, <1>5, <3>2, <3>3, Completed
  <2> QED
    BY <1>1, <1>3, <1>6, <2>1, FoldedIs
<1>8. Shown[value] = [type |-> firstType', json |-> IF m = 0 THEN item ELSE T[1]] /\ firstType' # Nothing
  BY <1>2, <1>3 DEF Targets, SetType
<1>9. value' = value /\ value \in Values /\ DecodesTheValue'
  BY DEF DecodingInv, DecodesTheValue
<1>10. CASE keep = 0
  <2>1. unvisited' = <<>> /\ root' = Folded(item)
    BY <1>1, <1>6, <1>10, AddShape
  <2>2. root' = IF m = 0 THEN item ELSE T[1]
    BY <1>7, <1>10, <2>1
  <2> QED
    BY <1>1, <1>8, <1>9, <2>1, <2>2 DEF DecodingInv
<1>11. CASE keep # 0
  <2>1. /\ keep \in 1 .. m /\ stack[keep].remaining > 1
        /\ unvisited' # <<>> /\ Len(stack') = keep
        /\ \A i \in 1 .. keep + 1 : unvisited'[i] = walk[i]
        /\ \A i \in 1 .. keep :
             stack'[i] = IF i = keep THEN Filled(stack[keep], Folded(item)) ELSE stack[i]
    BY <1>1, <1>3, <1>6, <1>11, AddShape
  <2>2. ASSUME NEW i \in 1 .. keep
        PROVE  Becomes(T, i)'
    <3>1. i \in 1 .. m /\ i + 1 \in 1 .. keep + 1
      BY <2>1
    <3>2. CASE i = keep
      <4>1. /\ Folded(item) = IF i = m THEN J(Part) ELSE T[i + 1]
            /\ stack'[i] = Filled(stack[i], Folded(item)) /\ unvisited'[i + 1] = walk[i + 1]
            /\ Len(stack') = i /\ stack[i].remaining > 1
        BY <1>4, <1>7, <2>1, <3>1, <3>2
      <4> QED
        BY <1>1, <1>3, <1>5, <3>1, <4>1, FilledBecomes
    <3>3. CASE i # keep
      <4>1. i < keep /\ i < m /\ i + 1 \in 1 .. m + 1 /\ i + 1 < m + 1
        BY <2>1, <3>1, <3>3
      <4>2. unvisited'[i + 1] = unvisited[i + 1] /\ stack'[i] = stack[i]
        BY <1>3, <2>1, <3>1, <3>3, <4>1 DEF PassedAt
      <4>3. /\ T[i] = IntoJson([kind |-> stack[i].kind, items |-> T[i].items])
            /\ T[i].items \in Seq(Jsons) /\ stack[i].items \in Seq(Jsons)
            /\ Len(T[i].items) = Len(stack[i].items) + stack[i].remaining
            /\ \A j \in 1 .. Len(stack[i].items) : T[i].items[j] = stack[i].items[j]
            /\ T[i].items[Len(stack[i].items) + 1] = T[i + 1]
            /\ \A j \in 1 .. Len(unvisited[i + 1]) :
                 T[i].items[Len(T[i].items) - Len(unvisited[i + 1]) + j] = J(unvisited[i + 1][j])
        BY <1>3, <1>5, <3>1, <4>1 DEF Becomes
      <4> QED
        BY <4>2, <4>3 DEF Becomes, J, Jsons
    <3> QED
      BY <3>2, <3>3
  <2>3. Targets(T)'
    <3>1. m # 0 /\ keep # 0
      BY <1>11, <2>1
    <3> QED
      BY <1>8, <1>9, <2>1, <2>2, <3>1 DEF Targets
  <2> QED
    BY <1>1, <1>9, <2>1, <2>3 DEF DecodingInv
<1> QED
  BY <1>10, <1>11

\* What a value that is not a reference is shown as.
LEMMA ShownIs ==
  ASSUME NEW v \in Values, v.type # "reference"
  PROVE  \E items \in Seq(Jsons) :
           /\ Len(items) = Len(v.items)
           /\ \A i \in 1 .. Len(v.items) : items[i] = J(v.items[i])
           /\ Shown[v] =
                [type |-> v.type,
                 json |-> [json |-> IF v.type = "vector" THEN "array"
                                    ELSE IF v.type \in {"struct", "closure"} THEN "object"
                                    ELSE v.type,
                           items |-> items]]
<1>1. v.items \in Seq(Values)
  BY ValueAssumption
<1>2. PICK n \in Nat : n = Len(v.items) /\ DOMAIN v.items = 1 .. n
  BY <1>1, LenProperties
<1>3. \A i \in 1 .. n : v.items[i] \in Values
  BY <1>1, <1>2, ElementOfSeq
<1> DEFINE items == [i \in 1 .. n |-> Shown[v.items[i]].json]
<1>4. items \in [1 .. n -> Jsons]
  BY <1>3 DEF J, Jsons
<1>5. items \in Seq(Jsons) /\ Len(items) = n
  BY <1>4, LenProperties, SeqDef
<1>6. \A i \in 1 .. n : items[i] = J(v.items[i])
  BY DEF J
<1>7. Shown[v] =
        [type |-> v.type,
         json |-> [json |-> CASE v.type = "vector" -> "array"
                              [] v.type \in {"struct", "closure"} -> "object"
                              [] OTHER -> v.type,
                   items |-> items]]
  BY <1>2, ShownAssumption
<1> HIDE DEF items
<1>8. (CASE v.type = "vector" -> "array"
         [] v.type \in {"struct", "closure"} -> "object"
         [] OTHER -> v.type)
      = IF v.type = "vector" THEN "array"
        ELSE IF v.type \in {"struct", "closure"} THEN "object" ELSE v.type
  OBVIOUS
<1> QED
  BY <1>2, <1>5, <1>6, <1>7, <1>8

LEMMA LeafDecodes ==
  ASSUME DecodingInv, VisitLeaf
  PROVE  DecodingInv'
<1>1. PICK type \in Leaves :
        /\ Visiting(type) /\ SetType(type) /\ Add(LeafJson(type))
        /\ unvisited' = Resumed(Passed) /\ UNCHANGED <<value, decoded>>
  BY DEF VisitLeaf
<1>2. unvisited # <<>> /\ Part.type = type /\ decoded = Nothing
  BY <1>1 DEF Visiting
<1>3. JsonInv
  BY DEF DecodingInv
<1>4. Part \in Values /\ PassedAt(Passed, Len(unvisited))
  BY <1>2, <1>3, InWalk, PassedIs
<1>5. /\ type # "reference" /\ type \notin {"struct", "closure", "vector"} /\ type # Nothing
      /\ Part.items = <<>>
  BY <1>2, <1>4, LeafAssumption, ValueAssumption DEF Containers
<1>6. PICK items \in Seq(Jsons) :
        /\ Len(items) = 0
        /\ Shown[Part] = [type |-> type, json |-> [json |-> type, items |-> items]]
  BY <1>2, <1>4, <1>5, ShownIs
<1>7. Shown[Part] = [type |-> type, json |-> LeafJson(type)]
  BY <1>6, EmptySeq DEF LeafJson
<1> QED
  BY <1>1, <1>2, <1>4, <1>5, <1>7, AddDecodes

LEMMA OpenedDecodes ==
  ASSUME DecodingInv, unvisited # <<>>, decoded = Nothing, UNCHANGED <<value, decoded>>,
         NEW kind \in Containers, Part.type = kind, SetType(kind),
         NEW items \in Seq(Values), items = Part.items, items # <<>>, NEW frame,
         frame = [kind |-> kind, items |-> <<>>, remaining |-> Len(items)],
         stack' = Append(stack, frame), root' = root, unvisited' = Append(Passed, items)
  PROVE  DecodingInv'
<1>1. JsonInv
  BY DEF DecodingInv
<1>2. JsonInv'
  BY <1>1, OpenedMatches
<1>3. PICK T : Targets(T)
  BY DEF DecodingInv
<1>4. PICK m \in Nat : m = Len(stack) /\ Len(unvisited) = m + 1 /\ stack \in Seq(ToSet(stack))
  BY <1>1, InWalk DEF JsonInv
<1>5. /\ Passed \in Seq(Seq(Values)) /\ Len(Passed) = m + 1
      /\ PassedAt(Passed, Len(unvisited)) /\ Part \in Values
  BY <1>1, <1>4, PassedIs, InWalk
<1>6. /\ Len(unvisited') = (m + 1) + 1 /\ unvisited'[(m + 1) + 1] = items
      /\ \A i \in 1 .. m + 1 : unvisited'[i] = Passed[i]
  BY <1>5, AppendProperties
<1>7. Len(stack') = m + 1 /\ stack'[m + 1] = frame /\ \A i \in 1 .. m : stack'[i] = stack[i]
  <2> DEFINE S == ToSet(stack) \cup {frame}
  <2>1. stack \in Seq(S)
    BY <1>4, SeqMonotonic
  <2>2. frame \in S
    OBVIOUS
  <2> HIDE DEF S
  <2> QED
    BY <1>4, <2>1, <2>2, AppendProperties
<1>8. PICK shown \in Seq(Jsons) :
        /\ Len(shown) = Len(items) /\ \A i \in 1 .. Len(items) : shown[i] = J(items[i])
        /\ Shown[Part] =
             [type |-> kind,
              json |-> [json |-> IF kind = "vector" THEN "array" ELSE "object", items |-> shown]]
  <2>1. kind # "reference" /\ (kind # "vector" => kind \in {"struct", "closure"})
    BY DEF Containers
  <2> QED
    BY <1>5, <2>1, ShownIs
<1>9. /\ J(Part).items = shown
      /\ J(Part) = IntoJson([kind |-> kind, items |-> shown])
  BY <1>8 DEF J, IntoJson
<1>10. PICK U : U[m + 1] = J(Part) /\ \A i \in 1 .. m : U[i] = T[i]
  <2> DEFINE u == [i \in 1 .. m + 1 |-> IF i = m + 1 THEN J(Part) ELSE T[i]]
  <2>1. u[m + 1] = J(Part) /\ \A i \in 1 .. m : u[i] = T[i]
    OBVIOUS
  <2> HIDE DEF u
  <2> QED
    BY <2>1
<1>11. Becomes(U, m + 1)'
  <2>1. Len(items) \in Nat /\ Len(frame.items) = 0 /\ frame.items \in Seq(Jsons)
    BY LenProperties, EmptySeq
  <2>2. U[m + 1].items = shown /\ stack'[m + 1].items = <<>> /\ stack'[m + 1].kind = kind
    BY <1>7, <1>9, <1>10
  <2>3. Len(shown) = Len(stack'[m + 1].items) + stack'[m + 1].remaining
    BY <1>7, <1>8, <2>1
  <2>4. ~ m + 1 < Len(stack')
    BY <1>7
  <2>5. \A j \in 1 .. Len(items) : shown[Len(shown) - Len(items) + j] = J(items[j])
    <3>1. \A j \in 1 .. Len(items) : Len(items) - Len(items) + j = j
      BY <2>1
    <3> QED
      BY <1>8, <3>1
  <2>6. stack'[m + 1].items \in Seq(Jsons) /\ Len(stack'[m + 1].items) = 0
    BY <1>7, <2>1
  <2>7. \A j \in 1 .. Len(stack'[m + 1].items) : U[m + 1].items[j] = stack'[m + 1].items[j]
    <3>1. ~ \E j : j \in 1 .. 0
      OBVIOUS
    <3> QED
      BY <2>6, <3>1
  <2>8. U[m + 1] = IntoJson([kind |-> stack'[m + 1].kind, items |-> U[m + 1].items])
    BY <1>9, <1>10, <2>2
  <2>9. \A j \in 1 .. Len(unvisited'[(m + 1) + 1]) :
          U[m + 1].items[Len(U[m + 1].items) - Len(unvisited'[(m + 1) + 1]) + j]
            = J(unvisited'[(m + 1) + 1][j])
    BY <1>6, <2>2, <2>5
  <2>10. U[m + 1].items \in Seq(Jsons)
         /\ Len(U[m + 1].items) = Len(stack'[m + 1].items) + stack'[m + 1].remaining
    BY <2>2, <2>3
  <2> QED
    BY <2>4, <2>6, <2>7, <2>8, <2>9, <2>10 DEF Becomes, J, Jsons
<1>12. ASSUME NEW i \in 1 .. m
       PROVE  Becomes(U, i)'
  <2>1. Becomes(T, i) /\ i \in 1 .. Len(stack)
    BY <1>3, <1>4 DEF Targets
  <2>2. /\ T[i] = IntoJson([kind |-> stack[i].kind, items |-> T[i].items])
        /\ T[i].items \in Seq(Jsons) /\ stack[i].items \in Seq(Jsons)
        /\ Len(T[i].items) = Len(stack[i].items) + stack[i].remaining
        /\ \A j \in 1 .. Len(stack[i].items) : T[i].items[j] = stack[i].items[j]
    BY <2>1 DEF Becomes
  <2>3. T[i].items[Len(stack[i].items) + 1] = U[i + 1]
    <3>1. T[i].items[Len(stack[i].items) + 1] = IF i = m THEN J(Part) ELSE T[i + 1]
      BY <1>1, <1>4, <2>1, NextItem
    <3>2. i # m => i + 1 \in 1 .. m
      BY <1>4
    <3> QED
      BY <1>10, <3>1, <3>2
  <2>4. \A j \in 1 .. Len(Passed[i + 1]) :
          T[i].items[Len(T[i].items) - Len(Passed[i + 1]) + j] = J(Passed[i + 1][j])
    BY <1>1, <1>5, <2>1, RestShown
  <2>5. stack'[i] = stack[i] /\ U[i] = T[i] /\ unvisited'[i + 1] = Passed[i + 1]
    <3>1. i + 1 \in 1 .. m + 1
      BY <1>4
    <3> QED
      BY <1>6, <1>7, <1>10, <3>1
  <2>6. /\ U[i] = IntoJson([kind |-> stack'[i].kind, items |-> U[i].items])
        /\ U[i].items \in Seq(Jsons) /\ stack'[i].items \in Seq(Jsons)
        /\ Len(U[i].items) = Len(stack'[i].items) + stack'[i].remaining
        /\ \A j \in 1 .. Len(stack'[i].items) : U[i].items[j] = stack'[i].items[j]
        /\ U[i].items[Len(stack'[i].items) + 1] = U[i + 1]
    BY <2>2, <2>3, <2>5
  <2>7. \A j \in 1 .. Len(unvisited'[i + 1]) :
          U[i].items[Len(U[i].items) - Len(unvisited'[i + 1]) + j] = J(unvisited'[i + 1][j])
    BY <2>4, <2>5
  <2> QED
    BY <2>6, <2>7 DEF Becomes, J, Jsons
<1>13. Shown[value] = [type |-> firstType', json |-> U[1]] /\ firstType' # Nothing
  <2>1. kind # Nothing
    BY LeafAssumption
  <2>2. CASE m = 0
    <3>1. m + 1 = 1 /\ Shown[value] = Shown[Part] /\ firstType = Nothing
      BY <1>3, <1>4, <2>2 DEF Targets
    <3> QED
      BY <1>8, <1>10, <2>1, <3>1 DEF J, SetType
  <2>3. CASE m # 0
    <3>1. 1 \in 1 .. m /\ Shown[value] = [type |-> firstType, json |-> T[1]] /\ firstType # Nothing
      BY <1>3, <1>4, <2>3 DEF Targets
    <3> QED
      BY <1>10, <3>1 DEF SetType
  <2> QED
    BY <2>2, <2>3
<1>14. Targets(U)'
  <2>1. \A i \in 1 .. m + 1 : i = m + 1 \/ i \in 1 .. m
    BY <1>4
  <2>2. \A i \in 1 .. Len(stack') : Becomes(U, i)'
    BY <1>7, <1>11, <1>12, <2>1
  <2>3. Len(stack') # 0
    BY <1>4, <1>7
  <2>4. value' = value
    OBVIOUS
  <2> QED
    BY <1>13, <2>2, <2>3, <2>4 DEF Targets
<1>15. unvisited' # <<>> /\ value' \in Values /\ DecodesTheValue'
  <2>1. Len(unvisited') # 0
    BY <1>4, <1>6
  <2> QED
    BY <2>1, EmptySeq DEF DecodingInv, DecodesTheValue
<1> QED
  BY <1>2, <1>14, <1>15 DEF DecodingInv

LEMMA ContainerDecodes ==
  ASSUME DecodingInv, VisitContainer
  PROVE  DecodingInv'
<1>1. JsonInv
  BY DEF DecodingInv
<1>2. PICK kind, items, frame :
        /\ kind \in Containers /\ items \in Seq(Values)
        /\ frame = [kind |-> kind, items |-> <<>>, remaining |-> Len(items)]
        /\ Visiting(kind) /\ SetType(kind) /\ UNCHANGED <<value, decoded>>
        /\ items = Part.items
        /\ items = <<>> => /\ PassedAt(Append(Passed, items), Len(unvisited))
                          /\ Add(IntoJson(frame))
                          /\ unvisited' = Resumed(Append(Passed, items))
        /\ items # <<>> => /\ stack' = Append(stack, frame) /\ root' = root
                           /\ unvisited' = Append(Passed, items)
  BY <1>1, ContainerIs
<1>3. unvisited # <<>> /\ decoded = Nothing /\ Part.type = kind
  BY <1>2 DEF Visiting
<1>4. CASE items = <<>>
  <2>1. /\ kind # "reference" /\ (kind # "vector" => kind \in {"struct", "closure"})
        /\ kind # Nothing /\ Len(items) = 0 /\ Part \in Values
    <3>1. kind \in Containers
      BY <1>2
    <3>2. kind # "reference" /\ (kind # "vector" => kind \in {"struct", "closure"})
      BY <3>1 DEF Containers
    <3>3. kind # Nothing
      BY <3>1, LeafAssumption DEF Containers
    <3>4. Part \in Values
      BY <1>1, <1>3, InWalk
    <3>5. Len(items) = 0
      BY <1>4, EmptySeq
    <3> QED
      BY <3>2, <3>3, <3>4, <3>5
  <2>2. PICK shown \in Seq(Jsons) :
          /\ Len(shown) = 0
          /\ Shown[Part] =
               [type |-> kind,
                json |-> [json |-> IF kind = "vector" THEN "array" ELSE "object", items |-> shown]]
    BY <1>2, <1>3, <2>1, ShownIs
  <2>3. Shown[Part] = [type |-> kind, json |-> IntoJson(frame)]
    BY <1>2, <2>2, EmptySeq DEF IntoJson
  <2> QED
    BY <1>2, <1>3, <1>4, <2>1, <2>3, AddDecodes
<1>5. CASE items # <<>>
  BY <1>2, <1>3, <1>5, OpenedDecodes
<1> QED
  BY <1>4, <1>5

LEMMA RefDecodes ==
  ASSUME DecodingInv, VisitRef
  PROVE  DecodingInv'
<1>1. JsonInv /\ JsonInv'
  BY RefMatches DEF DecodingInv
<1>2. unvisited # <<>> /\ decoded = Nothing /\ UNCHANGED <<value, stack, root, firstType, decoded>>
  BY DEF VisitRef, Visiting
<1>3. PICK T : Targets(T)
  BY <1>2 DEF DecodingInv
<1>4. PICK n \in Nat \ {0} :
        /\ n = Len(unvisited) /\ Len(unvisited') = n
        /\ \A i \in 1 .. n : i # n => unvisited'[i] = unvisited[i]
        /\ Len(unvisited'[n]) = Len(unvisited[n])
        /\ Shown[unvisited'[n][1]] = Shown[Part]
        /\ \A j \in 2 .. Len(unvisited[n]) : unvisited'[n][j] = unvisited[n][j]
  <2>1. PICK n \in Nat \ {0} : n = Len(unvisited)
    BY <1>1, <1>2, InWalk
  <2> QED
    BY <1>1, <2>1, RefShape
<1>5. PICK m \in Nat : m = Len(stack) /\ n = m + 1
  BY <1>1, <1>2, <1>4, InWalk
<1>6. Part = unvisited[n][1] /\ Part' = unvisited'[n][1]
  BY <1>4 DEF Part, Last
<1>7. ASSUME NEW i \in 1 .. n
      PROVE  /\ Len(unvisited'[i]) = Len(unvisited[i])
             /\ \A j \in 1 .. Len(unvisited[i]) : J(unvisited'[i][j]) = J(unvisited[i][j])
  <2>1. CASE i # n
    BY <1>4, <2>1
  <2>2. CASE i = n
    <3>1. PICK l \in Nat : l = Len(unvisited[n])
      BY <1>1, <1>2, <1>4, <2>2, InWalk
    <3>2. \A j \in 1 .. l : j = 1 \/ j \in 2 .. l
      OBVIOUS
    <3>3. J(unvisited'[n][1]) = J(unvisited[n][1])
      BY <1>4, <1>6 DEF J
    <3> QED
      BY <1>4, <2>2, <3>1, <3>2, <3>3
  <2> QED
    BY <2>1, <2>2
<1>8. ASSUME NEW i \in 1 .. m
      PROVE  Becomes(T, i)'
  <2>1. Becomes(T, i) /\ i + 1 \in 1 .. n
    BY <1>3, <1>5 DEF Targets
  <2>2. /\ T[i] = IntoJson([kind |-> stack[i].kind, items |-> T[i].items])
        /\ T[i].items \in Seq(Jsons) /\ stack[i].items \in Seq(Jsons)
        /\ Len(T[i].items) = Len(stack[i].items) + stack[i].remaining
        /\ \A j \in 1 .. Len(stack[i].items) : T[i].items[j] = stack[i].items[j]
        /\ i < Len(stack) => T[i].items[Len(stack[i].items) + 1] = T[i + 1]
        /\ \A j \in 1 .. Len(unvisited[i + 1]) :
             T[i].items[Len(T[i].items) - Len(unvisited[i + 1]) + j] = J(unvisited[i + 1][j])
    BY <2>1 DEF Becomes
  <2>3. \A j \in 1 .. Len(unvisited'[i + 1]) :
          T[i].items[Len(T[i].items) - Len(unvisited'[i + 1]) + j] = J(unvisited'[i + 1][j])
    BY <1>7, <2>1, <2>2
  <2>4. stack' = stack
    BY <1>2
  <2> QED
    BY <2>2, <2>3, <2>4 DEF Becomes, J, Jsons
<1>9. Targets(T)'
  <2>1. \A i \in 1 .. Len(stack') : Becomes(T, i)'
    BY <1>2, <1>5, <1>8
  <2>2. Shown[Part'] = Shown[Part]
    BY <1>4, <1>6
  <2> QED
    BY <1>2, <1>3, <2>1, <2>2 DEF Targets
<1>10. unvisited' # <<>> /\ value' \in Values /\ DecodesTheValue'
  BY <1>2, <1>4, EmptySeq DEF DecodingInv, DecodesTheValue
<1> QED
  BY <1>1, <1>9, <1>10 DEF DecodingInv

LEMMA InitDecoding == Init => DecodingInv
<1> SUFFICES ASSUME Init PROVE DecodingInv
  OBVIOUS
<1>1. /\ unvisited = <<<<value>>>> /\ stack = <<>> /\ firstType = Nothing /\ value \in Values
      /\ decoded = Nothing
  BY DEF Init
<1>2. Part = value /\ Len(stack) = 0 /\ unvisited # <<>>
  BY <1>1 DEF Part, Last
<1>3. Targets(<<>>)
  BY <1>1, <1>2 DEF Targets
<1> QED
  BY <1>1, <1>2, <1>3, InitJsonInv DEF DecodingInv, DecodesTheValue

LEMMA NextDecoding == DecodingInv /\ [Next]_vars => DecodingInv'
<1> SUFFICES ASSUME DecodingInv, [Next]_vars PROVE DecodingInv'
  OBVIOUS
<1>1. JsonInv'
  BY NextJsonInv DEF DecodingInv
<1>2. CASE UNCHANGED <<value, unvisited, stack, root, firstType>> /\ DecodesTheValue'
  <2>1. ASSUME NEW T, Targets(T) PROVE Targets(T)'
    <3>1. Part' = Part
      BY <1>2 DEF Part
    <3> QED
      BY <1>2, <2>1, <3>1 DEF Targets, Becomes, J, Jsons
  <2> QED
    BY <1>1, <1>2, <2>1 DEF DecodingInv
<1>3. VisitFails => UNCHANGED <<value, unvisited, stack, root, firstType>> /\ DecodesTheValue'
  BY DEF VisitFails, DecodesTheValue
<1>4. Decode => UNCHANGED <<value, unvisited, stack, root, firstType>> /\ DecodesTheValue'
  BY DEF Decode, DecodesTheValue, DecodingInv
<1>5. Over \/ UNCHANGED vars =>
        UNCHANGED <<value, unvisited, stack, root, firstType>> /\ DecodesTheValue'
  BY DEF Over, vars, DecodesTheValue, DecodingInv
<1> QED
  BY <1>2, <1>3, <1>4, <1>5, LeafDecodes, ContainerDecodes, RefDecodes DEF Next

\* JsonBuilder and decode_value give every value, whatever its width and depth, the
\* type and the JSON that it should be shown with, or nothing when the walk fails.
THEOREM ValuesAreDecoded == Spec => []DecodesTheValue
<1>1. DecodingInv => DecodesTheValue
  BY DEF DecodingInv
<1> QED
  BY <1>1, InitDecoding, NextDecoding, PTL DEF Spec

=============================================================================
