------------------------------ MODULE TracerProofs ------------------------------
(***************************************************************************)
(* The tracer's tree is the VM's, for any functions, entries and natives,  *)
(* any budget and any number of calls.                                     *)
(*                                                                         *)
(* The meter is told of charges and of Move returns only.  What it shows   *)
(* follows from StackInv: while the VM is in an entry its frames are the   *)
(* VM's calls, and whatever was called after a frame was pushed was called *)
(* from within it.  A lemma for each callback (...Step) says what it       *)
(* changes; the invariant of each property has a lemma for each way a step *)
(* may change what it speaks of; NextTracerInv puts them together.         *)
(***************************************************************************)
EXTENDS Tracer, Integers, SequenceTheorems, WellFoundedInduction, TLAPS

-----------------------------------------------------------------------------
(* What the invariants are about.                                          *)

Nodes ==
  [kind : {"function", "native"}, function : Functions, ret : Returns \cup {None, <<Unit>>},
   self : Nat, native : Nat, events : Seq(Nat), storage : Seq(StorageOps), children : Seq(Nat)]

\* The tree is that of the execution: what a discarded transaction's response has
\* instead is a stub.
Telling == frames # <<>> \/ status # "Discarded"

\* The frames are a path from the root, in the order of the calls, along which the
\* VM called; what was called after one of them was called from within it.
PathInv ==
  /\ frames # <<>> => frames[1] = 1
  /\ \A j, k \in DOMAIN frames : j < k => frames[j] < frames[k]
  /\ \A k \in DOMAIN frames : k > 1 => CalledBy[frames[k]] = frames[k - 1]
  /\ \A k \in DOMAIN frames, i \in 2 .. Len(nodes) : frames[k] < i => frames[k] <= CalledBy[i]

StackInv ==
  /\ TypeOK
  /\ nodes # <<>> /\ nodes[1].function = Root
  /\ Telling => /\ Len(CalledBy) = Len(nodes) /\ Len(spent) = Len(nodes)
                /\ Len(performed) = Len(nodes)
  /\ FramesFollowVm
  /\ PathInv

\* A call and its frame.
LEMMA ShownSeq ==
  ASSUME NEW s \in Seq(Nat)
  PROVE  /\ Shown(s) \in Seq(Nat) /\ Len(Shown(s)) = Len(s) /\ Len(s) \in Nat
         /\ DOMAIN Shown(s) = 1 .. Len(s) /\ DOMAIN s = 1 .. Len(s)
         /\ \A k \in 1 .. Len(s) : s[k] \in Nat /\ Shown(s)[k] = ShownAs(s[k])
         /\ Shown(s) = <<>> <=> s = <<>>
<1>1. Len(s) \in Nat /\ DOMAIN s = 1 .. Len(s) /\ \A k \in 1 .. Len(s) : s[k] \in Nat
  BY LenProperties, ElementOfSeq
<1>2. Shown(s) = [k \in 1 .. Len(s) |-> ShownAs(s[k])]
  BY <1>1 DEF Shown
<1>3. \A k \in 1 .. Len(s) : ShownAs(s[k]) \in Nat
  BY <1>1 DEF ShownAs
<1>4. Shown(s) \in Seq(Nat) /\ Len(Shown(s)) = Len(s)
  BY <1>1, <1>2, <1>3
<1> QED
  BY <1>1, <1>2, <1>4, EmptySeq

LEMMA ShownAppend ==
  ASSUME NEW s \in Seq(Nat), NEW x \in Nat
  PROVE  Shown(Append(s, x)) = Append(Shown(s), ShownAs(x))
<1>1. Append(s, x) \in Seq(Nat) /\ Len(Append(s, x)) = Len(s) + 1 /\ ShownAs(x) \in Nat
      /\ Append(s, x)[Len(s) + 1] = x /\ \A k \in 1 .. Len(s) : Append(s, x)[k] = s[k]
  BY AppendProperties DEF ShownAs
<1>2. Append(Shown(s), ShownAs(x)) \in Seq(Nat)
      /\ Len(Append(Shown(s), ShownAs(x))) = Len(s) + 1
      /\ Append(Shown(s), ShownAs(x))[Len(s) + 1] = ShownAs(x)
      /\ \A k \in 1 .. Len(s) : Append(Shown(s), ShownAs(x))[k] = Shown(s)[k]
  <2>1. PICK t \in Seq(Nat) : t = Shown(s) /\ Len(t) = Len(s)
    BY ShownSeq
  <2>2. PICK y \in Nat : y = ShownAs(x)
    BY <1>1
  <2>3. /\ Append(t, y) \in Seq(Nat) /\ Len(Append(t, y)) = Len(t) + 1
        /\ Append(t, y)[Len(t) + 1] = y /\ \A k \in 1 .. Len(t) : Append(t, y)[k] = t[k]
    BY AppendProperties
  <2> QED
    BY <2>1, <2>2, <2>3
<1>3. Shown(Append(s, x)) \in Seq(Nat) /\ Len(Shown(Append(s, x))) = Len(s) + 1
      /\ \A k \in 1 .. Len(s) + 1 : Shown(Append(s, x))[k] = ShownAs(Append(s, x)[k])
  BY <1>1, ShownSeq
<1>4. \A k \in 1 .. Len(s) : Shown(s)[k] = ShownAs(s[k])
  BY ShownSeq
<1>5. \A k \in 1 .. Len(s) + 1 : Shown(Append(s, x))[k] = Append(Shown(s), ShownAs(x))[k]
  BY <1>1, <1>2, <1>3, <1>4, ShownSeq
<1> QED
  BY <1>2, <1>3, <1>5, SeqEqual

LEMMA Fronts ==
  ASSUME NEW s \in Seq(Nat), Len(s) # 0
  PROVE  /\ Front(s) \in Seq(Nat) /\ Len(Front(s)) = Len(s) - 1
         /\ \A k \in 1 .. Len(s) - 1 : Front(s)[k] = s[k]
<1>1. Len(s) \in Nat /\ \A k \in 1 .. Len(s) : s[k] \in Nat
  <2>1. Len(s) \in Nat
    BY LenProperties
  <2>2. \A k \in 1 .. Len(s) : s[k] \in Nat
    BY ElementOfSeq
  <2> QED
    BY <2>1, <2>2
<1>2. PICK m \in Nat : m = Len(s) - 1
  BY <1>1
<1>3. \A k \in 1 .. m : s[k] \in Nat
  BY <1>1, <1>2
<1>4. SubSeq(s, 1, m) \in Seq(Nat) /\ Len(SubSeq(s, 1, m)) = m
      /\ \A k \in 1 .. m : SubSeq(s, 1, m)[k] = s[k]
  <2>1. 1 \in Int /\ m \in Int
    BY <1>2
  <2>2. /\ SubSeq(s, 1, m) \in Seq(Nat)
        /\ Len(SubSeq(s, 1, m)) = IF 1 <= m THEN m - 1 + 1 ELSE 0
        /\ \A k \in 1 .. m - 1 + 1 : SubSeq(s, 1, m)[k] = s[1 + k - 1]
    BY ONLY <1>3, <2>1, SubSeqProperties
  <2>3. m - 1 + 1 = m /\ (IF 1 <= m THEN m - 1 + 1 ELSE 0) = m
        /\ \A k \in 1 .. m : 1 + k - 1 = k
    BY ONLY <1>2
  <2> QED
    BY ONLY <2>2, <2>3
<1> QED
  BY <1>2, <1>4 DEF Front

LEMMA ShownFront ==
  ASSUME NEW s \in Seq(Nat), s # <<>>
  PROVE  /\ Front(s) \in Seq(Nat) /\ Shown(Front(s)) = Front(Shown(s))
         /\ Last(s) \in Nat /\ Last(Shown(s)) = ShownAs(Last(s))
<1>1. Len(s) \in Nat \ {0} /\ \A k \in 1 .. Len(s) : s[k] \in Nat
  BY ShownSeq, EmptySeq
<1>2. Front(s) \in Seq(Nat) /\ Len(Front(s)) = Len(s) - 1
      /\ \A k \in 1 .. Len(s) - 1 : Front(s)[k] = s[k]
  BY <1>1, Fronts
<1>3. Shown(s) \in Seq(Nat) /\ Len(Shown(s)) = Len(s)
      /\ \A k \in 1 .. Len(s) : Shown(s)[k] = ShownAs(s[k]) /\ Shown(s)[k] \in Nat
  BY <1>1, ShownSeq DEF ShownAs
<1>4. Front(Shown(s)) \in Seq(Nat) /\ Len(Front(Shown(s))) = Len(s) - 1
      /\ \A k \in 1 .. Len(s) - 1 : Front(Shown(s))[k] = Shown(s)[k]
  BY <1>1, <1>3, Fronts
<1>5. Shown(Front(s)) \in Seq(Nat) /\ Len(Shown(Front(s))) = Len(s) - 1
      /\ \A k \in 1 .. Len(s) - 1 : Shown(Front(s))[k] = ShownAs(Front(s)[k])
  BY <1>2, ShownSeq
<1>6. \A k \in 1 .. Len(s) - 1 : Shown(Front(s))[k] = Front(Shown(s))[k]
  BY <1>1, <1>2, <1>3, <1>4, <1>5
<1>7. Shown(Front(s)) = Front(Shown(s))
  BY <1>4, <1>5, <1>6, SeqEqual
<1>8. Last(s) = s[Len(s)] /\ Last(Shown(s)) = Shown(s)[Len(s)] /\ Len(s) \in 1 .. Len(s)
  BY <1>1, <1>3 DEF Last
<1> QED
  BY <1>1, <1>2, <1>3, <1>7, <1>8

\* What is left alone is shown as it was.
LEMMA Unmoved ==
  /\ running' = running => Open' = Open
  /\ caller' = caller => CalledBy' = CalledBy
  /\ emitters' = emitters => Emitting' = Emitting
BY DEF Open, CalledBy, Emitting

LEMMA EmittedAppend ==
  ASSUME running \in Seq(Nat), emitters \in Seq(Seq(Nat)), emitters' = Append(emitters, running)
  PROVE  /\ emitters' \in Seq(Seq(Nat)) /\ Emitting' = Append(Emitting, Open)
         /\ Len(Emitting) + 1 \in Nat
<1> DEFINE S == Seq(Nat)
<1>1. PICK n \in Nat : n = Len(emitters) /\ DOMAIN emitters = 1 .. n
  BY LenProperties
<1>2. running \in S /\ emitters \in Seq(S)
  OBVIOUS
<1> HIDE DEF S
<1>3. /\ emitters' \in Seq(S) /\ Len(emitters') = n + 1
      /\ emitters'[n + 1] = running /\ \A k \in 1 .. n : emitters'[k] = emitters[k]
  BY <1>1, <1>2, AppendProperties
<1>4. DOMAIN emitters' = 1 .. n + 1
  BY <1>3, LenProperties
<1>5. Emitting' = [e \in 1 .. n + 1 |-> Shown(emitters'[e])]
  BY <1>4 DEF Emitting
<1>6. Emitting = [e \in 1 .. n |-> Shown(emitters[e])]
  BY <1>1 DEF Emitting
<1>7. \A e \in 1 .. n : emitters[e] \in Seq(Nat)
  BY <1>1, ElementOfSeq
<1>8. \A e \in 1 .. n : Shown(emitters[e]) \in S
  BY <1>7, ShownSeq DEF S
<1>9. Open \in S
  BY ShownSeq DEF Open, S
<1>10. Emitting \in Seq(S) /\ Len(Emitting) = n
  BY <1>6, <1>8
<1>11. /\ Append(Emitting, Open) \in Seq(S) /\ Len(Append(Emitting, Open)) = n + 1
       /\ Append(Emitting, Open)[n + 1] = Open
       /\ \A k \in 1 .. n : Append(Emitting, Open)[k] = Emitting[k]
  BY <1>9, <1>10, AppendProperties
<1>12. \A k \in 1 .. n : Emitting'[k] = Emitting[k]
  <2>1. SUFFICES ASSUME NEW k \in 1 .. n PROVE Emitting'[k] = Emitting[k]
    OBVIOUS
  <2>2. k \in 1 .. n + 1 /\ emitters'[k] = emitters[k]
    BY <1>3
  <2>3. Emitting'[k] = Shown(emitters'[k])
    BY <1>5, <2>2
  <2> QED
    BY <1>6, <2>2, <2>3
<1>13. Emitting'[n + 1] = Open
  BY <1>3, <1>5 DEF Open
<1>14. PICK em : em = Emitting'
  OBVIOUS
<1>15. em = [e \in 1 .. n + 1 |-> em[e]] /\ em[n + 1] = Open /\ \A k \in 1 .. n : em[k] = Emitting[k]
  BY <1>5, <1>12, <1>13, <1>14
<1>16. PICK ap \in Seq(S) : ap = Append(Emitting, Open)
  BY <1>11
<1>17. ap = [e \in 1 .. n + 1 |-> ap[e]] /\ ap[n + 1] = Open /\ \A k \in 1 .. n : ap[k] = Emitting[k]
  BY <1>11, <1>16, LenProperties
<1>18. \A k \in 1 .. n + 1 : k = n + 1 \/ k \in 1 .. n
  OBVIOUS
<1>19. \A k \in 1 .. n + 1 : em[k] = ap[k]
  BY <1>15, <1>17, <1>18
<1>20. em = ap
  BY <1>15, <1>17, <1>19
<1> QED
  BY <1>3, <1>10, <1>14, <1>16, <1>20 DEF S

LEMMA OpenTyped ==
  ASSUME TypeOK
  PROVE  /\ Open \in Seq(Nat) /\ Len(Open) = Len(running) /\ running \in Seq(Nat)
         /\ Open = <<>> <=> running = <<>>
         /\ CalledBy \in Seq(Nat) /\ Len(CalledBy) = Len(caller) /\ caller \in Seq(Nat)
         /\ emitters \in Seq(Seq(Nat)) /\ Emitting \in Seq(Seq(Nat))
         /\ Len(Emitting) = Len(emitters) /\ DOMAIN Emitting = DOMAIN emitters
<1>1. running \in Seq(Nat) /\ caller \in Seq(Nat) /\ emitters \in Seq(Seq(Nat))
  BY DEF TypeOK
<1>2. Len(emitters) \in Nat /\ DOMAIN emitters = 1 .. Len(emitters)
      /\ \A e \in 1 .. Len(emitters) : emitters[e] \in Seq(Nat)
  BY <1>1, LenProperties, ElementOfSeq
<1>3. Emitting = [e \in 1 .. Len(emitters) |-> Shown(emitters[e])]
  BY <1>2 DEF Emitting
<1>4. \A e \in 1 .. Len(emitters) : Shown(emitters[e]) \in Seq(Nat)
  BY <1>2, ShownSeq
<1>5. Emitting \in Seq(Seq(Nat)) /\ Len(Emitting) = Len(emitters)
  BY <1>2, <1>3, <1>4
<1> QED
  BY <1>1, <1>2, <1>3, <1>5, ShownSeq DEF Open, CalledBy

LEMMA Typed ==
  ASSUME TypeOK
  PROVE  /\ nodes \in Seq(Nodes) /\ Len(nodes) \in Nat /\ DOMAIN nodes = Calls
         /\ \A i \in Calls : nodes[i] \in Nodes
         /\ frames \in Seq(Calls) /\ Len(frames) \in Nat /\ DOMAIN frames = 1 .. Len(frames)
         /\ \A k \in DOMAIN frames : frames[k] \in Calls
         /\ frames # <<>> => Len(frames) # 0
         /\ CalledBy \in Seq(Nat) /\ Len(CalledBy) \in Nat
         /\ spent \in Seq(Nat) /\ Len(spent) \in Nat
         /\ performed \in Seq(Seq(StorageOps)) /\ Len(performed) \in Nat
<1>1. /\ nodes \in Seq(Nodes) /\ frames \in Seq(Calls) /\ CalledBy \in Seq(Nat)
      /\ spent \in Seq(Nat) /\ performed \in Seq(Seq(StorageOps))
  BY OpenTyped DEF TypeOK, Nodes
<1>2. Len(nodes) \in Nat /\ DOMAIN nodes = Calls /\ \A i \in Calls : nodes[i] \in Nodes
  BY <1>1, LenProperties, ElementOfSeq DEF Calls
<1>3. Len(frames) \in Nat /\ DOMAIN frames = 1 .. Len(frames)
      /\ \A k \in DOMAIN frames : frames[k] \in Calls
  BY <1>1, LenProperties, ElementOfSeq
<1>4. frames # <<>> => Len(frames) # 0
  BY <1>1, EmptySeq
<1> QED
  BY <1>1, <1>2, <1>3, <1>4, LenProperties

\* In an entry, the active frame is the VM's innermost call.
LEMMA OnTop ==
  ASSUME StackInv, status \in {"running", "nativeOut"}
  PROVE  /\ frames # <<>> /\ frames = Open /\ Len(frames) \in Nat \ {0}
         /\ Top = frames[Len(frames)] /\ Active = Top /\ Top \in Calls
         /\ Len(frames) \in DOMAIN frames
<1>1. frames # <<>> /\ frames = Open
  BY DEF StackInv, TypeOK, FramesFollowVm, Outcomes, Failures
<1>2. Len(frames) \in Nat /\ DOMAIN frames = 1 .. Len(frames) /\ Len(frames) # 0
      /\ \A k \in DOMAIN frames : frames[k] \in Calls
  BY <1>1, Typed DEF StackInv
<1>3. Len(frames) \in DOMAIN frames
  BY <1>2
<1>4. Top = frames[Len(frames)] /\ Active = Top
  BY <1>1 DEF Top, Active, Last
<1> QED
  BY <1>1, <1>2, <1>3, <1>4

\* What a charge takes.
LEMMA Charges ==
  ASSUME TypeOK, NEW cost \in Nat
  PROVE  /\ Consumed(cost) \in Nat /\ Consumed(cost) <= cost
         /\ Left(cost) \in 0 .. Budget /\ Left(cost) <= balance
         /\ Pays(cost) => Consumed(cost) = cost
         /\ ~ Pays(cost) => Left(cost) = 0
         /\ balance = 0 => Consumed(cost) = 0
BY GasAssumption DEF TypeOK, Pays, Left, Consumed

LEMMA Endings ==
  /\ \A failure \in Failures : Failing(failure) => status' \in Outcomes \ {"Executed"}
  /\ \A cost : OutOfGas(cost) => status' = status \/ (~ Pays(cost) /\ status' \in Outcomes \ {"Executed"})
BY DEF Failing, OutOfGas, Failures, Outcomes

\* Any numbers have a least one, and a greatest if they are bounded.
LEMMA Least ==
  ASSUME NEW T \in SUBSET Nat, T # {}
  PROVE  \E x \in T : \A y \in T : x <= y
<1> DEFINE R == {ss \in Nat \X Nat : ss[1] < ss[2]}
<1>1. IsWellFoundedOn(R, Nat)
  BY NatLessThanWellFounded DEF OpToRel
<1> HIDE DEF R
<1>2. PICK x \in T : \A y \in T : ~ (<<y, x>> \in R)
  BY <1>1, WFMin
<1>3. ASSUME NEW y \in T PROVE x <= y
  <2>1. x \in Nat /\ y \in Nat /\ ~ (<<y, x>> \in R)
    BY <1>2
  <2>2. <<y, x>> \in Nat \X Nat /\ <<y, x>>[1] = y /\ <<y, x>>[2] = x
    BY <2>1
  <2>3. ~ (y < x)
    BY <2>1, <2>2 DEF R
  <2> QED
    BY <2>1, <2>3
<1> QED
  BY <1>3

LEMMA Greatest ==
  ASSUME NEW n \in Nat, NEW T \in SUBSET (1 .. n), T # {}
  PROVE  \E x \in T : \A y \in T : y <= x
<1> DEFINE U == {m \in Nat : n - m \in T}
<1>1. PICK k \in T : TRUE
  OBVIOUS
<1>2. k \in 1 .. n /\ n - k \in Nat /\ n - (n - k) = k
  OBVIOUS
<1>3. n - k \in U
  BY <1>1, <1>2
<1>4. U \in SUBSET Nat /\ U # {}
  BY <1>3
<1> HIDE DEF U
<1>5. PICK u \in U : \A v \in U : u <= v
  BY <1>4, Least
<1>6. u \in Nat /\ n - u \in T
  BY <1>5 DEF U
<1>7. ASSUME NEW y \in T PROVE y <= n - u
  <2>1. y \in 1 .. n /\ n - y \in Nat /\ n - (n - y) = y
    OBVIOUS
  <2>2. n - y \in U
    BY <2>1 DEF U
  <2>3. u <= n - y
    BY <1>5, <2>2
  <2> QED
    BY <1>6, <2>1, <2>3
<1> QED
  BY <1>6, <1>7

-----------------------------------------------------------------------------
(* Changes of the tree.                                                    *)

LEMMA Edited ==
  ASSUME TypeOK, NEW i \in Calls, NEW n \in Nodes
  PROVE  /\ [nodes EXCEPT ![i] = n] \in Seq(Nodes)
         /\ Len([nodes EXCEPT ![i] = n]) = Len(nodes)
         /\ [nodes EXCEPT ![i] = n][i] = n
         /\ \A j \in Calls : j # i => [nodes EXCEPT ![i] = n][j] = nodes[j]
BY Typed, ExceptSeq DEF Calls

\* pop_into_parent, in a tree with the same calls.
LEMMA PoppedTree ==
  ASSUME TypeOK, frames # <<>>, NEW t \in Seq(Nodes), Len(t) = Len(nodes)
  PROVE  /\ PopIntoParent(t, frames) \in Seq(Nodes)
         /\ Len(PopIntoParent(t, frames)) = Len(nodes)
         /\ \A i \in Calls :
              PopIntoParent(t, frames)[i] =
                IF Len(frames) > 1 /\ i = frames[Len(frames) - 1]
                THEN [t[i] EXCEPT !.children = Append(@, Active)] ELSE t[i]
<1>1. CASE ~ Len(frames) > 1
  BY <1>1 DEF PopIntoParent
<1>2. CASE Len(frames) > 1
  <2> DEFINE p == frames[Len(frames) - 1]
             n == [t[p] EXCEPT !.children = Append(@, Active)]
  <2>1. p \in Calls /\ Active \in Calls
    BY <1>2, Typed DEF Active, Last
  <2>2. p \in 1 .. Len(t) /\ Active \in Nat /\ t[p] \in Nodes
    BY <2>1, ElementOfSeq DEF Calls
  <2>3. Append(t[p].children, Active) \in Seq(Nat)
    BY <2>2, AppendProperties DEF Nodes
  <2>4. n \in Nodes
    BY <2>2, <2>3 DEF Nodes
  <2>5. PopIntoParent(t, frames) = [t EXCEPT ![p] = n]
    BY <1>2 DEF PopIntoParent, Active, Last
  <2> HIDE DEF n
  <2>6. /\ [t EXCEPT ![p] = n] \in Seq(Nodes) /\ Len([t EXCEPT ![p] = n]) = Len(t)
        /\ \A j \in 1 .. Len(t) : [t EXCEPT ![p] = n][j] = IF j = p THEN n ELSE t[j]
    BY <2>2, <2>4, ExceptSeq
  <2> QED
    BY <1>2, <2>5, <2>6 DEF Calls, n
<1> QED
  BY <1>1, <1>2, Typed

LEMMA PoppedFrames ==
  ASSUME TypeOK, frames # <<>>
  PROVE  /\ Popped(frames) \in Seq(Calls) /\ Popped(frames) # <<>>
         /\ Len(Popped(frames)) = IF Len(frames) > 1 THEN Len(frames) - 1 ELSE Len(frames)
         /\ Len(Popped(frames)) \in 1 .. Len(frames)
         /\ DOMAIN Popped(frames) = 1 .. Len(Popped(frames))
         /\ \A k \in DOMAIN Popped(frames) : Popped(frames)[k] = frames[k]
<1>1. frames \in Seq(Calls) /\ Len(frames) \in Nat \ {0} /\ DOMAIN frames = 1 .. Len(frames)
      /\ \A k \in DOMAIN frames : frames[k] \in Calls
  BY Typed
<1>2. CASE ~ Len(frames) > 1
  BY <1>1, <1>2 DEF Popped
<1>3. CASE Len(frames) > 1
  <2>1. Popped(frames) = SubSeq(frames, 1, Len(frames) - 1)
    BY <1>3 DEF Popped, Front
  <2>2. \A k \in 1 .. Len(frames) - 1 : frames[k] \in Calls
    BY <1>1
  <2>3. /\ SubSeq(frames, 1, Len(frames) - 1) \in Seq(Calls)
        /\ Len(SubSeq(frames, 1, Len(frames) - 1)) = Len(frames) - 1
        /\ \A k \in 1 .. Len(frames) - 1 : SubSeq(frames, 1, Len(frames) - 1)[k] = frames[k]
    BY <1>1, <1>3, <2>2, SubSeqProperties
  <2>4. Len(Popped(frames)) # 0
    BY <1>1, <1>3, <2>1, <2>3
  <2>5. Popped(frames) # <<>>
    BY <2>4
  <2> QED
    BY <1>1, <1>3, <2>1, <2>3, <2>5, LenProperties
<1> QED
  BY <1>2, <1>3

-----------------------------------------------------------------------------
(* Steps that keep the calls, and those that make one.                     *)

\* PathInv outlives a step that makes no call and at most pops a frame.
LEMMA PathKept ==
  ASSUME TypeOK, PathInv, frames # <<>>, frames' = frames \/ frames' = Popped(frames),
         Len(nodes') = Len(nodes), caller' = caller
  PROVE  PathInv' /\ frames' # <<>>
<1>1. Len(frames) \in Nat \ {0} /\ DOMAIN frames = 1 .. Len(frames)
  BY Typed
<1>2. PICK n \in 1 .. Len(frames) : DOMAIN frames' = 1 .. n
  <2>1. CASE frames' = frames
    <3>1. Len(frames) \in 1 .. Len(frames) /\ DOMAIN frames' = 1 .. Len(frames)
      BY <1>1, <2>1
    <3> QED
      BY <3>1
  <2>2. CASE frames' = Popped(frames)
    <3> DEFINE m == Len(Popped(frames))
    <3>1. DOMAIN Popped(frames) = 1 .. m /\ m \in 1 .. Len(frames)
      BY PoppedFrames
    <3> HIDE DEF m
    <3>2. DOMAIN frames' = 1 .. m
      BY <2>2, <3>1
    <3> QED
      BY <3>1, <3>2
  <2> QED
    BY <2>1, <2>2
<1>3. frames' # <<>> /\ \A k \in 1 .. n : frames'[k] = frames[k]
  BY <1>2, PoppedFrames
<1> QED
  BY <1>1, <1>2, <1>3, Unmoved DEF PathInv

\* What a step that makes no call has to keep.
Keeps ==
  /\ nodes' \in Seq(Nodes) /\ Len(nodes') = Len(nodes)
  /\ \A i \in Calls : nodes'[i].function = nodes[i].function
  /\ caller' = caller
  /\ frames' = frames \/ frames' = Popped(frames)
  /\ spent' \in Seq(Nat) /\ Len(spent') = Len(spent)
  /\ performed' \in Seq(Seq(StorageOps)) /\ Len(performed') = Len(performed)
  /\ emitters' \in Seq(Seq(Nat)) /\ running' \in Seq(Nat)
  /\ entered' \in 0 .. Len(Entries) /\ balance' \in 0 .. Budget
  /\ rootArgs' \in Seq(Values) /\ abort' = abort

LEMMA StackKept ==
  ASSUME StackInv, frames # <<>>, Keeps, status' \in Going \cup Outcomes, FramesFollowVm'
  PROVE  StackInv'
<1>1. PathInv' /\ frames' # <<>>
  BY PathKept, Unmoved DEF StackInv, Keeps
<1>2. Calls' = Calls /\ frames' \in Seq(Calls)
  BY PoppedFrames, Typed DEF Calls, Keeps, StackInv
<1>3. nodes # <<>> /\ Len(nodes) # 0 /\ 1 \in Calls
  BY Typed, EmptySeq DEF StackInv, Calls
<1>4. nodes' # <<>> /\ nodes'[1].function = Root
  BY <1>3 DEF Keeps, StackInv
<1>5. TypeOK'
  <2>1. frames' \in Seq(Calls') /\ frames' # <<>>
    BY <1>1, <1>2
  <2>2. nodes' \in Seq(Nodes) /\ caller' \in Seq(Nat) /\ abort' \in Seq([function : Functions, offset : BOOLEAN])
    BY DEF StackInv, TypeOK, Keeps
  <2> QED
    BY <2>1, <2>2 DEF TypeOK, Nodes, Keeps
<1>6. Len(CalledBy') = Len(nodes') /\ Len(spent') = Len(nodes') /\ Len(performed') = Len(nodes')
  BY Unmoved DEF Keeps, StackInv, Telling
<1> QED
  BY <1>1, <1>4, <1>5, <1>6 DEF StackInv

-----------------------------------------------------------------------------
(* What each callback changes.                                             *)

ChildrenKept == frames' = frames /\ \A i \in Calls : nodes'[i].children = nodes[i].children

\* The active frame, unless it is the root, becomes a child of the one below.
ChildAdded ==
  /\ frames' = Popped(frames)
  /\ \A i \in Calls :
       nodes'[i].children = IF Len(frames) > 1 /\ i = frames[Len(frames) - 1]
                            THEN Append(nodes[i].children, Active) ELSE nodes[i].children

\* The innermost call shows what it spends.
GasShown(shown, paid) ==
  /\ spent' = [spent EXCEPT ![Top] = @ + paid]
  /\ \A i \in Calls : SelfGas(i)' = IF i = Top THEN SelfGas(i) + shown ELSE SelfGas(i)

GasKept == spent' = spent /\ \A i \in Calls : SelfGas(i)' = SelfGas(i)
RetsKept == \A i \in Calls : nodes'[i].ret = nodes[i].ret
RetsChangeOnTop == \A i \in Calls : i # Top => nodes'[i].ret = nodes[i].ret
EventsKept == emitters' = emitters /\ \A i \in Calls : nodes'[i].events = nodes[i].events
StorageKept ==
  performed' = performed /\ \A i \in Calls : nodes'[i].storage = nodes[i].storage

\* A node is replaced by `n`, but for its function and its children.
LEMMA Replaced ==
  ASSUME TypeOK, NEW i \in Calls, NEW n \in Nodes,
         n.function = nodes[i].function, n.children = nodes[i].children,
         nodes' = [nodes EXCEPT ![i] = n]
  PROVE  /\ nodes' \in Seq(Nodes) /\ Len(nodes') = Len(nodes) /\ nodes'[i] = n
         /\ \A j \in Calls : /\ j # i => nodes'[j] = nodes[j]
                             /\ nodes'[j].function = nodes[j].function
                             /\ nodes'[j].children = nodes[j].children
BY Edited

LEMMA ReplacedAndPopped ==
  ASSUME TypeOK, frames # <<>>, NEW i \in Calls, NEW n \in Nodes,
         n.function = nodes[i].function, n.children = nodes[i].children,
         nodes' = PopIntoParent([nodes EXCEPT ![i] = n], frames), frames' = Popped(frames)
  PROVE  /\ nodes' \in Seq(Nodes) /\ Len(nodes') = Len(nodes) /\ ChildAdded
         /\ \A j \in Calls : nodes'[j].function = nodes[j].function
         /\ nodes'[i].self = n.self /\ nodes'[i].native = n.native /\ nodes'[i].ret = n.ret
         /\ nodes'[i].events = n.events /\ nodes'[i].storage = n.storage
         /\ \A j \in Calls :
              j # i => /\ nodes'[j].self = nodes[j].self /\ nodes'[j].native = nodes[j].native
                       /\ nodes'[j].ret = nodes[j].ret /\ nodes'[j].events = nodes[j].events
                       /\ nodes'[j].storage = nodes[j].storage
<1> DEFINE t == [nodes EXCEPT ![i] = n]
<1>1. /\ t \in Seq(Nodes) /\ Len(t) = Len(nodes) /\ t[i] = n
      /\ \A j \in Calls : j # i => t[j] = nodes[j]
  BY Edited
<1>2. \A j \in Calls : t[j] \in Nodes /\ nodes[j] \in Nodes
  BY <1>1, Typed
<1>3. nodes' = PopIntoParent(t, frames)
  OBVIOUS
<1> HIDE DEF t
<1>4. /\ PopIntoParent(t, frames) \in Seq(Nodes)
      /\ Len(PopIntoParent(t, frames)) = Len(nodes)
      /\ \A j \in Calls :
           PopIntoParent(t, frames)[j] =
             IF Len(frames) > 1 /\ j = frames[Len(frames) - 1]
             THEN [t[j] EXCEPT !.children = Append(@, Active)] ELSE t[j]
  BY <1>1, PoppedTree
<1>5. \A j \in Calls : t[j].children = nodes[j].children /\ t[j].function = nodes[j].function
  BY <1>1
<1>6. ASSUME NEW j \in Calls
      PROVE  /\ nodes'[j].children =
                  IF Len(frames) > 1 /\ j = frames[Len(frames) - 1]
                  THEN Append(nodes[j].children, Active) ELSE nodes[j].children
             /\ nodes'[j].function = t[j].function
             /\ nodes'[j].self = t[j].self /\ nodes'[j].native = t[j].native
             /\ nodes'[j].ret = t[j].ret /\ nodes'[j].events = t[j].events
             /\ nodes'[j].storage = t[j].storage
  <2>1. t[j] \in Nodes /\ t[j].children = nodes[j].children
    BY <1>2, <1>5
  <2>2. CASE Len(frames) > 1 /\ j = frames[Len(frames) - 1]
    <3>1. nodes'[j] = [t[j] EXCEPT !.children = Append(@, Active)]
      BY <1>3, <1>4, <2>2
    <3> QED
      BY <2>1, <2>2, <3>1 DEF Nodes
  <2>3. CASE ~ (Len(frames) > 1 /\ j = frames[Len(frames) - 1])
    <3>1. nodes'[j] = t[j]
      BY <1>3, <1>4, <2>3
    <3> QED
      BY <2>1, <2>3, <3>1
  <2> QED
    BY <2>2, <2>3
<1>7. ChildAdded
  BY <1>6 DEF ChildAdded
<1>8. nodes' \in Seq(Nodes) /\ Len(nodes') = Len(nodes)
  BY <1>3, <1>4
<1>9. ASSUME NEW j \in Calls
      PROVE  nodes'[j].function = nodes[j].function
  <2>1. nodes'[j].function = t[j].function
    BY <1>6
  <2>2. t[j].function = nodes[j].function
    BY <1>5
  <2> QED
    BY <2>1, <2>2
<1>10. t[i] = n /\ \A j \in Calls : j # i => t[j] = nodes[j]
  BY <1>1
<1>11. /\ nodes'[i].self = n.self /\ nodes'[i].native = n.native /\ nodes'[i].ret = n.ret
       /\ nodes'[i].events = n.events /\ nodes'[i].storage = n.storage
  BY <1>6, <1>10
<1>12. ASSUME NEW j \in Calls, j # i
       PROVE  /\ nodes'[j].self = nodes[j].self /\ nodes'[j].native = nodes[j].native
              /\ nodes'[j].ret = nodes[j].ret /\ nodes'[j].events = nodes[j].events
              /\ nodes'[j].storage = nodes[j].storage
  <2>1. t[j] = nodes[j]
    BY <1>10, <1>12
  <2>2. /\ nodes'[j].self = t[j].self /\ nodes'[j].native = t[j].native
        /\ nodes'[j].ret = t[j].ret /\ nodes'[j].events = t[j].events
        /\ nodes'[j].storage = t[j].storage
    BY <1>6
  <2> QED
    BY <2>1, <2>2
<1> QED
  BY <1>7, <1>8, <1>9, <1>11, <1>12

LEMMA Spending ==
  ASSUME StackInv, status \in {"running", "nativeOut"}, NEW c \in Nat
  PROVE  /\ Top \in Calls /\ Top \in 1 .. Len(spent) /\ Top \in 1 .. Len(performed)
         /\ [spent EXCEPT ![Top] = @ + c] \in Seq(Nat)
         /\ Len([spent EXCEPT ![Top] = @ + c]) = Len(spent)
<1>1. Top \in Calls /\ frames # <<>>
  BY OnTop
<1>2. Len(spent) = Len(nodes) /\ Len(performed) = Len(nodes)
  BY <1>1 DEF StackInv, Telling
<1>3. Top \in 1 .. Len(spent) /\ spent \in Seq(Nat)
  BY <1>1, <1>2, Typed DEF Calls, StackInv
<1>4. spent[Top] + c \in Nat
  BY <1>3, ElementOfSeq
<1> QED
  BY <1>1, <1>2, <1>3, <1>4, ExceptSeq DEF Calls

\* A charge leaves the VM in its calls, or ends the execution.
LEMMA Follows ==
  ASSUME StackInv, status \in {"running", "nativeOut"}, UNCHANGED <<frames, running>>,
         status' \in {"running", "nativeOut"} \cup Outcomes
  PROVE  FramesFollowVm' /\ status' \in Going \cup Outcomes
BY OnTop, Unmoved DEF FramesFollowVm, Going, Outcomes, Failures

PlusSelf(node, c) == [node EXCEPT !.self = @ + c]

LEMMA NodeCharged ==
  ASSUME NEW node \in Nodes, NEW c \in Nat
  PROVE  LET n == PlusSelf(node, c)
         IN  /\ n \in Nodes /\ n.function = node.function /\ n.children = node.children
             /\ n.ret = node.ret /\ n.events = node.events /\ n.storage = node.storage
             /\ n.self + n.native = node.self + node.native + c
<1> DEFINE n == PlusSelf(node, c)
<1>1. node.self \in Nat /\ node.native \in Nat /\ node.self + c \in Nat
  BY DEF Nodes
<1>2. n \in Nodes
  BY <1>1 DEF Nodes, PlusSelf
<1>3. /\ n.function = node.function /\ n.children = node.children
      /\ n.ret = node.ret /\ n.events = node.events /\ n.storage = node.storage
      /\ n.self = node.self + c /\ n.native = node.native
  BY DEF Nodes, PlusSelf
<1>4. n.self + n.native = node.self + node.native + c
  BY <1>1, <1>3
<1> QED
  BY <1>2, <1>3, <1>4

LEMMA ChargeActiveStep ==
  ASSUME StackInv, NEW cost \in Costs, ChargeActive(cost)
  PROVE  /\ StackInv' /\ Keeps /\ ChildrenKept /\ GasShown(Consumed(cost), Consumed(cost))
         /\ RetsKept /\ EventsKept /\ StorageKept
<1> DEFINE c == Consumed(cost)
           n == PlusSelf(nodes[Top], c)
<1>1. TypeOK /\ status = "running"
  BY DEF StackInv, ChargeActive, InMove
<1>2. cost \in Nat /\ c \in Nat /\ Left(cost) \in 0 .. Budget
  BY <1>1, Charges, GasAssumption
<1>3. Top \in Calls /\ Active = Top /\ frames # <<>>
  BY <1>1, OnTop
<1>4. nodes[Top] \in Nodes
  BY <1>1, <1>3, Typed
<1>5. nodes' = [nodes EXCEPT ![Top] = n]
  BY <1>3 DEF ChargeActive, Charged, PlusSelf
<1>6. spent' = [spent EXCEPT ![Top] = @ + c] /\ spent' \in Seq(Nat) /\ Len(spent') = Len(spent)
  BY <1>1, <1>2, Spending DEF ChargeActive, Spend
<1> HIDE DEF c
<1>7. /\ n \in Nodes /\ n.function = nodes[Top].function /\ n.children = nodes[Top].children
      /\ n.ret = nodes[Top].ret /\ n.events = nodes[Top].events
      /\ n.storage = nodes[Top].storage
      /\ n.self + n.native = nodes[Top].self + nodes[Top].native + c
  BY <1>2, <1>4, NodeCharged
<1> HIDE DEF n
<1>8. /\ nodes' \in Seq(Nodes) /\ Len(nodes') = Len(nodes) /\ nodes'[Top] = n
      /\ \A j \in Calls : /\ j # Top => nodes'[j] = nodes[j]
                          /\ nodes'[j].function = nodes[j].function
                          /\ nodes'[j].children = nodes[j].children
  BY <1>1, <1>3, <1>5, <1>7, Replaced
<1>9. Keeps
  BY <1>1, <1>2, <1>6, <1>8, Typed DEF Keeps, ChargeActive, TypeOK
<1>10. FramesFollowVm' /\ status' \in Going \cup Outcomes
  BY <1>1, Follows, Endings DEF ChargeActive
<1>11. StackInv'
  BY <1>3, <1>9, <1>10, StackKept
<1>12. ChildrenKept /\ RetsKept /\ EventsKept /\ StorageKept
  BY <1>3, <1>7, <1>8 DEF ChildrenKept, RetsKept, EventsKept, StorageKept, ChargeActive
<1>13. GasShown(c, c)
  BY <1>3, <1>6, <1>7, <1>8 DEF GasShown, SelfGas
<1> QED
  BY <1>9, <1>11, <1>12, <1>13 DEF c

PlusOp(node, op) == [node EXCEPT !.storage = Append(@, op)]

LEMMA NodeNoted ==
  ASSUME NEW node \in Nodes, NEW op \in StorageOps
  PROVE  LET n == PlusOp(node, op)
         IN  /\ n \in Nodes /\ n.function = node.function /\ n.children = node.children
             /\ n.ret = node.ret /\ n.events = node.events
             /\ n.storage = Append(node.storage, op)
             /\ n.self + n.native = node.self + node.native
<1>1. node.storage \in Seq(StorageOps)
  BY DEF Nodes
<1>2. Append(node.storage, op) \in Seq(StorageOps)
  BY <1>1, AppendProperties
<1> QED
  BY <1>2 DEF Nodes, PlusOp

\* A storage operation that is done is noted; one that is not, only when the
\* execution ends with it.
StorageNoted(op) ==
  /\ \A i \in Calls : i # Top => nodes'[i].storage = nodes[i].storage
  /\ \/ /\ performed' = [performed EXCEPT ![Top] = Append(@, op)]
        /\ nodes'[Top].storage = Append(nodes[Top].storage, op)
        /\ status' = status
     \/ /\ performed' = performed
        /\ nodes'[Top].storage \in {nodes[Top].storage, Append(nodes[Top].storage, op)}
        /\ status' \in Failures \cup {"Discarded"}

LEMMA ChargeStorageStep ==
  ASSUME StackInv, NEW cost \in Costs, NEW op \in StorageOps, NEW succeeds \in BOOLEAN,
         ChargeStorage(op, succeeds, cost)
  PROVE  /\ StackInv' /\ Keeps /\ ChildrenKept /\ GasShown(Consumed(cost), Consumed(cost))
         /\ RetsKept /\ EventsKept /\ StorageNoted(op)
<1> DEFINE c == Consumed(cost)
           noted == succeeds \/ op \in {"move_from", "load_resource"}
           done == succeeds \/ op = "load_resource"
           charged == PlusSelf(nodes[Top], c)
           n == IF noted THEN PlusOp(charged, op) ELSE charged
<1>1. TypeOK /\ status = "running"
  BY DEF StackInv, ChargeStorage, InMove
<1>2. cost \in Nat /\ c \in Nat /\ Left(cost) \in 0 .. Budget
  BY <1>1, Charges, GasAssumption
<1>3. Top \in Calls /\ Active = Top /\ frames # <<>>
  BY <1>1, OnTop
<1>4. nodes[Top] \in Nodes
  BY <1>1, <1>3, Typed
<1>5. nodes' = [nodes EXCEPT ![Top] = n]
  <2>1. Charged(cost) = [nodes EXCEPT ![Top] = charged]
    BY <1>3 DEF Charged, PlusSelf
  <2>2. CASE ~ noted
    BY <2>1, <2>2 DEF ChargeStorage
  <2>3. CASE noted
    <3>1. nodes' = [Charged(cost) EXCEPT ![Top].storage = Append(@, op)]
      BY <1>3, <2>3 DEF ChargeStorage
    <3>2. Top \in DOMAIN nodes
      BY <1>1, <1>3, Typed
    <3> QED
      BY <2>1, <2>3, <3>1, <3>2 DEF PlusOp
  <2> QED
    BY <2>2, <2>3
<1>6. spent' = [spent EXCEPT ![Top] = @ + c] /\ spent' \in Seq(Nat) /\ Len(spent') = Len(spent)
  BY <1>1, <1>2, Spending DEF ChargeStorage, Spend
<1>7. /\ performed' = (IF done /\ Pays(cost) THEN [performed EXCEPT ![Top] = Append(@, op)]
                                             ELSE performed)
      /\ IF done THEN OutOfGas(cost) ELSE Failing("ExecutionFailure")
  BY DEF ChargeStorage
<1>8. performed' \in Seq(Seq(StorageOps)) /\ Len(performed') = Len(performed)
  <2>1. performed \in Seq(Seq(StorageOps)) /\ Top \in 1 .. Len(performed)
    BY <1>1, Spending, Typed
  <2>2. Append(performed[Top], op) \in Seq(StorageOps)
    BY <2>1, ElementOfSeq, AppendProperties
  <2>3. /\ [performed EXCEPT ![Top] = Append(@, op)] \in Seq(Seq(StorageOps))
        /\ Len([performed EXCEPT ![Top] = Append(@, op)]) = Len(performed)
    BY <2>1, <2>2, ExceptSeq
  <2> QED
    BY <1>7, <2>1, <2>3
<1> HIDE DEF c
<1>9. /\ charged \in Nodes /\ charged.function = nodes[Top].function
      /\ charged.children = nodes[Top].children
      /\ charged.ret = nodes[Top].ret /\ charged.events = nodes[Top].events
      /\ charged.storage = nodes[Top].storage
      /\ charged.self + charged.native = nodes[Top].self + nodes[Top].native + c
  BY <1>2, <1>4, NodeCharged
<1> HIDE DEF charged
<1>10. /\ n \in Nodes /\ n.function = nodes[Top].function /\ n.children = nodes[Top].children
       /\ n.ret = nodes[Top].ret /\ n.events = nodes[Top].events
       /\ n.storage = IF noted THEN Append(nodes[Top].storage, op) ELSE nodes[Top].storage
       /\ n.self + n.native = nodes[Top].self + nodes[Top].native + c
  <2>1. CASE noted
    <3>1. /\ PlusOp(charged, op) \in Nodes
          /\ PlusOp(charged, op).function = charged.function
          /\ PlusOp(charged, op).children = charged.children
          /\ PlusOp(charged, op).ret = charged.ret
          /\ PlusOp(charged, op).events = charged.events
          /\ PlusOp(charged, op).storage = Append(charged.storage, op)
          /\ PlusOp(charged, op).self + PlusOp(charged, op).native = charged.self + charged.native
      BY <1>9, NodeNoted
    <3>2. n = PlusOp(charged, op)
      BY <2>1
    <3> QED
      BY <1>9, <2>1, <3>1, <3>2
  <2>2. CASE ~ noted
    BY <1>9, <2>2
  <2> QED
    BY <2>1, <2>2
<1> HIDE DEF n
<1>11. /\ nodes' \in Seq(Nodes) /\ Len(nodes') = Len(nodes) /\ nodes'[Top] = n
       /\ \A j \in Calls : /\ j # Top => nodes'[j] = nodes[j]
                           /\ nodes'[j].function = nodes[j].function
                           /\ nodes'[j].children = nodes[j].children
  BY <1>1, <1>3, <1>5, <1>10, Replaced
<1>12. Keeps
  BY <1>1, <1>2, <1>6, <1>8, <1>11, Typed DEF Keeps, ChargeStorage, TypeOK
<1>13. FramesFollowVm' /\ status' \in Going \cup Outcomes
  <2>1. status' = "running" \/ status' \in Outcomes
    BY <1>1, <1>7, Endings DEF Failures
  <2> QED
    BY <1>1, <2>1, Follows DEF ChargeStorage
<1>14. StackInv'
  BY <1>3, <1>12, <1>13, StackKept
<1>15. ChildrenKept /\ RetsKept /\ EventsKept
  BY <1>3, <1>10, <1>11 DEF ChildrenKept, RetsKept, EventsKept, ChargeStorage
<1>16. GasShown(c, c)
  BY <1>3, <1>6, <1>10, <1>11 DEF GasShown, SelfGas
<1>17. StorageNoted(op)
  <2>1. \A i \in Calls : i # Top => nodes'[i].storage = nodes[i].storage
    BY <1>11
  <2>2. CASE done /\ Pays(cost)
    BY <1>7, <1>10, <1>11, <2>1, <2>2 DEF StorageNoted, OutOfGas
  <2>3. CASE ~ (done /\ Pays(cost))
    <3>1. status' \in Failures \cup {"Discarded"}
      BY <1>7, <2>3 DEF OutOfGas, Failing, Failures
    <3> QED
      BY <1>7, <1>10, <1>11, <2>1, <2>3, <3>1 DEF StorageNoted
  <2> QED
    BY <2>2, <2>3
<1> QED
  BY <1>12, <1>14, <1>15, <1>16, <1>17 DEF c

PlusNative(node, c) == [node EXCEPT !.native = @ + c]

LEMMA NativeCharged ==
  ASSUME NEW node \in Nodes, NEW c \in Nat
  PROVE  LET n == PlusNative(node, c)
         IN  /\ n \in Nodes /\ n.function = node.function /\ n.children = node.children
             /\ n.ret = node.ret /\ n.events = node.events /\ n.storage = node.storage
             /\ n.self + n.native = node.self + node.native + c
<1> DEFINE n == PlusNative(node, c)
<1>1. node.self \in Nat /\ node.native \in Nat /\ node.native + c \in Nat
  BY DEF Nodes
<1>2. n \in Nodes
  BY <1>1 DEF Nodes, PlusNative
<1>3. /\ n.function = node.function /\ n.children = node.children
      /\ n.ret = node.ret /\ n.events = node.events /\ n.storage = node.storage
      /\ n.self = node.self /\ n.native = node.native + c
  BY DEF Nodes, PlusNative
<1>4. n.self + n.native = node.self + node.native + c
  BY <1>1, <1>3
<1> QED
  BY <1>2, <1>3, <1>4

LEMMA ChargeNativeExecutionStep ==
  ASSUME StackInv, NEW amount \in Costs, ChargeNativeExecution(amount)
  PROVE  /\ StackInv' /\ Keeps /\ ChildrenKept /\ GasShown(amount, Consumed(amount))
         /\ RetsKept /\ EventsKept /\ StorageKept
<1> DEFINE n == PlusNative(nodes[Top], amount)
<1>1. TypeOK /\ status = "running"
  BY DEF StackInv, ChargeNativeExecution, InNative
<1>2. amount \in Nat /\ Consumed(amount) \in Nat /\ Left(amount) \in 0 .. Budget
  BY <1>1, Charges, GasAssumption
<1>3. Top \in Calls /\ Active = Top /\ frames # <<>>
  BY <1>1, OnTop
<1>4. nodes[Top] \in Nodes
  BY <1>1, <1>3, Typed
<1>5. nodes' = [nodes EXCEPT ![Top] = n]
  BY <1>3 DEF ChargeNativeExecution, PlusNative
<1>6. /\ spent' = [spent EXCEPT ![Top] = @ + Consumed(amount)] /\ spent' \in Seq(Nat)
      /\ Len(spent') = Len(spent)
  BY <1>1, <1>2, Spending DEF ChargeNativeExecution, Spend
<1>7. /\ n \in Nodes /\ n.function = nodes[Top].function /\ n.children = nodes[Top].children
      /\ n.ret = nodes[Top].ret /\ n.events = nodes[Top].events
      /\ n.storage = nodes[Top].storage
      /\ n.self + n.native = nodes[Top].self + nodes[Top].native + amount
  BY <1>2, <1>4, NativeCharged
<1> HIDE DEF n
<1>8. /\ nodes' \in Seq(Nodes) /\ Len(nodes') = Len(nodes) /\ nodes'[Top] = n
      /\ \A j \in Calls : /\ j # Top => nodes'[j] = nodes[j]
                          /\ nodes'[j].function = nodes[j].function
                          /\ nodes'[j].children = nodes[j].children
  BY <1>1, <1>3, <1>5, <1>7, Replaced
<1>9. Keeps
  BY <1>1, <1>2, <1>6, <1>8, Typed DEF Keeps, ChargeNativeExecution, TypeOK
<1>10. FramesFollowVm' /\ status' \in Going \cup Outcomes
  BY <1>1, Follows DEF ChargeNativeExecution
<1>11. StackInv'
  BY <1>3, <1>9, <1>10, StackKept
<1>12. ChildrenKept /\ RetsKept /\ EventsKept /\ StorageKept
  BY <1>3, <1>7, <1>8
     DEF ChildrenKept, RetsKept, EventsKept, StorageKept, ChargeNativeExecution
<1>13. GasShown(amount, Consumed(amount))
  BY <1>3, <1>6, <1>7, <1>8 DEF GasShown, SelfGas
<1> QED
  BY <1>9, <1>11, <1>12, <1>13

\* The event's frame: the innermost one outside of the event module, or the root.
LEMMA Sink ==
  ASSUME StackInv, frames # <<>>
  PROVE  \E k \in DOMAIN frames :
           /\ EventSink = frames[k]
           /\ k = 1 \/ Module[nodes[frames[k]].function] # EventModule
           /\ \A j \in DOMAIN frames : j > k => Module[nodes[frames[j]].function] = EventModule
<1> DEFINE outside == {k \in DOMAIN frames : Module[nodes[frames[k]].function] # EventModule}
<1>1. Len(frames) \in Nat \ {0} /\ DOMAIN frames = 1 .. Len(frames)
  BY Typed DEF StackInv
<1>2. CASE outside = {}
  BY <1>1, <1>2 DEF EventSink
<1>3. CASE outside # {}
  <2>1. outside \in SUBSET (1 .. Len(frames))
    BY <1>1
  <2> HIDE DEF outside
  <2>2. \E k \in outside : \A j \in outside : j <= k
    BY <1>1, <1>3, <2>1, Greatest
  <2> DEFINE k == CHOOSE m \in outside : \A j \in outside : j <= m
  <2>3. k \in outside /\ \A j \in outside : j <= k
    BY <2>2
  <2>4. EventSink = frames[k]
    BY <1>3 DEF EventSink, outside
  <2> HIDE DEF k
  <2>5. k \in DOMAIN frames /\ Module[nodes[frames[k]].function] # EventModule
    BY <2>3 DEF outside
  <2>6. ASSUME NEW j \in DOMAIN frames, j > k
        PROVE  Module[nodes[frames[j]].function] = EventModule
    <3>1. j \notin outside
      BY <1>1, <2>3, <2>5, <2>6
    <3> QED
      BY <3>1 DEF outside
  <2> QED
    BY <2>4, <2>5, <2>6
<1> QED
  BY <1>2, <1>3

PlusEvent(node, e) == [node EXCEPT !.events = Append(@, e)]

LEMMA NodeEmitted ==
  ASSUME NEW node \in Nodes, NEW e \in Nat
  PROVE  LET n == PlusEvent(node, e)
         IN  /\ n \in Nodes /\ n.function = node.function /\ n.children = node.children
             /\ n.ret = node.ret /\ n.storage = node.storage
             /\ n.events = Append(node.events, e)
             /\ n.self = node.self /\ n.native = node.native
<1>1. node.events \in Seq(Nat)
  BY DEF Nodes
<1>2. Append(node.events, e) \in Seq(Nat)
  BY <1>1, AppendProperties
<1> QED
  BY <1>2 DEF Nodes, PlusEvent

\* The event is put at the sink's end.
EventPut ==
  /\ Emitting' = Append(Emitting, Open)
  /\ \A i \in Calls :
       nodes'[i].events = IF i = EventSink THEN Append(nodes[i].events, Len(Emitting) + 1)
                                           ELSE nodes[i].events

LEMMA RecordEventStep ==
  ASSUME StackInv, RecordEvent
  PROVE  /\ StackInv' /\ Keeps /\ ChildrenKept /\ GasKept /\ RetsKept /\ EventPut /\ StorageKept
         /\ status' = status /\ frames = Open /\ frames # <<>>
<1> DEFINE e == Len(Emitting) + 1
           n == PlusEvent(nodes[EventSink], e)
<1>1. TypeOK /\ status = "running"
  BY DEF StackInv, RecordEvent, InNative
<1>2. /\ frames # <<>> /\ frames = Open
      /\ running \in Seq(Nat) /\ emitters \in Seq(Seq(Nat)) /\ Len(Emitting) = Len(emitters)
  BY <1>1, OnTop, OpenTyped
<1>3. EventSink \in Calls
  BY <1>1, <1>2, Sink, Typed
<1>4. nodes[EventSink] \in Nodes
  BY <1>1, <1>3, Typed
<1>5. e \in Nat /\ emitters' \in Seq(Seq(Nat)) /\ Emitting' = Append(Emitting, Open)
  BY <1>2, EmittedAppend DEF RecordEvent
<1>6. nodes' = [nodes EXCEPT ![EventSink] = n]
  BY <1>2, <1>3 DEF RecordEvent, PlusEvent
<1>7. /\ n \in Nodes /\ n.function = nodes[EventSink].function
      /\ n.children = nodes[EventSink].children
      /\ n.ret = nodes[EventSink].ret /\ n.storage = nodes[EventSink].storage
      /\ n.events = Append(nodes[EventSink].events, e)
      /\ n.self = nodes[EventSink].self /\ n.native = nodes[EventSink].native
  BY <1>4, <1>5, NodeEmitted
<1> HIDE DEF n
<1>8. /\ nodes' \in Seq(Nodes) /\ Len(nodes') = Len(nodes) /\ nodes'[EventSink] = n
      /\ \A j \in Calls : /\ j # EventSink => nodes'[j] = nodes[j]
                          /\ nodes'[j].function = nodes[j].function
                          /\ nodes'[j].children = nodes[j].children
  BY <1>1, <1>3, <1>6, <1>7, Replaced
<1>9. Keeps
  BY <1>1, <1>2, <1>5, <1>8, Typed DEF Keeps, RecordEvent, TypeOK
<1>10. FramesFollowVm' /\ status' \in Going \cup Outcomes
  BY <1>1, Follows DEF RecordEvent
<1>11. StackInv'
  BY <1>2, <1>9, <1>10, StackKept
<1>12. ChildrenKept /\ RetsKept /\ StorageKept
  BY <1>3, <1>7, <1>8 DEF ChildrenKept, RetsKept, StorageKept, RecordEvent
<1>13. GasKept
  BY <1>3, <1>7, <1>8 DEF GasKept, SelfGas, RecordEvent
<1>14. EventPut
  BY <1>3, <1>5, <1>7, <1>8 DEF EventPut
<1> QED
  BY <1>2, <1>9, <1>11, <1>12, <1>13, <1>14 DEF RecordEvent

LEMMA RootTyped == Root \in Functions /\ Root \notin Natives
<1>1. PICK main \in DOMAIN Entries : Entries[main] = Root
  BY FunctionAssumption
<1>2. Entries \in Seq(Functions \ Natives) /\ main \in 1 .. Len(Entries)
  BY <1>1, FunctionAssumption, LenProperties
<1> QED
  BY <1>1, <1>2, ElementOfSeq

\* A native is never the outermost call.
LEMMA Deep ==
  ASSUME StackInv, status \in {"running", "nativeOut"}, TopFunction \in Natives
  PROVE  Len(frames) > 1
<1>1. nodes[Top].function \in Natives
  BY DEF TopFunction
<1>2. Len(frames) \in Nat \ {0} /\ Top = frames[Len(frames)] /\ frames[1] = 1
  BY <1>1, OnTop DEF StackInv, PathInv
<1>3. nodes[1].function = Root
  BY DEF StackInv
<1> QED
  BY <1>1, <1>2, <1>3, RootTyped

LEMMA OneLeft == \A n \in Nat \ {0} : ~ n > 1 => n = 1
OBVIOUS

\* The frames and the VM's calls pop together.
LEMMA PoppedTogether ==
  ASSUME StackInv, status = "running", running' = Front(running), frames' = Popped(frames)
  PROVE  /\ Len(frames) > 1 => frames' = Open'
         /\ ~ Len(frames) > 1 => frames' = <<1>> /\ Open' = <<>>
         /\ running' \in Seq(Nat) /\ Open' = Front(Open)
<1>1. /\ frames = Open /\ Len(frames) \in Nat \ {0} /\ frames[1] = 1 /\ Open \in Seq(Nat)
      /\ frames \in Seq(Calls) /\ running \in Seq(Nat) /\ running # <<>>
  BY OnTop, Typed, OpenTyped DEF StackInv, PathInv
<1>2. running' \in Seq(Nat) /\ Open' = Front(Open)
  BY <1>1, ShownFront DEF Open
<1>3. Open' = SubSeq(Open, 1, Len(Open) - 1)
  BY <1>2 DEF Front
<1>4. running' \in Seq(Nat)
  BY <1>2
<1>5. CASE Len(frames) > 1
  BY <1>1, <1>3, <1>4, <1>5 DEF Popped, Front
<1>6. CASE ~ Len(frames) > 1
  <2>1. Len(frames) = 1
    BY <1>1, <1>6, OneLeft
  <2>2. frames = <<1>>
    BY <1>1, <2>1
  <2>3. Open' = <<>>
    BY <1>1, <1>3, <2>1, SubSeqEmpty
  <2> QED
    BY <1>2, <1>6, <2>2, <2>3 DEF Popped
<1> QED
  BY <1>2, <1>5, <1>6

Marked(node, ret) == [node EXCEPT !.kind = "native", !.ret = ret]

LEMMA NodeMarked ==
  ASSUME NEW node \in Nodes, NEW ret \in Returns \cup {None, <<Unit>>}
  PROVE  LET n == Marked(node, ret)
         IN  /\ n \in Nodes /\ n.function = node.function /\ n.children = node.children
             /\ n.events = node.events /\ n.storage = node.storage
             /\ n.self = node.self /\ n.native = node.native
BY DEF Nodes, Marked

\* charge_native_function, with values or without.
NativeOver(cost, ret) ==
  /\ nodes' = PopIntoParent([nodes EXCEPT ![Top] = Marked(PlusSelf(@, Consumed(cost)), ret)],
                            frames)
  /\ frames' = Popped(frames)
  /\ Spend(cost)
  /\ UNCHANGED <<caller, emitters, performed, entered, rootArgs, abort>>

LEMMA NativeOverKeeps ==
  ASSUME StackInv, status \in {"running", "nativeOut"}, NEW cost \in Costs,
         NEW ret \in Returns \cup {None}, NativeOver(cost, ret), balance' = Left(cost),
         running' \in Seq(Nat)
  PROVE  /\ Keeps /\ ChildAdded /\ GasShown(Consumed(cost), Consumed(cost))
         /\ RetsChangeOnTop /\ EventsKept /\ StorageKept
<1> DEFINE c == Consumed(cost)
           charged == PlusSelf(nodes[Top], c)
           n == Marked(charged, ret)
<1>1. TypeOK
  BY DEF StackInv
<1>2. cost \in Nat /\ c \in Nat /\ Left(cost) \in 0 .. Budget
  BY <1>1, Charges, GasAssumption
<1>3. Top \in Calls /\ frames # <<>>
  BY <1>1, OnTop
<1>4. nodes[Top] \in Nodes
  BY <1>1, <1>3, Typed
<1>5. nodes' = PopIntoParent([nodes EXCEPT ![Top] = n], frames) /\ frames' = Popped(frames)
  BY DEF NativeOver
<1>6. spent' = [spent EXCEPT ![Top] = @ + c] /\ spent' \in Seq(Nat) /\ Len(spent') = Len(spent)
  BY <1>1, <1>2, Spending DEF NativeOver, Spend
<1> HIDE DEF c
<1>7. /\ charged \in Nodes /\ charged.function = nodes[Top].function
      /\ charged.children = nodes[Top].children
      /\ charged.events = nodes[Top].events /\ charged.storage = nodes[Top].storage
      /\ charged.self + charged.native = nodes[Top].self + nodes[Top].native + c
  BY <1>2, <1>4, NodeCharged
<1> HIDE DEF charged
<1>8. /\ n \in Nodes /\ n.function = charged.function /\ n.children = charged.children
      /\ n.events = charged.events /\ n.storage = charged.storage
      /\ n.self = charged.self /\ n.native = charged.native
  BY <1>7, NodeMarked
<1> HIDE DEF n
<1>9. n.function = nodes[Top].function /\ n.children = nodes[Top].children
  BY <1>7, <1>8
<1>10. /\ nodes' \in Seq(Nodes) /\ Len(nodes') = Len(nodes) /\ ChildAdded
       /\ \A j \in Calls : nodes'[j].function = nodes[j].function
       /\ nodes'[Top].self = n.self /\ nodes'[Top].native = n.native
       /\ nodes'[Top].events = n.events /\ nodes'[Top].storage = n.storage
       /\ \A j \in Calls :
            j # Top => /\ nodes'[j].self = nodes[j].self /\ nodes'[j].native = nodes[j].native
                       /\ nodes'[j].ret = nodes[j].ret /\ nodes'[j].events = nodes[j].events
                       /\ nodes'[j].storage = nodes[j].storage
  BY <1>1, <1>3, <1>5, <1>8, <1>9, ReplacedAndPopped
<1>11. Keeps
  BY <1>1, <1>2, <1>5, <1>6, <1>10, Typed DEF Keeps, NativeOver, TypeOK
<1>12. RetsChangeOnTop /\ EventsKept /\ StorageKept
  BY <1>3, <1>7, <1>8, <1>10 DEF RetsChangeOnTop, EventsKept, StorageKept, NativeOver
<1>13. GasShown(c, c)
  BY <1>3, <1>6, <1>7, <1>8, <1>10 DEF GasShown, SelfGas
<1> QED
  BY <1>10, <1>11, <1>12, <1>13 DEF c

LEMMA NativeReturnsStep ==
  ASSUME StackInv, NEW cost \in Costs, NEW ret \in Returns, NativeReturns(cost, ret)
  PROVE  /\ StackInv' /\ Keeps /\ ChildAdded /\ GasShown(Consumed(cost), Consumed(cost))
         /\ RetsChangeOnTop /\ EventsKept /\ StorageKept /\ Len(frames) > 1
         /\ \/ running' = Front(running) /\ status' = status
            \/ running' = running /\ status' \in Failures \cup {"Discarded"}
<1>1. TypeOK /\ status = "running" /\ InNative
  BY DEF StackInv, NativeReturns, InNative
<1>2. frames # <<>> /\ frames = Open /\ Active = Top /\ Len(frames) > 1 /\ Top \in DOMAIN nodes
  BY <1>1, OnTop, Deep, Typed DEF InNative
<1>3. NativeOver(cost, ret)
  BY <1>2 DEF NativeReturns, NativeOver, Charged, Marked, PlusSelf
<1>4. \/ running' = Front(running) /\ status' = status
      \/ running' = running /\ status' \in Failures \cup {"Discarded"}
  BY DEF NativeReturns, OutOfGas, Failing, Failures
<1>5. frames' = Popped(frames) /\ balance' = Left(cost)
  BY DEF NativeReturns
<1>6. running' \in Seq(Nat)
  BY <1>1, <1>4, <1>5, PoppedTogether DEF TypeOK
<1>7. /\ Keeps /\ ChildAdded /\ GasShown(Consumed(cost), Consumed(cost))
      /\ RetsChangeOnTop /\ EventsKept /\ StorageKept
  BY <1>1, <1>3, <1>5, <1>6, NativeOverKeeps
<1>8. FramesFollowVm' /\ status' \in Going \cup Outcomes
  <2>1. CASE running' = Front(running) /\ status' = status
    BY <1>1, <1>2, <1>5, <2>1, PoppedTogether DEF FramesFollowVm, Going
  <2>2. CASE status' \in Failures \cup {"Discarded"}
    BY <2>2 DEF FramesFollowVm, Failures, Outcomes
  <2> QED
    BY <1>4, <2>1, <2>2
<1>9. StackInv'
  BY <1>2, <1>7, <1>8, StackKept
<1> QED
  BY <1>2, <1>4, <1>7, <1>9

LEMMA NativeAbortsStep ==
  ASSUME StackInv, NEW cost \in Costs, NativeAborts(cost)
  PROVE  /\ StackInv' /\ Keeps /\ ChildAdded /\ GasShown(Consumed(cost), Consumed(cost))
         /\ RetsChangeOnTop /\ EventsKept /\ StorageKept
         /\ running' = running /\ status' \in Failures \cup {"Discarded"}
<1>1. TypeOK /\ status \in {"running", "nativeOut"}
  BY DEF StackInv, NativeAborts, InNative
<1>2. frames # <<>> /\ frames = Open /\ Active = Top /\ Top \in DOMAIN nodes
  BY <1>1, OnTop, Typed
<1>3. NativeOver(cost, None)
  BY <1>2 DEF NativeAborts, NativeOver, Charged, Marked, PlusSelf
<1>4. running' = running /\ status' \in Failures \cup {"Discarded"} /\ balance' = Left(cost)
  BY DEF NativeAborts, Failing, Failures
<1>5. /\ Keeps /\ ChildAdded /\ GasShown(Consumed(cost), Consumed(cost))
      /\ RetsChangeOnTop /\ EventsKept /\ StorageKept
  BY <1>1, <1>3, <1>4, NativeOverKeeps DEF TypeOK
<1>6. FramesFollowVm' /\ status' \in Going \cup Outcomes
  BY <1>4 DEF FramesFollowVm, Failures, Outcomes
<1>7. StackInv'
  BY <1>2, <1>5, <1>6, StackKept
<1> QED
  BY <1>4, <1>5, <1>7

Returned(node, shown) == [node EXCEPT !.ret = shown]

LEMMA NodeReturned ==
  ASSUME NEW node \in Nodes, NEW shown \in Returns \cup {None, <<Unit>>}
  PROVE  LET n == Returned(node, shown)
         IN  /\ n \in Nodes /\ n.function = node.function /\ n.children = node.children
             /\ n.ret = shown /\ n.events = node.events /\ n.storage = node.storage
             /\ n.self = node.self /\ n.native = node.native
BY DEF Nodes, Returned

LEMMA RecordMoveReturnStep ==
  ASSUME StackInv, NEW ret \in Returns, RecordMoveReturn(ret)
  PROVE  /\ StackInv' /\ Keeps /\ ChildAdded /\ GasKept /\ nodes'[Top].ret # None
         /\ RetsChangeOnTop /\ EventsKept /\ StorageKept
         /\ running' = Front(running) /\ status' \in {"running", "between"}
<1> DEFINE shown == IF ret = <<>> THEN <<Unit>> ELSE ret
           n == Returned(nodes[Top], shown)
<1>1. TypeOK /\ status = "running"
  BY DEF StackInv, RecordMoveReturn, InMove
<1>2. frames # <<>> /\ frames = Open /\ Active = Top /\ Top \in Calls
  BY <1>1, OnTop
<1>3. nodes[Top] \in Nodes
  BY <1>1, <1>2, Typed
<1>4. nodes' = PopIntoParent([nodes EXCEPT ![Top] = n], frames) /\ frames' = Popped(frames)
  BY <1>2 DEF RecordMoveReturn, Returned
<1>5. shown \in Returns \cup {None, <<Unit>>} /\ shown # None
  BY DEF None
<1> HIDE DEF shown
<1>6. /\ n \in Nodes /\ n.function = nodes[Top].function /\ n.children = nodes[Top].children
      /\ n.ret = shown /\ n.events = nodes[Top].events /\ n.storage = nodes[Top].storage
      /\ n.self = nodes[Top].self /\ n.native = nodes[Top].native
  BY <1>3, <1>5, NodeReturned
<1> HIDE DEF n
<1>7. /\ nodes' \in Seq(Nodes) /\ Len(nodes') = Len(nodes) /\ ChildAdded
      /\ \A j \in Calls : nodes'[j].function = nodes[j].function
      /\ nodes'[Top].self = n.self /\ nodes'[Top].native = n.native /\ nodes'[Top].ret = n.ret
      /\ nodes'[Top].events = n.events /\ nodes'[Top].storage = n.storage
      /\ \A j \in Calls :
           j # Top => /\ nodes'[j].self = nodes[j].self /\ nodes'[j].native = nodes[j].native
                      /\ nodes'[j].ret = nodes[j].ret /\ nodes'[j].events = nodes[j].events
                      /\ nodes'[j].storage = nodes[j].storage
  BY <1>1, <1>2, <1>4, <1>6, ReplacedAndPopped
<1>8. running' = Front(running) /\ status' \in {"running", "between"}
      /\ running \in Seq(Nat) /\ Len(running) = Len(Open)
  BY <1>1, OpenTyped DEF RecordMoveReturn
<1>9. /\ Len(frames) > 1 => frames' = Open'
      /\ ~ Len(frames) > 1 => frames' = <<1>> /\ Open' = <<>>
      /\ running' \in Seq(Nat)
  BY <1>1, <1>4, <1>8, PoppedTogether
<1>10. Keeps
  <2>1. UNCHANGED <<caller, spent, emitters, performed, entered, balance, rootArgs, abort>>
    BY DEF RecordMoveReturn
  <2>2. /\ spent \in Seq(Nat) /\ performed \in Seq(Seq(StorageOps))
        /\ emitters \in Seq(Seq(Nat)) /\ entered \in 0 .. Len(Entries)
        /\ balance \in 0 .. Budget /\ rootArgs \in Seq(Values)
    BY <1>1, Typed DEF StackInv, TypeOK
  <2> QED
    BY <1>4, <1>7, <1>9, <2>1, <2>2 DEF Keeps
<1>11. FramesFollowVm' /\ status' \in Going \cup Outcomes
  <2>1. CASE Len(Open) = 1
    <3>1. frames' = <<1>> /\ status' = "between"
      BY <1>2, <1>8, <1>9, <2>1 DEF RecordMoveReturn
    <3>2. Len(running') = 0
      <4>1. running \in Seq(Nat) /\ Len(running) # 0
        BY <1>8, <2>1
      <4>2. Len(Front(running)) = Len(running) - 1
        BY <4>1, Fronts
      <4>3. Len(running) = 1 /\ running' = Front(running)
        BY <1>8, <2>1
      <4> QED
        BY <4>2, <4>3
    <3>3. running' = <<>>
      BY <1>9, <3>2, EmptySeq
    <3> QED
      BY <3>1, <3>3 DEF FramesFollowVm, Going
  <2>2. CASE Len(Open) # 1
    <3>1. Len(frames) > 1
      BY <1>1, <1>2, <2>2, OnTop, OneLeft
    <3> QED
      BY <1>1, <1>8, <1>9, <2>2, <3>1 DEF FramesFollowVm, RecordMoveReturn, Going
  <2> QED
    BY <2>1, <2>2
<1>12. StackInv'
  BY <1>2, <1>10, <1>11, StackKept
<1>13. /\ nodes'[Top].self = nodes[Top].self /\ nodes'[Top].native = nodes[Top].native
       /\ nodes'[Top].events = nodes[Top].events /\ nodes'[Top].storage = nodes[Top].storage
       /\ nodes'[Top].ret = shown
  BY <1>6, <1>7
<1>14. RetsChangeOnTop /\ nodes'[Top].ret # None
  BY <1>5, <1>7, <1>13 DEF RetsChangeOnTop
<1>15. ASSUME NEW j \in Calls
       PROVE  /\ nodes'[j].self = nodes[j].self /\ nodes'[j].native = nodes[j].native
              /\ nodes'[j].events = nodes[j].events /\ nodes'[j].storage = nodes[j].storage
  <2>1. CASE j = Top
    BY <1>13, <2>1
  <2>2. CASE j # Top
    BY <1>7, <2>2
  <2> QED
    BY <2>1, <2>2
<1>16. UNCHANGED <<emitters, performed, spent>>
  BY DEF RecordMoveReturn
<1>17. EventsKept /\ StorageKept /\ GasKept
  BY <1>15, <1>16 DEF EventsKept, StorageKept, GasKept, SelfGas
<1> QED
  BY <1>7, <1>8, <1>10, <1>12, <1>14, <1>17

\* A call makes a frame above the others, for a call within theirs.
CallMade(f, c) ==
  LET callee == Len(nodes) + 1
  IN  /\ nodes' \in Seq(Nodes) /\ Len(nodes') = callee
      /\ nodes'[callee] = Frame(f)
      /\ \A i \in Calls :
           /\ nodes'[i].function = nodes[i].function /\ nodes'[i].ret = nodes[i].ret
           /\ nodes'[i].events = nodes[i].events /\ nodes'[i].storage = nodes[i].storage
           /\ nodes'[i].children = nodes[i].children
           /\ SelfGas(i)' = IF i = Top THEN SelfGas(i) + c ELSE SelfGas(i)
           /\ CalledBy'[i] = CalledBy[i] /\ performed'[i] = performed[i]
           /\ spent'[i] = IF i = Top THEN spent[i] + c ELSE spent[i]
      /\ frames' = Append(frames, callee) /\ Open' = frames'
      /\ running' \in Seq(Nat) /\ running' # <<>> /\ running # <<>> /\ caller' \in Seq(Nat)
      /\ Len(CalledBy') = callee /\ CalledBy'[callee] = Top
      /\ spent' \in Seq(Nat) /\ Len(spent') = callee /\ spent'[callee] = 0
      /\ performed' \in Seq(Seq(StorageOps)) /\ Len(performed') = callee
      /\ performed'[callee] = <<>>
      /\ UNCHANGED <<emitters, entered, rootArgs, abort, status>> /\ balance' \in 0 .. Budget

LEMMA FrameTyped ==
  ASSUME NEW f \in Functions
  PROVE  /\ Frame(f) \in Nodes /\ Frame(f).function = f /\ Frame(f).ret = None
         /\ Frame(f).self + Frame(f).native = 0 /\ Frame(f).events = <<>>
         /\ Frame(f).storage = <<>> /\ Frame(f).children = <<>>
<1>1. /\ <<>> \in Seq(Nat) /\ <<>> \in Seq(StorageOps) /\ None \in Returns \cup {None, <<Unit>>}
      /\ 0 \in Nat
  BY EmptySeq
<1>2. Frame(f) \in Nodes
  BY <1>1 DEF Frame, Nodes
<1> QED
  BY <1>2 DEF Frame

LEMMA CallMadeStep ==
  ASSUME StackInv, NEW cost \in Costs, NEW f \in Callable, ChargeCall(f, cost), Pays(cost)
  PROVE  InMove /\ CallMade(f, Consumed(cost))
<1> DEFINE c == Consumed(cost)
           n == PlusSelf(nodes[Top], c)
           callee == Len(nodes) + 1
<1>1. TypeOK /\ status = "running" /\ InMove
  BY DEF StackInv, ChargeCall, InMove
<1>2. cost \in Nat /\ c \in Nat /\ Left(cost) \in 0 .. Budget
  BY <1>1, Charges, GasAssumption
<1>3. Top \in Calls /\ Active = Top /\ frames # <<>> /\ frames = Open
  BY <1>1, OnTop
<1>4. nodes[Top] \in Nodes
  BY <1>1, <1>3, Typed
<1>5. f \in Functions /\ callee \in Nat /\ Top \in Nat
  BY <1>1, <1>3, Typed DEF Callable, Calls
<1>6. /\ nodes' = Append([nodes EXCEPT ![Top] = n], Frame(f))
      /\ frames' = Append(frames, callee) /\ running' = Append(running, callee)
      /\ caller' = Append(caller, Last(running)) /\ performed' = Append(performed, <<>>)
      /\ spent' = Append([spent EXCEPT ![Top] = @ + c], 0)
  BY <1>3 DEF ChargeCall, Charged, PlusSelf
<1> DEFINE by == Last(running)
<1>20. /\ running \in Seq(Nat) /\ running # <<>> /\ caller \in Seq(Nat)
       /\ by \in Nat /\ Top = ShownAs(by)
  BY <1>1, <1>3, OpenTyped, ShownFront DEF Open, Top
<1> HIDE DEF by
<1>21. /\ running' \in Seq(Nat) /\ running' # <<>>
       /\ Open' = Append(Open, callee) /\ Open' = frames'
  <2>1. ShownAs(callee) = callee
    BY <1>1, Typed DEF ShownAs
  <2>2. Shown(Append(running, callee)) = Append(Shown(running), ShownAs(callee))
    BY <1>5, <1>20, ShownAppend
  <2>3. Open' = Append(Open, callee)
    BY <1>6, <2>1, <2>2 DEF Open
  <2>4. running' \in Seq(Nat) /\ Len(running') = Len(running) + 1 /\ Len(running) \in Nat
    BY <1>5, <1>6, <1>20, AppendProperties, LenProperties
  <2>5. Len(running') # 0
    BY <2>4
  <2>6. running' # <<>>
    BY <2>5
  <2> QED
    BY <1>3, <1>6, <2>3, <2>4, <2>6
<1>22. caller' \in Seq(Nat) /\ CalledBy' = Append(CalledBy, Top)
  <2>1. caller' = Append(caller, by)
    BY <1>6 DEF by
  <2>2. Shown(Append(caller, by)) = Append(Shown(caller), ShownAs(by))
    BY <1>20, ShownAppend
  <2> QED
    BY <1>20, <2>1, <2>2, AppendProperties DEF CalledBy
<1>7. /\ Len(CalledBy) = Len(nodes) /\ Len(spent) = Len(nodes) /\ Len(performed) = Len(nodes)
  BY <1>3 DEF StackInv, Telling
<1>8. /\ [spent EXCEPT ![Top] = @ + c] \in Seq(Nat)
      /\ Len([spent EXCEPT ![Top] = @ + c]) = Len(nodes)
      /\ \A i \in Calls : [spent EXCEPT ![Top] = @ + c][i] = IF i = Top THEN spent[i] + c ELSE spent[i]
  <2>1. Top \in 1 .. Len(spent) /\ spent \in Seq(Nat)
    BY <1>1, <1>2, Spending, Typed
  <2>2. spent[Top] + c \in Nat
    BY <1>2, <2>1, ElementOfSeq
  <2> QED
    BY <1>7, <2>1, <2>2, ExceptSeq DEF Calls
<1>9. /\ Len(CalledBy') = callee /\ CalledBy'[callee] = Top
      /\ \A i \in Calls : CalledBy'[i] = CalledBy[i]
  BY <1>1, <1>5, <1>7, <1>22, Typed, AppendProperties DEF Calls
<1>10. /\ performed' \in Seq(Seq(StorageOps)) /\ Len(performed') = callee
       /\ performed'[callee] = <<>> /\ \A i \in Calls : performed'[i] = performed[i]
  <2> DEFINE Done == Seq(StorageOps)
  <2>1. <<>> \in Done /\ performed \in Seq(Done)
    BY <1>1, Typed, EmptySeq
  <2> HIDE DEF Done
  <2>2. /\ performed' \in Seq(Done) /\ Len(performed') = Len(performed) + 1
        /\ performed'[Len(performed) + 1] = <<>>
        /\ \A i \in 1 .. Len(performed) : performed'[i] = performed[i]
    BY <1>6, <2>1, AppendProperties
  <2> QED
    BY <1>7, <2>2 DEF Calls, Done
<1> DEFINE s == [spent EXCEPT ![Top] = @ + c]
<1> HIDE DEF s
<1>11. /\ spent' \in Seq(Nat) /\ Len(spent') = callee /\ spent'[callee] = 0
       /\ \A i \in Calls : spent'[i] = s[i]
  <2>1. s \in Seq(Nat) /\ Len(s) = Len(nodes) /\ spent' = Append(s, 0)
    BY <1>6, <1>8 DEF s
  <2> QED
    BY <2>1, AppendProperties DEF Calls
<1>12. \A i \in Calls : spent'[i] = IF i = Top THEN spent[i] + c ELSE spent[i]
  BY <1>8, <1>11 DEF s
<1> HIDE DEF c
<1>13. /\ n \in Nodes /\ n.function = nodes[Top].function /\ n.children = nodes[Top].children
       /\ n.ret = nodes[Top].ret /\ n.events = nodes[Top].events
       /\ n.storage = nodes[Top].storage
       /\ n.self + n.native = nodes[Top].self + nodes[Top].native + c
  BY <1>2, <1>4, NodeCharged
<1> HIDE DEF n
<1> DEFINE t == [nodes EXCEPT ![Top] = n]
<1>14. /\ t \in Seq(Nodes) /\ Len(t) = Len(nodes) /\ t[Top] = n
       /\ \A j \in Calls : j # Top => t[j] = nodes[j]
  BY <1>1, <1>3, <1>13, Edited
<1> HIDE DEF t
<1>15. /\ nodes' \in Seq(Nodes) /\ Len(nodes') = callee /\ nodes'[callee] = Frame(f)
       /\ \A j \in Calls : nodes'[j] = t[j]
  <2>1. nodes' = Append(t, Frame(f)) /\ Frame(f) \in Nodes
    BY <1>5, <1>6, FrameTyped DEF t
  <2> QED
    BY <1>14, <2>1, AppendProperties DEF Calls
<1>16. ASSUME NEW i \in Calls
       PROVE  /\ nodes'[i].function = nodes[i].function /\ nodes'[i].ret = nodes[i].ret
              /\ nodes'[i].events = nodes[i].events /\ nodes'[i].storage = nodes[i].storage
              /\ nodes'[i].children = nodes[i].children
              /\ SelfGas(i)' = IF i = Top THEN SelfGas(i) + c ELSE SelfGas(i)
  <2>1. CASE i = Top
    BY <1>13, <1>14, <1>15, <2>1 DEF SelfGas
  <2>2. CASE i # Top
    BY <1>14, <1>15, <2>2 DEF SelfGas
  <2> QED
    BY <2>1, <2>2
<1>17. UNCHANGED <<emitters, entered, rootArgs, abort, status>> /\ balance' \in 0 .. Budget
  BY <1>2 DEF ChargeCall, OutOfGas
<1>18. \A i \in Calls :
         /\ CalledBy'[i] = CalledBy[i] /\ performed'[i] = performed[i]
         /\ spent'[i] = IF i = Top THEN spent[i] + c ELSE spent[i]
  BY <1>9, <1>10, <1>12
<1>19. CallMade(f, c)
  BY <1>6, <1>9, <1>10, <1>11, <1>15, <1>16, <1>17, <1>18, <1>20, <1>21, <1>22 DEF CallMade
<1> QED
  BY <1>1, <1>19 DEF c

LEMMA OneMore ==
  \A n \in Nat : 1 .. n \subseteq 1 .. n + 1 /\ n + 1 \in 1 .. n + 1 /\ 1 .. n + 1 \subseteq Nat
OBVIOUS

LEMMA Below ==
  \A n \in Nat \ {0} : \A k \in 1 .. n : k # n => k < n /\ k \in 1 .. n - 1
OBVIOUS

LEMMA CalledFrames ==
  ASSUME StackInv, status = "running", NEW f, NEW c, CallMade(f, c)
  PROVE  /\ Len(frames') = Len(frames) + 1 /\ Len(frames) \in Nat \ {0}
         /\ frames'[Len(frames) + 1] = Len(nodes) + 1 /\ frames[Len(frames)] = Top
         /\ \A k \in 1 .. Len(frames) : frames'[k] = frames[k] /\ frames[k] \in Calls
         /\ frames' \in Seq(Calls') /\ frames' \in Seq(Nat) /\ frames' # <<>>
<1>1. Len(frames) \in Nat \ {0} /\ frames[Len(frames)] = Top
  BY OnTop
<1>2. /\ frames \in Seq(Calls) /\ Len(nodes) \in Nat
      /\ \A k \in 1 .. Len(frames) : frames[k] \in Calls
  BY Typed DEF StackInv
<1>3. Calls' = 1 .. Len(nodes) + 1 /\ Calls \subseteq Calls' /\ Len(nodes) + 1 \in Calls'
      /\ Calls' \subseteq Nat
  <2>1. Calls' = 1 .. Len(nodes) + 1
    BY DEF Calls, CallMade
  <2> QED
    BY <1>2, <2>1, OneMore DEF Calls
<1>4. frames \in Seq(Calls') /\ frames' = Append(frames, Len(nodes) + 1)
  BY <1>2, <1>3, SeqMonotonic DEF CallMade
<1>5. /\ frames' \in Seq(Calls') /\ frames' # <<>> /\ Len(frames') = Len(frames) + 1
      /\ \A k \in 1 .. Len(frames) : frames'[k] = frames[k]
      /\ frames'[Len(frames) + 1] = Len(nodes) + 1
  BY <1>3, <1>4, AppendProperties
<1>6. frames' \in Seq(Nat)
  BY <1>3, <1>5, SeqMonotonic
<1> QED
  BY <1>1, <1>2, <1>5, <1>6

LEMMA StackCalled ==
  ASSUME StackInv, status = "running", NEW f \in Functions, NEW c, CallMade(f, c)
  PROVE  StackInv'
<1> DEFINE callee == Len(nodes) + 1
           top == Len(frames)
<1>1. TypeOK /\ frames # <<>> /\ Top \in Calls /\ Len(nodes) \in Nat
  BY OnTop, Typed DEF StackInv
<1>2. /\ Len(frames') = top + 1 /\ top \in Nat \ {0}
      /\ frames'[top + 1] = callee /\ frames[top] = Top
      /\ \A k \in 1 .. top : frames'[k] = frames[k] /\ frames[k] \in Calls
      /\ frames' \in Seq(Calls') /\ frames' \in Seq(Nat) /\ frames' # <<>>
  BY CalledFrames
<1>3. DOMAIN frames' = 1 .. top + 1 /\ DOMAIN frames = 1 .. top
  BY <1>1, <1>2, Typed, LenProperties
<1>4. TypeOK'
  <2>1. /\ nodes' \in Seq(Nodes) /\ frames' \in Seq(Calls') /\ frames' # <<>>
        /\ running' \in Seq(Nat) /\ caller' \in Seq(Nat) /\ spent' \in Seq(Nat)
        /\ performed' \in Seq(Seq(StorageOps)) /\ balance' \in 0 .. Budget
        /\ UNCHANGED <<emitters, entered, rootArgs, abort, status>>
    BY <1>2 DEF CallMade
  <2> QED
    BY <1>1, <2>1 DEF TypeOK, Nodes
<1>5. 1 \in Calls /\ nodes'[1].function = Root /\ nodes' # <<>>
  <2>1. 1 \in Calls
    BY <1>1 DEF Calls
  <2>2. Len(nodes') # 0
    BY <1>1 DEF CallMade
  <2> QED
    BY <2>1, <2>2 DEF CallMade, StackInv
<1>6. Len(CalledBy') = Len(nodes') /\ Len(spent') = Len(nodes') /\ Len(performed') = Len(nodes')
  BY DEF CallMade
<1>7. FramesFollowVm'
  BY DEF FramesFollowVm, CallMade
<1>8. PathInv'
  <2>1. frames[1] = 1 /\ \A k \in 1 .. top : frames[k] <= Top /\ frames[k] \in Nat
    <3>1. frames[1] = 1 /\ top \in DOMAIN frames
      BY <1>1, <1>2, <1>3 DEF StackInv, PathInv
    <3>2. ASSUME NEW k \in 1 .. top PROVE frames[k] <= Top /\ frames[k] \in Nat
      <4>1. frames[k] \in Nat /\ Top \in Nat
        BY <1>1, <1>2 DEF Calls
      <4>2. CASE k = top
        BY <1>2, <4>1, <4>2
      <4>3. CASE k # top
        <5>1. k < top /\ k \in DOMAIN frames
          BY <1>2, <1>3, <4>3, Below
        <5>2. frames[k] < frames[top]
          BY <3>1, <5>1 DEF StackInv, PathInv
        <5> QED
          BY <1>2, <4>1, <5>2
      <4> QED
        BY <4>2, <4>3
    <3> QED
      BY <3>1, <3>2
  <2>2. frames'[1] = 1
    BY <1>2, <2>1
  <2>3. \A j, k \in DOMAIN frames' : j < k => frames'[j] < frames'[k]
    <3>1. SUFFICES ASSUME NEW j \in 1 .. top + 1, NEW k \in 1 .. top + 1, j < k
                   PROVE  frames'[j] < frames'[k]
      BY <1>3
    <3>2. j \in 1 .. top
      BY <1>2, <3>1
    <3>3. CASE k = top + 1
      <4>1. frames[j] \in 1 .. Len(nodes)
        BY <1>2, <3>2 DEF Calls
      <4> QED
        BY <1>1, <1>2, <3>2, <3>3, <4>1
    <3>4. CASE k # top + 1
      <4>1. k \in 1 .. top
        BY <1>2, <3>4
      <4>2. frames[j] < frames[k]
        BY <1>3, <3>1, <3>2, <4>1 DEF StackInv, PathInv
      <4> QED
        BY <1>2, <3>2, <4>1, <4>2
    <3> QED
      BY <3>3, <3>4
  <2>4. ASSUME NEW k \in DOMAIN frames', k > 1
        PROVE  CalledBy'[frames'[k]] = frames'[k - 1]
    <3>1. CASE k = top + 1
      <4>1. frames'[k - 1] = Top
        BY <1>2, <3>1
      <4> QED
        BY <1>2, <3>1, <4>1 DEF CallMade
    <3>2. CASE k # top + 1
      <4>1. k \in 1 .. top /\ k - 1 \in 1 .. top
        BY <1>2, <1>3, <2>4, <3>2
      <4>2. CalledBy[frames[k]] = frames[k - 1]
        BY <1>3, <2>4, <4>1 DEF StackInv, PathInv
      <4>3. frames'[k] = frames[k] /\ frames'[k - 1] = frames[k - 1] /\ frames[k] \in Calls
        BY <1>2, <4>1
      <4>4. CalledBy'[frames[k]] = CalledBy[frames[k]]
        BY <4>3 DEF CallMade
      <4> QED
        BY <4>2, <4>3, <4>4
    <3> QED
      BY <3>1, <3>2
  <2>5. ASSUME NEW k \in DOMAIN frames', NEW i \in 2 .. Len(nodes'), frames'[k] < i
        PROVE  frames'[k] <= CalledBy'[i]
    <3>1. Len(nodes') = callee /\ callee \in Nat
      BY <1>1 DEF CallMade
    <3>2. k \in 1 .. top
      BY <1>2, <1>3, <2>5, <3>1
    <3>3. frames'[k] = frames[k] /\ frames[k] <= Top
      BY <1>2, <2>1, <3>2
    <3>4. CASE i = callee
      BY <3>3, <3>4 DEF CallMade
    <3>5. CASE i # callee
      <4>1. i \in 2 .. Len(nodes) /\ i \in Calls
        BY <1>1, <3>1, <3>5 DEF Calls
      <4>2. frames[k] <= CalledBy[i]
        BY <1>3, <2>5, <3>2, <3>3, <4>1 DEF StackInv, PathInv
      <4> QED
        BY <3>3, <4>1, <4>2 DEF CallMade
    <3> QED
      BY <3>4, <3>5
  <2> QED
    BY <2>2, <2>3, <2>4, <2>5 DEF PathInv
<1> QED
  BY <1>4, <1>5, <1>6, <1>7, <1>8 DEF StackInv

LEMMA CallRefusedStep ==
  ASSUME StackInv, NEW cost \in Costs, NEW f \in Callable, ChargeCall(f, cost), ~ Pays(cost)
  PROVE  /\ StackInv' /\ Keeps /\ ChildrenKept /\ GasShown(Consumed(cost), Consumed(cost))
         /\ RetsKept /\ EventsKept /\ StorageKept
         /\ running' = running /\ status' \in Failures \cup {"Discarded"}
<1> DEFINE c == Consumed(cost)
           n == PlusSelf(nodes[Top], c)
<1>1. TypeOK /\ status = "running"
  BY DEF StackInv, ChargeCall, InMove
<1>2. cost \in Nat /\ c \in Nat /\ Left(cost) \in 0 .. Budget
  BY <1>1, Charges, GasAssumption
<1>3. Top \in Calls /\ Active = Top /\ frames # <<>>
  BY <1>1, OnTop
<1>4. nodes[Top] \in Nodes
  BY <1>1, <1>3, Typed
<1>5. /\ nodes' = [nodes EXCEPT ![Top] = n] /\ Spend(cost)
      /\ UNCHANGED <<frames, running, caller, performed, emitters, entered, rootArgs, abort>>
      /\ balance' = Left(cost)
  BY <1>3 DEF ChargeCall, Charged, PlusSelf
<1>6. spent' = [spent EXCEPT ![Top] = @ + c] /\ spent' \in Seq(Nat) /\ Len(spent') = Len(spent)
  BY <1>1, <1>2, <1>5, Spending DEF Spend
<1> HIDE DEF c
<1>7. /\ n \in Nodes /\ n.function = nodes[Top].function /\ n.children = nodes[Top].children
      /\ n.ret = nodes[Top].ret /\ n.events = nodes[Top].events
      /\ n.storage = nodes[Top].storage
      /\ n.self + n.native = nodes[Top].self + nodes[Top].native + c
  BY <1>2, <1>4, NodeCharged
<1> HIDE DEF n
<1>8. /\ nodes' \in Seq(Nodes) /\ Len(nodes') = Len(nodes) /\ nodes'[Top] = n
      /\ \A j \in Calls : /\ j # Top => nodes'[j] = nodes[j]
                          /\ nodes'[j].function = nodes[j].function
                          /\ nodes'[j].children = nodes[j].children
  BY <1>1, <1>3, <1>5, <1>7, Replaced
<1>9. Keeps
  BY <1>1, <1>2, <1>5, <1>6, <1>8, Typed DEF Keeps, TypeOK
<1>10. status' \in Failures \cup {"Discarded"}
  BY DEF ChargeCall, OutOfGas, Failing, Failures
<1>11. FramesFollowVm' /\ status' \in Going \cup Outcomes
  BY <1>10 DEF FramesFollowVm, Failures, Outcomes
<1>12. StackInv'
  BY <1>3, <1>9, <1>11, StackKept
<1>13. ChildrenKept /\ RetsKept /\ EventsKept /\ StorageKept
  BY <1>3, <1>5, <1>7, <1>8 DEF ChildrenKept, RetsKept, EventsKept, StorageKept
<1>14. GasShown(c, c)
  BY <1>3, <1>6, <1>7, <1>8 DEF GasShown, SelfGas
<1> QED
  BY <1>5, <1>9, <1>10, <1>12, <1>13, <1>14 DEF c

\* The arguments without the signers.
LEMMA Arguments ==
  ASSUME NEW f \in EntryFunctions
  PROVE  WithoutSigners(ArgsOf[f]) \in Seq(Values)
<1>1. ArgsOf[f] \in Seq(Values) /\ UserArgCount \in Nat
  BY ArgsAssumption
<1>2. Len(ArgsOf[f]) \in Nat /\ \A i \in 1 .. Len(ArgsOf[f]) : ArgsOf[f][i] \in Values
  BY <1>1, LenProperties, ElementOfSeq
<1> DEFINE skip == IF Len(ArgsOf[f]) > UserArgCount THEN Len(ArgsOf[f]) - UserArgCount ELSE 0
<1>3. skip \in Nat
  BY <1>1, <1>2
<1>4. WithoutSigners(ArgsOf[f]) = SubSeq(ArgsOf[f], skip + 1, Len(ArgsOf[f]))
  BY DEF WithoutSigners
<1> HIDE DEF skip
<1>5. \A i \in skip + 1 .. Len(ArgsOf[f]) : ArgsOf[f][i] \in Values
  BY <1>2, <1>3
<1> QED
  BY <1>2, <1>3, <1>4, <1>5, SubSeqProperties

\* A step that changes no node.
Quiet ==
  /\ nodes' = nodes /\ frames' = frames
  /\ spent' = spent /\ performed' = performed /\ emitters' = emitters /\ caller' = caller
  /\ abort' = abort

LEMMA RecordEntryArgsStep ==
  ASSUME StackInv, RecordEntryArgs
  PROVE  /\ StackInv' /\ Quiet /\ frames # <<>> /\ status' = "running" /\ Open' = <<1>>
         /\ frames = <<1>> /\ running = <<>> /\ running' # <<>> /\ running' \in Seq(Nat)
         /\ entered' = entered + 1
<1>1. TypeOK /\ frames = <<1>> /\ frames # <<>> /\ running = <<>>
  BY DEF StackInv, FramesFollowVm, RecordEntryArgs
<1>2. Quiet
  BY DEF Quiet, RecordEntryArgs
<1>3. Entries \in Seq(Functions \ Natives) /\ Len(Entries) \in Nat
  BY FunctionAssumption, LenProperties
<1>4. entered + 1 \in 1 .. Len(Entries) /\ entered' = entered + 1
  BY <1>1, <1>3 DEF RecordEntryArgs, TypeOK
<1>5. entered' \in 0 .. Len(Entries)
  BY <1>3, <1>4
<1>6. Entries[entered + 1] \in EntryFunctions
  BY <1>3, <1>4, LenProperties DEF EntryFunctions
<1>7. rootArgs' \in Seq(Values)
  BY <1>1, <1>6, Arguments DEF RecordEntryArgs, TypeOK
<1>8. status' = "running" /\ balance' = balance
  BY DEF RecordEntryArgs
<1>9. PICK entry \in {0, 1} : running' = <<entry>>
  BY DEF RecordEntryArgs
<1>12. running' \in Seq(Nat) /\ running' # <<>> /\ Open' = <<1>>
  BY <1>9 DEF Open, Shown, ShownAs
<1>10. Keeps
  BY <1>1, <1>2, <1>5, <1>7, <1>8, <1>12, Typed DEF Keeps, Quiet, TypeOK
<1>11. FramesFollowVm' /\ status' \in Going \cup Outcomes
  BY <1>1, <1>2, <1>8, <1>12 DEF FramesFollowVm, Quiet, Going
<1> QED
  BY <1>1, <1>2, <1>4, <1>8, <1>10, <1>11, <1>12, StackKept

\* The execution goes on, ends or fails where it is.
LEMMA StatusStep ==
  ASSUME StackInv, Quiet, UNCHANGED <<running, entered, rootArgs>>, frames # <<>>,
         balance' \in 0 .. Budget, status' = status \/ status' \in Outcomes
  PROVE  StackInv'
<1>1. TypeOK
  BY DEF StackInv
<1>2. Keeps
  BY <1>1, Typed DEF Keeps, Quiet, TypeOK
<1>3. FramesFollowVm' /\ status' \in Going \cup Outcomes
  BY Unmoved DEF StackInv, TypeOK, FramesFollowVm, Quiet, Going, Outcomes, Failures
<1> QED
  BY <1>2, <1>3, StackKept

LEMMA QuietSteps ==
  ASSUME StackInv,
         (\E cost \in Costs : DelegateOnly(cost)) \/ FailUnseen \/ Succeed
  PROVE  /\ StackInv' /\ Quiet /\ UNCHANGED <<running, entered, rootArgs>> /\ frames # <<>>
         /\ status \in {"between", "running"} /\ status' \in {status} \cup Outcomes
         /\ balance' \in 0 .. Budget /\ balance' <= balance
<1>1. TypeOK /\ status \in {"between", "running"}
  BY DEF StackInv, DelegateOnly, FailUnseen, Succeed
<1>2. frames # <<>>
  BY <1>1 DEF StackInv, TypeOK, Outcomes, Failures
<1>3. Quiet /\ UNCHANGED <<running, entered, rootArgs>>
  BY DEF Quiet, DelegateOnly, FailUnseen, Succeed
<1>4. status' \in {status} \cup Outcomes
  BY Endings DEF DelegateOnly, FailUnseen, Succeed, Failures, Outcomes, Failing
<1>5. balance' \in 0 .. Budget /\ balance' <= balance
  <2>1. CASE \E cost \in Costs : DelegateOnly(cost)
    BY <1>1, <2>1, Charges, GasAssumption DEF DelegateOnly
  <2>2. CASE FailUnseen \/ Succeed
    BY <1>1, <2>2, GasAssumption DEF FailUnseen, Succeed, TypeOK
  <2> QED
    BY <2>1, <2>2
<1> QED
  BY <1>1, <1>2, <1>3, <1>4, <1>5, StatusStep

-----------------------------------------------------------------------------
(* The response.                                                           *)

LEMMA FunctionIsSeq ==
  ASSUME NEW S, NEW n \in Nat, NEW g \in [1 .. n -> S]
  PROVE  g \in Seq(S) /\ Len(g) = n
<1>1. g \in Seq(S)
  BY SeqDef
<1>2. DOMAIN g = 1 .. n /\ DOMAIN g = 1 .. Len(g) /\ Len(g) \in Nat
  BY <1>1, LenProperties
<1> QED
  BY <1>1, <1>2

\* Each frame left becomes a child of the one below it, and nothing else changes.
LEMMA CollapsedTree ==
  ASSUME StackInv, frames # <<>>
  PROVE  /\ Collapsed \in Seq(Nodes) /\ Len(Collapsed) = Len(nodes)
         /\ \A k \in 1 .. Len(frames) - 1 :
              Collapsed[frames[k]].children = Append(nodes[frames[k]].children, frames[k + 1])
         /\ \A i \in Calls :
              /\ (\A k \in 1 .. Len(frames) - 1 : frames[k] # i) =>
                   Collapsed[i].children = nodes[i].children
              /\ Collapsed[i].function = nodes[i].function /\ Collapsed[i].ret = nodes[i].ret
              /\ Collapsed[i].self = nodes[i].self /\ Collapsed[i].native = nodes[i].native
              /\ Collapsed[i].events = nodes[i].events
              /\ Collapsed[i].storage = nodes[i].storage
<1>1. /\ TypeOK /\ DOMAIN nodes = Calls /\ Len(nodes) \in Nat /\ Len(frames) \in Nat \ {0}
      /\ \A i \in Calls : nodes[i] \in Nodes
      /\ DOMAIN frames = 1 .. Len(frames) /\ \A k \in 1 .. Len(frames) : frames[k] \in Calls
  BY Typed DEF StackInv
<1>2. ASSUME NEW i \in Calls, \A k \in 1 .. Len(frames) - 1 : frames[k] # i
      PROVE  Collapsed[i] = nodes[i]
  BY <1>1, <1>2 DEF Collapsed
<1>3. ASSUME NEW k \in 1 .. Len(frames) - 1
      PROVE  /\ k \in 1 .. Len(frames) /\ k + 1 \in 1 .. Len(frames)
             /\ frames[k] \in Calls /\ frames[k + 1] \in Calls
             /\ Collapsed[frames[k]] = [nodes[frames[k]] EXCEPT !.children = Append(@, frames[k + 1])]
  <2>1. k \in 1 .. Len(frames) /\ k + 1 \in 1 .. Len(frames)
    BY <1>1
  <2>2. frames[k] \in Calls /\ frames[k + 1] \in Calls
    BY <1>1, <2>1
  <2>3. ASSUME NEW j \in 1 .. Len(frames) - 1, frames[j] = frames[k]
        PROVE  j = k
    <3>1. j \in DOMAIN frames /\ k \in DOMAIN frames /\ j \in Nat /\ k \in Nat
      BY <1>1, <2>1
    <3>2. (j < k => frames[j] < frames[k]) /\ (k < j => frames[k] < frames[j])
      BY <3>1 DEF StackInv, PathInv
    <3>3. frames[k] \in Nat
      BY <2>2 DEF Calls
    <3>4. ~ (j < k) /\ ~ (k < j)
      BY <2>3, <3>2, <3>3
    <3> QED
      BY <3>1, <3>4
  <2> DEFINE m == CHOOSE m \in 1 .. Len(frames) - 1 : frames[m] = frames[k]
  <2>4. m = k
    BY <2>3
  <2>5. Collapsed[frames[k]] = [nodes[frames[k]] EXCEPT !.children = Append(@, frames[m + 1])]
    BY <1>1, <2>2 DEF Collapsed
  <2> QED
    BY <2>1, <2>2, <2>4, <2>5
<1>4. ASSUME NEW k \in 1 .. Len(frames) - 1
      PROVE  /\ Collapsed[frames[k]] \in Nodes
             /\ Collapsed[frames[k]].children = Append(nodes[frames[k]].children, frames[k + 1])
             /\ Collapsed[frames[k]].function = nodes[frames[k]].function
             /\ Collapsed[frames[k]].ret = nodes[frames[k]].ret
             /\ Collapsed[frames[k]].self = nodes[frames[k]].self
             /\ Collapsed[frames[k]].native = nodes[frames[k]].native
             /\ Collapsed[frames[k]].events = nodes[frames[k]].events
             /\ Collapsed[frames[k]].storage = nodes[frames[k]].storage
  <2>1. nodes[frames[k]] \in Nodes /\ frames[k + 1] \in Nat
    BY <1>1, <1>3 DEF Calls
  <2>2. Append(nodes[frames[k]].children, frames[k + 1]) \in Seq(Nat)
    BY <2>1, AppendProperties DEF Nodes
  <2>3. Collapsed[frames[k]] = [nodes[frames[k]] EXCEPT !.children = Append(@, frames[k + 1])]
    BY <1>3
  <2> QED
    BY <2>1, <2>2, <2>3 DEF Nodes
<1>5. ASSUME NEW i \in Calls
      PROVE  /\ Collapsed[i] \in Nodes
             /\ Collapsed[i].function = nodes[i].function /\ Collapsed[i].ret = nodes[i].ret
             /\ Collapsed[i].self = nodes[i].self /\ Collapsed[i].native = nodes[i].native
             /\ Collapsed[i].events = nodes[i].events
             /\ Collapsed[i].storage = nodes[i].storage
  <2>1. CASE \A k \in 1 .. Len(frames) - 1 : frames[k] # i
    BY <1>1, <1>2, <2>1
  <2>2. CASE \E k \in 1 .. Len(frames) - 1 : frames[k] = i
    BY <1>4, <2>2
  <2> QED
    BY <2>1, <2>2
<1>6. DOMAIN Collapsed = 1 .. Len(nodes) /\ Collapsed \in [1 .. Len(nodes) -> Nodes]
  BY <1>1, <1>5 DEF Collapsed, Calls
<1>7. Collapsed \in Seq(Nodes) /\ Len(Collapsed) = Len(nodes)
  BY <1>1, <1>6, FunctionIsSeq
<1> QED
  BY <1>2, <1>4, <1>5, <1>7

LEMMA AbortTyped ==
  ASSUME StackInv, frames # <<>>
  PROVE  /\ AbortStack \in Seq([function : Functions, offset : BOOLEAN])
         /\ Len(AbortStack) = Len(frames) /\ DOMAIN AbortStack = 1 .. Len(frames)
         /\ \A k \in 1 .. Len(frames) :
              AbortStack[k].function = nodes[frames[Len(frames) - k + 1]].function
<1>1. /\ TypeOK /\ Len(frames) \in Nat \ {0} /\ \A i \in Calls : nodes[i] \in Nodes
      /\ \A k \in 1 .. Len(frames) : frames[k] \in Calls
  BY Typed DEF StackInv
<1> DEFINE n == Len(frames)
<1>2. Reverse(frames) = [k \in 1 .. n |-> frames[n - k + 1]]
  BY DEF Reverse
<1>3. AbortStack = [k \in 1 .. n |-> [function |-> nodes[frames[n - k + 1]].function,
                                      offset   |-> k = 1 /\ status = "ExecutionFailure"]]
  BY <1>2 DEF AbortStack
<1>4. ASSUME NEW k \in 1 .. n
      PROVE  nodes[frames[n - k + 1]].function \in Functions
  <2>1. n - k + 1 \in 1 .. n
    BY <1>1
  <2>2. nodes[frames[n - k + 1]] \in Nodes
    BY <1>1, <2>1
  <2> QED
    BY <2>2 DEF Nodes
<1>5. AbortStack \in [1 .. n -> [function : Functions, offset : BOOLEAN]]
  BY <1>3, <1>4
<1>6. AbortStack \in Seq([function : Functions, offset : BOOLEAN]) /\ Len(AbortStack) = n
  BY <1>1, <1>5, FunctionIsSeq
<1> QED
  BY <1>3, <1>6

LEMMA RespondStep ==
  ASSUME StackInv, Respond
  PROVE  StackInv'
<1>1. TypeOK /\ frames # <<>> /\ frames' = <<>> /\ status' = status /\ status \in Outcomes
  BY DEF StackInv, Respond
<1>2. FramesFollowVm' /\ PathInv'
  <2>1. FramesFollowVm'
    BY <1>1 DEF FramesFollowVm, Outcomes, Failures
  <2>2. DOMAIN frames' = {}
    BY <1>1, EmptySeq
  <2> QED
    BY <1>1, <2>1, <2>2 DEF PathInv
<1>3. frames' \in Seq(Calls')
  BY <1>1, EmptySeq
<1>4. CASE status = "Discarded"
  <2>1. nodes' = <<Frame(Root)>> /\ rootArgs' = <<>> /\ abort' = <<>>
    BY <1>4 DEF Respond
  <2>2. nodes' \in Seq(Nodes) /\ nodes' # <<>> /\ nodes'[1].function = Root
    BY <2>1, RootTyped, FrameTyped
  <2>3. /\ rootArgs' \in Seq(Values)
        /\ abort' \in Seq([function : Functions, offset : BOOLEAN])
    BY <2>1, EmptySeq
  <2>4. TypeOK'
    BY <1>1, <1>3, <2>2, <2>3 DEF TypeOK, Respond, Nodes
  <2>5. ~ Telling'
    BY <1>1, <1>4 DEF Telling
  <2> QED
    BY <1>2, <2>2, <2>4, <2>5 DEF StackInv
<1>5. CASE status # "Discarded"
  <2>1. nodes' = Collapsed /\ rootArgs' = rootArgs /\ abort' \in {<<>>, AbortStack}
    BY <1>5 DEF Respond
  <2>2. 1 \in Calls /\ Len(nodes) \in Nat /\ Len(nodes) # 0
    BY <1>1, Typed, EmptySeq DEF StackInv, Calls
  <2>3. nodes' \in Seq(Nodes) /\ Len(nodes') = Len(nodes) /\ nodes'[1].function = Root
    BY <1>1, <2>1, <2>2, CollapsedTree DEF StackInv
  <2>4. abort' \in Seq([function : Functions, offset : BOOLEAN])
    BY <1>1, <2>1, AbortTyped, EmptySeq
  <2>5. TypeOK'
    BY <1>1, <1>3, <2>1, <2>3, <2>4 DEF TypeOK, Respond, Nodes
  <2>6. /\ Len(CalledBy') = Len(nodes') /\ Len(spent') = Len(nodes')
        /\ Len(performed') = Len(nodes') /\ nodes' # <<>>
    BY <1>1, <2>2, <2>3, Unmoved DEF StackInv, Telling, Respond
  <2> QED
    BY <1>2, <2>3, <2>5, <2>6 DEF StackInv
<1> QED
  BY <1>4, <1>5

-----------------------------------------------------------------------------
(* The frames are the VM's calls.                                          *)

LEMMA NothingShown == Shown(<<>>) = <<>>
BY ShownSeq, EmptySeq

LEMMA InitStackInv == Init => StackInv
<1> SUFFICES ASSUME Init PROVE StackInv
  OBVIOUS
<1>1. nodes = <<Frame(Root)>> /\ frames = <<1>> /\ Open = <<>> /\ Frame(Root) \in Nodes
      /\ Frame(Root).function = Root
  BY RootTyped, FrameTyped, NothingShown DEF Init, Open
<1>2. nodes \in Seq(Nodes) /\ Len(nodes) = 1 /\ nodes # <<>> /\ nodes[1].function = Root
  BY <1>1
<1>3. frames \in Seq(Calls) /\ frames # <<>> /\ frames[1] = 1 /\ DOMAIN frames = {1}
  BY <1>1, <1>2 DEF Calls
<1>4. /\ running \in Seq(Nat) /\ caller \in Seq(Nat) /\ spent \in Seq(Nat)
      /\ emitters \in Seq(Seq(Nat)) /\ performed \in Seq(Seq(StorageOps))
      /\ Len(CalledBy) = 1 /\ Len(spent) = 1 /\ Len(performed) = 1
  <2>1. <<>> \in Seq(StorageOps)
    BY EmptySeq
  <2>2. caller = <<1>> /\ caller \in Seq(Nat) /\ Len(caller) = 1
    BY DEF Init
  <2>3. Len(CalledBy) = 1
    BY <2>2, ShownSeq DEF CalledBy
  <2> QED
    BY <2>1, <2>2, <2>3 DEF Init
<1>5. /\ entered \in 0 .. Len(Entries) /\ balance \in 0 .. Budget
      /\ status \in Going /\ rootArgs \in Seq(Values)
      /\ abort \in Seq([function : Functions, offset : BOOLEAN])
  <2>1. Len(Entries) \in Nat
    BY FunctionAssumption, LenProperties
  <2> QED
    BY <2>1, GasAssumption, EmptySeq DEF Init, Going
<1>6. TypeOK
  BY <1>2, <1>3, <1>4, <1>5 DEF TypeOK, Nodes
<1>7. PathInv
  BY <1>2, <1>3 DEF PathInv
<1>8. FramesFollowVm
  BY <1>1 DEF FramesFollowVm, Init
<1> QED
  BY <1>2, <1>4, <1>6, <1>7, <1>8 DEF StackInv

LEMMA StutterStack ==
  ASSUME StackInv, UNCHANGED vars
  PROVE  StackInv'
<1>1. Calls' = Calls
  BY DEF Calls, vars
<1>2. TypeOK'
  BY <1>1 DEF StackInv, TypeOK, vars
<1>3. PathInv' /\ FramesFollowVm'
  BY Unmoved DEF StackInv, PathInv, FramesFollowVm, vars
<1> QED
  BY <1>2, <1>3, Unmoved DEF StackInv, Telling, vars

LEMMA NextStackInv == StackInv /\ [Next]_vars => StackInv'
<1> SUFFICES ASSUME StackInv, [Next]_vars PROVE StackInv'
  OBVIOUS
<1>1. CASE RecordEntryArgs
  BY <1>1, RecordEntryArgsStep
<1>2. CASE (\E cost \in Costs : DelegateOnly(cost)) \/ FailUnseen \/ Succeed
  BY <1>2, QuietSteps
<1>3. CASE \E cost \in Costs : ChargeActive(cost)
  BY <1>3, ChargeActiveStep
<1>4. CASE \E cost \in Costs, op \in StorageOps, succeeds \in BOOLEAN :
             ChargeStorage(op, succeeds, cost)
  BY <1>4, ChargeStorageStep
<1>5. ASSUME NEW cost \in Costs, NEW f \in Callable, ChargeCall(f, cost)
      PROVE  StackInv'
  <2>1. CASE Pays(cost)
    <3>1. status = "running" /\ CallMade(f, Consumed(cost)) /\ f \in Functions
      BY <1>5, <2>1, CallMadeStep DEF InMove, Callable
    <3> QED
      BY <3>1, StackCalled
  <2>2. CASE ~ Pays(cost)
    BY <1>5, <2>2, CallRefusedStep
  <2> QED
    BY <2>1, <2>2
<1>6. CASE \E amount \in Costs : ChargeNativeExecution(amount)
  BY <1>6, ChargeNativeExecutionStep
<1>7. CASE \E cost \in Costs, ret \in Returns : NativeReturns(cost, ret)
  BY <1>7, NativeReturnsStep
<1>8. CASE \E cost \in Costs : NativeAborts(cost)
  BY <1>8, NativeAbortsStep
<1>9. CASE RecordEvent
  BY <1>9, RecordEventStep
<1>10. CASE \E ret \in Returns : RecordMoveReturn(ret)
  BY <1>10, RecordMoveReturnStep
<1>11. CASE Respond
  BY <1>11, RespondStep
<1>12. CASE UNCHANGED vars
  BY <1>12, StutterStack
<1> QED
  BY <1>1, <1>2, <1>3, <1>4, <1>5, <1>6, <1>7, <1>8, <1>9, <1>10, <1>11, <1>12
     DEF Next, Finished

-----------------------------------------------------------------------------
(* The tree is the tree of the calls.                                      *)

\* The calls that `p` made and that are over.
Over(p) == {i \in 2 .. Len(nodes) : CalledBy[i] = p /\ i \notin ToSet(frames)}

TreeInv ==
  /\ \A i \in 2 .. Len(nodes) : CalledBy[i] \in 1 .. i - 1
  /\ \A p \in Calls : ToSet(nodes[p].children) = Over(p)
  /\ \A p \in Calls : \A j, k \in DOMAIN nodes[p].children :
       j < k => nodes[p].children[j] < nodes[p].children[k]

LEMMA TreeGoal ==
  ASSUME TypeOK
  PROVE  TreeIsCallTree <=>
           (status # "Discarded" =>
              /\ \A p \in Calls : ToSet(nodes[p].children) = Over(p)
              /\ \A p \in Calls : \A j, k \in DOMAIN nodes[p].children :
                   j < k => nodes[p].children[j] < nodes[p].children[k])
BY Typed DEF TreeIsCallTree, Over

LEMMA AppendedSet ==
  ASSUME NEW S, NEW s \in Seq(S), NEW e \in S
  PROVE  ToSet(Append(s, e)) = ToSet(s) \cup {e}
<1>1. /\ Len(s) \in Nat /\ DOMAIN s = 1 .. Len(s) /\ Append(s, e) \in Seq(S)
      /\ Len(Append(s, e)) = Len(s) + 1
      /\ \A i \in 1 .. Len(s) : Append(s, e)[i] = s[i]
      /\ Append(s, e)[Len(s) + 1] = e
  BY AppendProperties, LenProperties
<1>2. DOMAIN Append(s, e) = 1 .. Len(s) + 1
  BY <1>1, LenProperties
<1>3. \A i \in 1 .. Len(s) + 1 : i \in 1 .. Len(s) \/ i = Len(s) + 1
  BY <1>1
<1>4. 1 .. Len(s) \subseteq 1 .. Len(s) + 1 /\ Len(s) + 1 \in 1 .. Len(s) + 1
  BY <1>1, OneMore
<1> QED
  BY <1>1, <1>2, <1>3, <1>4 DEF ToSet

\* What is above all a sequence's elements may be put at its end.
LEMMA AppendedOrder ==
  ASSUME NEW s \in Seq(Nat), NEW e \in Nat,
         \A j, k \in DOMAIN s : j < k => s[j] < s[k], \A i \in ToSet(s) : i < e
  PROVE  LET t == Append(s, e) IN \A j, k \in DOMAIN t : j < k => t[j] < t[k]
<1> DEFINE t == Append(s, e)
<1>1. /\ Len(s) \in Nat /\ DOMAIN s = 1 .. Len(s) /\ t \in Seq(Nat)
      /\ Len(t) = Len(s) + 1
      /\ \A i \in 1 .. Len(s) : t[i] = s[i]
      /\ t[Len(s) + 1] = e
  BY AppendProperties, LenProperties
<1> HIDE DEF t
<1>2. DOMAIN t = 1 .. Len(s) + 1
  BY <1>1, LenProperties
<1>3. ASSUME NEW j \in DOMAIN t, NEW k \in DOMAIN t, j < k
      PROVE  t[j] < t[k]
  <2>1. j \in 1 .. Len(s)
    BY <1>1, <1>2, <1>3
  <2>2. CASE k = Len(s) + 1
    BY <1>1, <2>1, <2>2 DEF ToSet
  <2>3. CASE k # Len(s) + 1
    <3>1. k \in 1 .. Len(s)
      BY <1>1, <1>2, <2>3
    <3> QED
      BY <1>1, <1>3, <2>1, <3>1
  <2> QED
    BY <2>2, <2>3
<1> QED
  BY <1>3 DEF t

LEMMA TreeKept ==
  ASSUME StackInv, TreeInv, Keeps, ChildrenKept
  PROVE  TreeInv'
<1>1. Calls' = Calls /\ Len(nodes') = Len(nodes) /\ CalledBy' = CalledBy /\ frames' = frames
  BY Unmoved DEF Keeps, ChildrenKept, Calls
<1>2. \A p : Over(p)' = Over(p)
  BY <1>1 DEF Over
<1>3. \A p \in Calls : nodes'[p].children = nodes[p].children
  BY DEF ChildrenKept
<1> QED
  BY <1>1, <1>2, <1>3 DEF TreeInv

\* The frame that is popped is the latest of its parent's calls that are over.
LEMMA LatestOver ==
  ASSUME StackInv, frames # <<>>, Len(frames) > 1
  PROVE  LET parent == frames[Len(frames) - 1]
         IN  /\ parent \in Calls /\ Active \in 2 .. Len(nodes) /\ CalledBy[Active] = parent
             /\ Active \in ToSet(frames) /\ ToSet(Popped(frames)) = ToSet(frames) \ {Active}
             /\ \A i \in Over(parent) : i < Active
<1> DEFINE n == Len(frames)
           parent == frames[n - 1]
<1>1. /\ TypeOK /\ n \in Nat \ {0} /\ DOMAIN frames = 1 .. n /\ Len(nodes) \in Nat
      /\ \A k \in 1 .. n : frames[k] \in Calls /\ frames[k] \in Nat
  BY Typed DEF StackInv, Calls
<1>2. n - 1 \in 1 .. n /\ n \in 1 .. n /\ n - 1 < n /\ n > 1
  BY <1>1
<1>3. Active = frames[n] /\ parent < Active /\ CalledBy[Active] = parent
  BY <1>1, <1>2 DEF StackInv, PathInv, Active, Last
<1>4. parent \in 1 .. Len(nodes) /\ Active \in 1 .. Len(nodes)
  BY <1>1, <1>2, <1>3 DEF Calls
<1>5. Active \in 2 .. Len(nodes)
  BY <1>1, <1>3, <1>4
<1>6. Active \in ToSet(frames)
  BY <1>1, <1>2, <1>3 DEF ToSet
<1>7. ToSet(Popped(frames)) = ToSet(frames) \ {Active}
  <2>1. DOMAIN Popped(frames) = 1 .. n - 1 /\ \A k \in 1 .. n - 1 : Popped(frames)[k] = frames[k]
    BY <1>1, <1>2, PoppedFrames
  <2>2. \A k \in 1 .. n : k \in 1 .. n - 1 \/ k = n
    BY <1>1, Below
  <2>3. \A k \in 1 .. n - 1 : k \in 1 .. n /\ k < n
    BY <1>1
  <2>4. \A k \in 1 .. n - 1 : frames[k] < frames[n]
    BY <1>1, <1>2, <2>3 DEF StackInv, PathInv
  <2>5. \A k \in 1 .. n - 1 : frames[k] # Active
    BY <1>1, <1>2, <1>3, <2>3, <2>4
  <2> QED
    BY <1>1, <1>3, <2>1, <2>2, <2>3, <2>5 DEF ToSet
<1>8. ASSUME NEW i \in Over(parent)
      PROVE  i < Active
  <2>1. i \in 2 .. Len(nodes) /\ CalledBy[i] = parent /\ i # Active
    BY <1>6 DEF Over
  <2>2. Active < i => Active <= CalledBy[i]
    BY <1>1, <1>2, <1>3, <2>1 DEF StackInv, PathInv
  <2> QED
    BY <1>1, <1>3, <1>4, <2>1, <2>2
<1> QED
  BY <1>3, <1>4, <1>5, <1>6, <1>7, <1>8 DEF Calls

LEMMA TreeGrown ==
  ASSUME StackInv, TreeInv, frames # <<>>, Keeps, ChildAdded
  PROVE  TreeInv'
<1>1. /\ Calls' = Calls /\ Len(nodes') = Len(nodes) /\ CalledBy' = CalledBy
      /\ frames' = Popped(frames)
  BY Unmoved DEF Keeps, ChildAdded, Calls
<1>2. CASE ~ Len(frames) > 1
  <2>1. frames' = frames /\ ChildrenKept
    BY <1>1, <1>2 DEF Popped, ChildAdded, ChildrenKept
  <2> QED
    BY <2>1, TreeKept
<1>3. CASE Len(frames) > 1
  <2>0. PICK parent \in Calls : parent = frames[Len(frames) - 1]
    BY <1>3, LatestOver
  <2>1. /\ parent \in Calls /\ Active \in 2 .. Len(nodes) /\ CalledBy[Active] = parent
        /\ Active \in ToSet(frames) /\ ToSet(frames') = ToSet(frames) \ {Active}
        /\ \A i \in Over(parent) : i < Active
    BY <1>1, <1>3, <2>0, LatestOver
  <2>2. /\ \A p \in Calls : p # parent => nodes'[p].children = nodes[p].children
        /\ nodes'[parent].children = Append(nodes[parent].children, Active)
    BY <1>3, <2>0, <2>1 DEF ChildAdded
  <2>3. Over(parent)' = Over(parent) \cup {Active} /\ \A p : p # parent => Over(p)' = Over(p)
    BY <1>1, <2>1 DEF Over
  <2>4. nodes[parent].children \in Seq(Nat) /\ Active \in Nat
    BY <2>1, Typed DEF StackInv, Nodes
  <2>5. ToSet(nodes'[parent].children) = ToSet(nodes[parent].children) \cup {Active}
    BY <2>2, <2>4, AppendedSet
  <2>6. \A i \in ToSet(nodes[parent].children) : i < Active
    BY <2>1 DEF TreeInv
  <2>7. \A j, k \in DOMAIN nodes'[parent].children :
           j < k => nodes'[parent].children[j] < nodes'[parent].children[k]
    BY <2>1, <2>2, <2>4, <2>6, AppendedOrder DEF TreeInv
  <2>8. ASSUME NEW p \in Calls
        PROVE  /\ ToSet(nodes'[p].children) = Over(p)'
               /\ \A j, k \in DOMAIN nodes'[p].children :
                    j < k => nodes'[p].children[j] < nodes'[p].children[k]
    <3>1. CASE p = parent
      BY <2>1, <2>3, <2>5, <2>7, <3>1 DEF TreeInv
    <3>2. CASE p # parent
      BY <2>2, <2>3, <3>2 DEF TreeInv
    <3> QED
      BY <3>1, <3>2
  <2> QED
    BY <1>1, <2>8 DEF TreeInv
<1> QED
  BY <1>2, <1>3

LEMMA NewOne ==
  \A n \in Nat : /\ \A i \in 2 .. n + 1 : i \in 2 .. n \/ i = n + 1
                 /\ \A i \in 1 .. n + 1 : i \in 1 .. n \/ i = n + 1
                 /\ n + 1 \notin 1 .. n
OBVIOUS

LEMMA TreeCalled ==
  ASSUME StackInv, TreeInv, status = "running", NEW f \in Functions, NEW c, CallMade(f, c)
  PROVE  TreeInv'
<1> DEFINE callee == Len(nodes) + 1
<1>1. PICK new \in Nat : new = callee
  BY Typed DEF StackInv
<1>2. /\ Len(nodes) \in Nat /\ Calls' = 1 .. new /\ Len(nodes') = new
      /\ \A i \in 2 .. new : i \in 2 .. Len(nodes) \/ i = new
      /\ \A i \in 1 .. new : i \in Calls \/ i = new
      /\ new \notin Calls
  <2>1. Len(nodes) \in Nat /\ Calls = 1 .. Len(nodes) /\ Len(nodes') = new /\ Calls' = 1 .. new
    BY <1>1, Typed DEF StackInv, Calls, CallMade
  <2> QED
    BY <1>1, <2>1, NewOne
<1>3. Top \in Calls /\ Top \in 1 .. new - 1
  BY <1>1, OnTop DEF Calls
<1>4. CalledBy'[new] = Top /\ \A i \in 2 .. Len(nodes) : i \in Calls /\ CalledBy'[i] = CalledBy[i]
  BY <1>1, <1>2 DEF CallMade, Calls
<1>5. \A i \in 2 .. Len(nodes') : CalledBy'[i] \in 1 .. i - 1
  BY <1>2, <1>3, <1>4 DEF TreeInv
<1>6. ToSet(frames') = ToSet(frames) \cup {new}
  <2>1. frames \in Seq(Nat) /\ frames' = Append(frames, new)
    BY <1>1, Typed, SeqMonotonic DEF StackInv, Calls, CallMade
  <2> QED
    BY <2>1, AppendedSet
<1>7. ASSUME NEW p \in Calls
      PROVE  Over(p)' = Over(p) /\ nodes'[p].children = nodes[p].children
  <2>1. ASSUME NEW i \in 2 .. new PROVE i \in Over(p)' <=> i \in Over(p)
    <3>1. CASE i = new
      BY <1>2, <1>6, <3>1 DEF Over, Calls
    <3>2. CASE i # new
      BY <1>2, <1>4, <1>6, <3>2 DEF Over
    <3> QED
      BY <3>1, <3>2
  <2>2. Over(p) \subseteq 2 .. new /\ Over(p)' \subseteq 2 .. new
    BY <1>1, <1>2 DEF Over
  <2>3. Over(p)' = Over(p)
    BY <2>1, <2>2
  <2> QED
    BY <2>3 DEF CallMade
<1>8. ToSet(nodes'[new].children) = Over(new)' /\ DOMAIN nodes'[new].children = {}
  <2>1. nodes'[new].children = <<>>
    <3>1. nodes'[new] = Frame(f)
      BY <1>1 DEF CallMade
    <3> QED
      BY <3>1, FrameTyped
  <2>2. DOMAIN nodes'[new].children = {}
    BY <2>1, EmptySeq
  <2>3. ToSet(nodes'[new].children) = {}
    BY <2>2 DEF ToSet
  <2>4. \A i \in 2 .. new : CalledBy'[i] # new
    BY <1>2, <1>5
  <2> QED
    BY <1>2, <2>2, <2>3, <2>4 DEF Over
<1>9. \A p \in Calls' : p \in Calls \/ p = new
  BY <1>2
<1>10. \A p \in Calls' : ToSet(nodes'[p].children) = Over(p)'
  BY <1>7, <1>8, <1>9 DEF TreeInv
<1>11. \A p \in Calls' : \A j, k \in DOMAIN nodes'[p].children :
         j < k => nodes'[p].children[j] < nodes'[p].children[k]
  BY <1>7, <1>8, <1>9 DEF TreeInv
<1> QED
  BY <1>5, <1>10, <1>11 DEF TreeInv

LEMMA TreeCollapsed ==
  ASSUME StackInv, TreeInv, frames # <<>>, nodes' = Collapsed, frames' = <<>>, caller' = caller
  PROVE  TreeInv'
<1> DEFINE n == Len(frames)
<1>1. /\ TypeOK /\ n \in Nat \ {0} /\ DOMAIN frames = 1 .. n /\ Len(nodes) \in Nat
      /\ \A k \in 1 .. n : frames[k] \in Calls /\ frames[k] \in Nat
  BY Typed DEF StackInv, Calls
<1>2. Calls' = Calls /\ Len(nodes') = Len(nodes)
  BY CollapsedTree DEF Calls
<1>3. ToSet(frames') = {}
  <2>1. DOMAIN frames' = {}
    BY EmptySeq
  <2> QED
    BY <2>1 DEF ToSet
<1>4. \A p : Over(p)' = {i \in 2 .. Len(nodes) : CalledBy[i] = p}
  BY <1>2, <1>3, Unmoved DEF Over
\* The frames that are calls of `p`.
<1>5. ASSUME NEW i \in 2 .. Len(nodes), i \in ToSet(frames)
      PROVE  \E k \in 1 .. n - 1 : i = frames[k + 1] /\ CalledBy[i] = frames[k]
  <2>1. PICK m \in 1 .. n : i = frames[m]
    BY <1>1, <1>5 DEF ToSet
  <2>2. m # 1
    BY <1>1, <1>5, <2>1 DEF StackInv, PathInv
  <2>3. m > 1 /\ m - 1 \in 1 .. n - 1 /\ (m - 1) + 1 = m
    BY <1>1, <2>1, <2>2
  <2>4. CalledBy[frames[m]] = frames[m - 1]
    BY <1>1, <2>1, <2>3 DEF StackInv, PathInv
  <2> QED
    BY <2>1, <2>3, <2>4
<1>6. ASSUME NEW p \in Calls, \A k \in 1 .. n - 1 : frames[k] # p
      PROVE  Over(p)' = Over(p) /\ nodes'[p].children = nodes[p].children
  <2>1. \A i \in 2 .. Len(nodes) : CalledBy[i] = p => i \notin ToSet(frames)
    BY <1>5, <1>6
  <2>2. Over(p)' = Over(p)
    BY <1>4, <2>1 DEF Over
  <2> QED
    BY <1>6, <2>2, CollapsedTree
<1>7. ASSUME NEW k \in 1 .. n - 1, NEW p \in Calls, p = frames[k]
      PROVE  /\ ToSet(nodes'[p].children) = Over(p)'
             /\ \A i, j \in DOMAIN nodes'[p].children :
                  i < j => nodes'[p].children[i] < nodes'[p].children[j]
  <2>1. k \in 1 .. n /\ k + 1 \in 1 .. n /\ k < k + 1 /\ k + 1 > 1 /\ (k + 1) - 1 = k
    BY <1>1
  <2>2. PICK child \in Nat : child = frames[k + 1]
    BY <1>1, <2>1
  <2>3. p < child /\ CalledBy[child] = p /\ child \in Calls
    BY <1>1, <1>7, <2>1, <2>2 DEF StackInv, PathInv
  <2>4. child \in 2 .. Len(nodes) /\ child \in ToSet(frames)
    <3>1. child \in 1 .. Len(nodes) /\ p \in 1 .. Len(nodes)
      BY <2>3 DEF Calls
    <3>2. child \in 2 .. Len(nodes)
      BY <1>1, <2>3, <3>1
    <3> QED
      BY <1>1, <2>1, <2>2, <3>2 DEF ToSet
  <2>5. ASSUME NEW i \in 2 .. Len(nodes), CalledBy[i] = p, i \in ToSet(frames)
        PROVE  i = child
    <3>1. PICK m \in 1 .. n - 1 : i = frames[m + 1] /\ CalledBy[i] = frames[m]
      BY <1>5, <2>5
    <3>2. m \in 1 .. n /\ k \in 1 .. n /\ frames[m] = frames[k] /\ frames[k] \in Nat
      BY <1>1, <1>7, <2>1, <2>5, <3>1
    <3>3. (m < k => frames[m] < frames[k]) /\ (k < m => frames[k] < frames[m])
      BY <1>1, <3>2 DEF StackInv, PathInv
    <3>4. m = k
      BY <3>2, <3>3
    <3> QED
      BY <2>2, <3>1, <3>4
  <2>6. Over(p)' = Over(p) \cup {child}
    <3>1. \A i \in 2 .. Len(nodes) :
            CalledBy[i] = p <=> (CalledBy[i] = p /\ i \notin ToSet(frames)) \/ i = child
      BY <2>3, <2>5
    <3> QED
      BY <1>4, <2>4, <3>1 DEF Over
  <2>7. nodes'[p].children = Append(nodes[p].children, child)
    BY <1>7, <2>2, CollapsedTree
  <2>8. nodes[p].children \in Seq(Nat)
    BY <1>1, Typed DEF Nodes
  <2>9. ToSet(nodes'[p].children) = ToSet(nodes[p].children) \cup {child}
    BY <2>7, <2>8, AppendedSet
  <2>10. ASSUME NEW i \in Over(p)
         PROVE  i < child
    <3>1. i \in 2 .. Len(nodes) /\ CalledBy[i] = p /\ i # child
      BY <2>4 DEF Over
    <3>2. child < i => child <= CalledBy[i]
      BY <1>1, <2>1, <2>2, <3>1 DEF StackInv, PathInv
    <3>3. p \in Nat
      BY DEF Calls
    <3> QED
      BY <2>3, <3>1, <3>2, <3>3
  <2>11. \A i \in ToSet(nodes[p].children) : i < child
    BY <2>10 DEF TreeInv
  <2>12. \A i, j \in DOMAIN nodes'[p].children :
            i < j => nodes'[p].children[i] < nodes'[p].children[j]
    BY <2>7, <2>8, <2>11, AppendedOrder DEF TreeInv
  <2> QED
    BY <2>6, <2>9, <2>12 DEF TreeInv
<1>8. ASSUME NEW p \in Calls
      PROVE  /\ ToSet(nodes'[p].children) = Over(p)'
             /\ \A i, j \in DOMAIN nodes'[p].children :
                  i < j => nodes'[p].children[i] < nodes'[p].children[j]
  <2>1. CASE \E k \in 1 .. n - 1 : p = frames[k]
    BY <1>7, <2>1
  <2>2. CASE \A k \in 1 .. n - 1 : frames[k] # p
    BY <1>6, <2>2 DEF TreeInv
  <2> QED
    BY <2>1, <2>2
<1> QED
  BY <1>2, <1>8, Unmoved DEF TreeInv

-----------------------------------------------------------------------------
(* Results.                                                                *)

ResultInv ==
  /\ \A i \in 2 .. Len(nodes) : IsMove(i) => (nodes[i].ret # None <=> i \notin ToSet(Open))
  /\ nodes[1].ret # None <=> EntriesOver > 0
  /\ running # <<>> => entered > 0

\* The entries make no difference to the other calls.
LEMMA OpenCallsRun ==
  ASSUME TypeOK, NEW i \in Nat, i > 1
  PROVE  i \in ToSet(Open) <=> i \in ToSet(running)
<1>1. running \in Seq(Nat) /\ DOMAIN Open = DOMAIN running
      /\ \A k \in DOMAIN running : running[k] \in Nat /\ Open[k] = ShownAs(running[k])
  BY ShownSeq DEF TypeOK, Open
<1>2. \A k \in DOMAIN running : Open[k] = i <=> running[k] = i
  BY <1>1 DEF ShownAs
<1> QED
  BY <1>1, <1>2 DEF ToSet

LEMMA ResultsGoal ==
  ASSUME TypeOK, status # "Discarded" => ResultInv
  PROVE  ResultIffReturned
<1> SUFFICES ASSUME status # "Discarded"
             PROVE  /\ \A i \in 2 .. Len(nodes) :
                         IsMove(i) => (nodes[i].ret # None <=> i \notin ToSet(running))
                    /\ nodes[1].ret # None <=> EntriesOver > 0
  BY DEF ResultIffReturned
<1>1. Len(nodes) \in Nat
  BY DEF TypeOK
<1>2. \A i \in 2 .. Len(nodes) : i \in ToSet(Open) <=> i \in ToSet(running)
  BY <1>1, OpenCallsRun
<1> QED
  BY <1>2 DEF ResultInv

LEMMA RootIsCall ==
  ASSUME StackInv
  PROVE  1 \in Calls /\ IsMove(1) /\ entered \in Nat
<1>1. nodes \in Seq(Nodes) /\ Len(nodes) \in Nat /\ nodes # <<>> /\ nodes[1].function = Root
  BY Typed DEF StackInv
<1>2. Len(nodes) # 0
  BY <1>1, EmptySeq
<1> QED
  BY <1>1, <1>2, RootTyped, FunctionAssumption, LenProperties DEF Calls, IsMove, StackInv, TypeOK

\* A call is left, and the root with the last of them.
LEMMA RootLeft ==
  ASSUME StackInv, status = "running", running' = Front(running)
  PROVE  running # <<>> /\ (running' = <<>> <=> Top = 1)
<1>1. /\ frames # <<>> /\ frames = Open /\ Len(frames) \in Nat \ {0} /\ Top = frames[Len(frames)]
      /\ Len(frames) \in DOMAIN frames /\ DOMAIN frames = 1 .. Len(frames)
  BY OnTop, Typed DEF StackInv
<1>2. frames[1] = 1 /\ \A j, k \in DOMAIN frames : j < k => frames[j] < frames[k]
  BY <1>1 DEF StackInv, PathInv
<1>3. running \in Seq(Nat) /\ Len(running) = Len(frames) /\ running # <<>>
  BY <1>1, OpenTyped DEF StackInv
<1>4. Len(running') = Len(frames) - 1 /\ running' \in Seq(Nat)
  BY <1>1, <1>3, Fronts
<1>5. running' = <<>> <=> Len(frames) = 1
  BY <1>1, <1>4, EmptySeq
<1>6. Len(frames) = 1 => Top = 1
  BY <1>1, <1>2
<1>7. Len(frames) # 1 => Top # 1
  <2>1. SUFFICES ASSUME Len(frames) # 1 PROVE Top # 1
    OBVIOUS
  <2>2. 1 \in DOMAIN frames /\ 1 < Len(frames)
    BY <1>1, <2>1
  <2>3. frames[1] < frames[Len(frames)]
    BY <1>1, <1>2, <2>2
  <2> QED
    BY <1>1, <1>2, <2>3
<1> QED
  BY <1>3, <1>5, <1>6, <1>7

LEMMA SameMoves ==
  ASSUME Keeps
  PROVE  Len(nodes') = Len(nodes) /\ \A i \in Calls : IsMove(i)' = IsMove(i)
BY DEF Keeps, IsMove

LEMMA NotRoot ==
  ASSUME TypeOK
  PROVE  \A i \in 2 .. Len(nodes) : i \in Calls
BY Typed DEF Calls

LEMMA FrontSet ==
  ASSUME StackInv, status = "running"
  PROVE  ToSet(Front(Open)) = ToSet(Open) \ {Top}
<1>1. /\ frames # <<>> /\ frames = Open /\ Active = Top /\ Len(frames) \in Nat \ {0}
      /\ frames \in Seq(Calls) /\ frames[1] = 1 /\ Top = frames[Len(frames)]
  BY OnTop, Typed DEF StackInv, PathInv
<1>2. CASE Len(frames) > 1
  BY <1>1, <1>2, LatestOver DEF Popped
<1>3. CASE ~ Len(frames) > 1
  <2>1. Len(frames) = 1
    BY <1>1, <1>3, OneLeft
  <2>2. Front(Open) = <<>>
    BY <1>1, <2>1, SubSeqEmpty DEF Front
  <2>3. DOMAIN Open = {1} /\ Open[1] = Top
    BY <1>1, <2>1, LenProperties
  <2>4. DOMAIN Front(Open) = {}
    BY <2>2, EmptySeq
  <2> QED
    BY <2>3, <2>4 DEF ToSet
<1> QED
  BY <1>2, <1>3

LEMMA FrontOpen ==
  ASSUME StackInv, status = "running", running' = Front(running)
  PROVE  ToSet(Open') = ToSet(Open) \ {Top}
<1>1. running \in Seq(Nat) /\ running # <<>>
  BY RootLeft DEF StackInv, TypeOK
<1>2. Open' = Front(Open)
  BY <1>1, ShownFront DEF Open
<1> QED
  BY <1>2, FrontSet

LEMMA ResultKept ==
  ASSUME StackInv, ResultInv, Keeps, RetsKept,
         \A i \in 2 .. Len(nodes) : i \in ToSet(Open') <=> i \in ToSet(Open),
         EntriesOver' = EntriesOver, running' # <<>> => entered' > 0
  PROVE  ResultInv'
<1>1. \A i \in 2 .. Len(nodes) : i \in Calls
  BY NotRoot DEF StackInv
<1>2. \A i \in 2 .. Len(nodes) :
        IsMove(i)' => (nodes'[i].ret # None <=> i \notin ToSet(Open'))
  BY <1>1, SameMoves DEF ResultInv, RetsKept
<1>3. nodes'[1].ret = nodes[1].ret
  BY RootIsCall DEF RetsKept
<1> QED
  BY <1>2, <1>3, SameMoves DEF ResultInv

\* The same calls are under way.
LEMMA ResultStays ==
  ASSUME StackInv, ResultInv, Keeps, RetsKept, running' = running, entered' = entered
  PROVE  ResultInv'
<1>1. Open' = Open /\ EntriesOver' = EntriesOver
  BY Unmoved DEF EntriesOver
<1>2. running' # <<>> => entered' > 0
  BY DEF ResultInv
<1> QED
  BY <1>1, <1>2, ResultKept

\* A native's values are not the result of a Move call.
LEMMA ResultOfNative ==
  ASSUME StackInv, ResultInv, Keeps, RetsChangeOnTop, TopFunction \in Natives,
         running' = running \/ (status = "running" /\ running' = Front(running)),
         entered' = entered
  PROVE  ResultInv'
<1>1. \A i \in 2 .. Len(nodes) : i \in Calls
  BY NotRoot DEF StackInv
<1>2. \A i : i # Top => (i \in ToSet(Open') <=> i \in ToSet(Open))
  BY FrontOpen, Unmoved
<1>3. ~ IsMove(Top)
  BY DEF IsMove, TopFunction
<1>4. \A i \in 2 .. Len(nodes) :
        IsMove(i)' => (nodes'[i].ret # None <=> i \notin ToSet(Open'))
  BY <1>1, <1>2, <1>3, SameMoves DEF ResultInv, RetsChangeOnTop
<1>5. Top # 1 /\ nodes'[1].ret = nodes[1].ret
  BY <1>3, RootIsCall DEF RetsChangeOnTop
<1>6. running' = <<>> <=> running = <<>>
  BY <1>5, RootLeft
<1>7. EntriesOver' = EntriesOver
  BY <1>6 DEF EntriesOver
<1> QED
  BY <1>4, <1>5, <1>6, <1>7, SameMoves DEF ResultInv

LEMMA ResultReturned ==
  ASSUME StackInv, ResultInv, Keeps, RetsChangeOnTop, nodes'[Top].ret # None,
         status = "running", running' = Front(running), entered' = entered
  PROVE  ResultInv'
<1>1. \A i \in 2 .. Len(nodes) : i \in Calls
  BY NotRoot DEF StackInv
<1>2. ToSet(Open') = ToSet(Open) \ {Top}
  BY FrontOpen
<1>3. \A i \in 2 .. Len(nodes) :
        IsMove(i)' => (nodes'[i].ret # None <=> i \notin ToSet(Open'))
  BY <1>1, <1>2, SameMoves DEF ResultInv, RetsChangeOnTop
<1>4. running # <<>> /\ entered \in Nat /\ entered > 0 /\ (running' = <<>> <=> Top = 1)
  BY RootLeft, RootIsCall DEF ResultInv
<1>5. nodes'[1].ret # None <=> EntriesOver' > 0
  <2>1. CASE Top = 1
    BY <1>4, <2>1 DEF EntriesOver
  <2>2. CASE Top # 1
    <3>1. nodes'[1].ret = nodes[1].ret
      BY <2>2, RootIsCall DEF RetsChangeOnTop
    <3>2. EntriesOver' = EntriesOver
      BY <1>4, <2>2 DEF EntriesOver
    <3> QED
      BY <3>1, <3>2 DEF ResultInv
  <2> QED
    BY <2>1, <2>2
<1> QED
  BY <1>3, <1>4, <1>5, SameMoves DEF ResultInv

LEMMA ResultCalled ==
  ASSUME StackInv, ResultInv, status = "running", NEW f \in Functions, NEW c, CallMade(f, c)
  PROVE  ResultInv'
<1>1. PICK new \in Nat : new = Len(nodes) + 1
  BY Typed DEF StackInv
<1>2. /\ \A i \in 2 .. new : i \in 2 .. Len(nodes) \/ i = new
      /\ \A i \in 2 .. Len(nodes) : i \in Calls /\ i # new
  BY <1>1, Typed, NewOne, NotRoot DEF StackInv, Calls
<1>3. ToSet(Open') = ToSet(Open) \cup {new}
  <2>1. frames \in Seq(Nat) /\ Open' = Append(frames, new) /\ frames = Open
    BY <1>1, Typed, OnTop, SeqMonotonic DEF StackInv, Calls, CallMade
  <2> QED
    BY <2>1, AppendedSet
<1>4. nodes'[new].ret = None
  <2>1. nodes'[new] = Frame(f)
    BY <1>1 DEF CallMade
  <2> QED
    BY <2>1, FrameTyped
<1>5. \A i \in 2 .. Len(nodes) : IsMove(i)' = IsMove(i) /\ nodes'[i].ret = nodes[i].ret
  BY <1>2 DEF CallMade, IsMove
<1>6. Len(nodes') = new
  BY <1>1 DEF CallMade
<1>7. \A i \in 2 .. new : IsMove(i)' => (nodes'[i].ret # None <=> i \notin ToSet(Open'))
  BY <1>2, <1>3, <1>4, <1>5 DEF ResultInv
<1>8. nodes'[1].ret = nodes[1].ret
  BY RootIsCall DEF CallMade
<1>9. /\ running # <<>> /\ running' # <<>> /\ entered' = entered
      /\ EntriesOver' = EntriesOver
  BY DEF CallMade, EntriesOver
<1> QED
  BY <1>6, <1>7, <1>8, <1>9 DEF ResultInv

LEMMA ResultCollapsed ==
  ASSUME StackInv, ResultInv, frames # <<>>, nodes' = Collapsed, running' = running,
         entered' = entered
  PROVE  ResultInv'
<1>1. \A i \in 2 .. Len(nodes) : i \in Calls
  BY NotRoot DEF StackInv
<1>2. Len(nodes') = Len(nodes)
      /\ \A i \in Calls : nodes'[i].ret = nodes[i].ret /\ nodes'[i].function = nodes[i].function
  BY CollapsedTree
<1>3. Open' = Open /\ EntriesOver' = EntriesOver
  BY Unmoved DEF EntriesOver
<1>4. nodes'[1].ret = nodes[1].ret
  BY <1>2, RootIsCall
<1>5. \A i \in 2 .. Len(nodes) :
        IsMove(i)' => (nodes'[i].ret # None <=> i \notin ToSet(Open'))
  BY <1>1, <1>2, <1>3 DEF ResultInv, IsMove
<1> QED
  BY <1>2, <1>3, <1>4, <1>5 DEF ResultInv

-----------------------------------------------------------------------------
(* Gas.                                                                    *)

\* A call that shows more than it spent.
Overdrawn(i) ==
  /\ status \in Failures \cup {"nativeOut"} /\ balance = 0
  /\ i = Top /\ ~ IsMove(i) /\ spent[i] < SelfGas(i)

GasInv == \A i \in Calls : SelfGas(i) = spent[i] \/ Overdrawn(i)

LEMMA GasTyped ==
  ASSUME StackInv, Telling
  PROVE  \A i \in Calls : spent[i] \in Nat /\ SelfGas(i) \in Nat
<1>1. /\ TypeOK /\ spent \in Seq(Nat) /\ Len(spent) = Len(nodes)
      /\ \A i \in Calls : nodes[i] \in Nodes
  BY Typed DEF StackInv
<1>2. \A i \in Calls : spent[i] \in Nat
  BY <1>1, ElementOfSeq DEF Calls
<1>3. \A i \in Calls : nodes[i].self \in Nat /\ nodes[i].native \in Nat
  BY <1>1 DEF Nodes
<1> QED
  BY <1>2, <1>3 DEF SelfGas

LEMMA SpentOn ==
  ASSUME StackInv, Telling, NEW paid \in Nat, spent' = [spent EXCEPT ![Top] = @ + paid]
  PROVE  \A i \in Calls : spent'[i] = IF i = Top THEN spent[i] + paid ELSE spent[i]
<1>1. DOMAIN spent = Calls
  BY Typed, LenProperties DEF StackInv, Calls
<1> QED
  BY <1>1

\* Until a native has emptied the balance every call shows what it spent.
LEMMA NoneOverdrawn ==
  ASSUME GasInv, status \in {"between", "running"}
  PROVE  \A i \in Calls : SelfGas(i) = spent[i]
BY DEF GasInv, Overdrawn, Failures

\* What is shown and what is paid agree, but for the amount of a native that takes the
\* balance to its end.
LEMMA GasCharged ==
  ASSUME StackInv, Telling, GasInv, Keeps, status = "running", NEW shown \in Nat,
         NEW paid \in Nat, GasShown(shown, paid),
         \/ shown = paid
         \/ /\ paid < shown /\ balance' = 0 /\ TopFunction \in Natives
            /\ running' = running /\ status' = "nativeOut"
  PROVE  GasInv'
<1>1. Calls' = Calls
  BY DEF Calls, Keeps
<1>2. ASSUME NEW i \in Calls
      PROVE  SelfGas(i)' = spent'[i] \/ Overdrawn(i)'
  <2>1. spent[i] \in Nat /\ SelfGas(i) = spent[i]
    BY GasTyped, NoneOverdrawn
  <2>2. CASE i # Top
    BY <2>1, <2>2, SpentOn DEF GasShown
  <2>3. CASE i = Top
    <3>1. spent'[i] = spent[i] + paid /\ SelfGas(i)' = spent[i] + shown
      BY <2>1, <2>3, SpentOn DEF GasShown
    <3>2. CASE shown = paid
      BY <3>1, <3>2
    <3>3. CASE /\ paid < shown /\ balance' = 0 /\ TopFunction \in Natives
               /\ running' = running /\ status' = "nativeOut"
      <4>1. spent'[i] < SelfGas(i)'
        BY <2>1, <3>1, <3>3
      <4>2. ~ IsMove(i)' /\ i = Top'
        BY <2>3, <3>3, SameMoves, Unmoved DEF IsMove, TopFunction, Top
      <4> QED
        BY <3>3, <4>1, <4>2 DEF Overdrawn
    <3> QED
      BY <3>2, <3>3
  <2> QED
    BY <2>2, <2>3
<1> QED
  BY <1>1, <1>2 DEF GasInv

\* A native that has emptied the balance is charged nothing more.
LEMMA GasUsedUp ==
  ASSUME StackInv, Telling, GasInv, Keeps, GasShown(0, 0), running' = running,
         balance' = balance, status = "nativeOut", status' \in Failures
  PROVE  GasInv'
<1>1. Calls' = Calls /\ Top' = Top
  BY Unmoved DEF Calls, Keeps, Top
<1>2. ASSUME NEW i \in Calls
      PROVE  SelfGas(i)' = spent'[i] \/ Overdrawn(i)'
  <2>1. spent[i] \in Nat /\ SelfGas(i) \in Nat
    BY GasTyped
  <2>2. spent'[i] = spent[i] /\ SelfGas(i)' = SelfGas(i) /\ IsMove(i)' = IsMove(i)
    BY <2>1, SpentOn, SameMoves DEF GasShown
  <2> QED
    BY <1>1, <2>2 DEF GasInv, Overdrawn
<1> QED
  BY <1>1, <1>2 DEF GasInv

LEMMA GasUncharged ==
  ASSUME GasInv, Keeps, GasKept, status \in {"between", "running"}
  PROVE  GasInv'
<1>1. Calls' = Calls
  BY DEF Calls, Keeps
<1> QED
  BY <1>1, NoneOverdrawn DEF GasInv, GasKept

LEMMA GasCalled ==
  ASSUME StackInv, GasInv, status = "running", NEW f \in Functions, NEW c \in Nat,
         CallMade(f, c)
  PROVE  GasInv'
<1>1. PICK new \in Nat : new = Len(nodes) + 1
  BY Typed DEF StackInv
<1>2. \A i \in Calls' : i \in Calls \/ i = new
  <2>1. Calls' = 1 .. Len(nodes) + 1 /\ Len(nodes) \in Nat
    BY Typed DEF Calls, CallMade, StackInv
  <2> QED
    BY <1>1, <2>1, NewOne DEF Calls
<1>3. ASSUME NEW i \in Calls
      PROVE  SelfGas(i)' = spent'[i]
  <2>1. SelfGas(i) = spent[i]
    BY NoneOverdrawn
  <2>2. \/ spent'[i] = spent[i] /\ SelfGas(i)' = SelfGas(i)
        \/ spent'[i] = spent[i] + c /\ SelfGas(i)' = SelfGas(i) + c
    BY DEF CallMade
  <2> QED
    BY <2>1, <2>2
<1>4. spent'[new] = 0 /\ SelfGas(new)' = 0
  <2>1. spent'[new] = 0 /\ nodes'[new] = Frame(f)
    BY <1>1 DEF CallMade
  <2> QED
    BY <2>1, FrameTyped DEF SelfGas
<1> QED
  BY <1>2, <1>3, <1>4 DEF GasInv

LEMMA GasCollapsed ==
  ASSUME StackInv, GasInv, frames # <<>>, nodes' = Collapsed,
         UNCHANGED <<spent, balance, running, status>>
  PROVE  GasInv'
<1>1. /\ Calls' = Calls /\ Top' = Top
      /\ \A i \in Calls : /\ nodes'[i].function = nodes[i].function
                          /\ nodes'[i].self = nodes[i].self /\ nodes'[i].native = nodes[i].native
  BY CollapsedTree, Unmoved DEF Calls, Top
<1> QED
  BY <1>1 DEF GasInv, Overdrawn, SelfGas, IsMove

-----------------------------------------------------------------------------
(* Events.                                                                 *)

InEventModule(i) == Module[nodes[i].function] = EventModule

\* Event `e` is with the nearest call outside of the event module.
Placed(e) ==
  \E i \in ToSet(Emitting[e]) :
    /\ e \in ToSet(nodes[i].events)
    /\ i = 1 \/ ~ InEventModule(i)
    /\ \A j \in ToSet(Emitting[e]) : j > i => InEventModule(j)

EventsInv ==
  /\ \A e \in DOMAIN Emitting : ToSet(Emitting[e]) \subseteq Calls /\ Placed(e)
  /\ \A i \in Calls : ToSet(nodes[i].events) \subseteq DOMAIN Emitting
  /\ \A i \in Calls : \A j, k \in DOMAIN nodes[i].events :
       j < k => nodes[i].events[j] < nodes[i].events[k]
  /\ \A h, i \in Calls :
       h # i => ToSet(nodes[h].events) \cap ToSet(nodes[i].events) = {}

LEMMA EventsGoal ==
  ASSUME TypeOK, EventsInv
  PROVE  EventsWithTheirCaller
BY Typed DEF EventsWithTheirCaller, EventsInv, Placed, InEventModule

LEMMA NoElements == ToSet(<<>>) = {} /\ DOMAIN <<>> = {}
BY EmptySeq DEF ToSet

\* A step that emits nothing, whatever calls it makes.
LEMMA EventsSame ==
  ASSUME EventsInv, Calls \subseteq Calls', emitters' = emitters,
         \A i \in Calls : /\ nodes'[i].function = nodes[i].function
                          /\ nodes'[i].events = nodes[i].events,
         \A i \in Calls' : i \notin Calls => nodes'[i].events = <<>>
  PROVE  EventsInv'
<1> USE Unmoved
<1>1. ASSUME NEW e \in DOMAIN Emitting
      PROVE  Placed(e)' /\ ToSet(Emitting'[e]) \subseteq Calls'
  <2>1. ToSet(Emitting[e]) \subseteq Calls /\ Placed(e)
    BY DEF EventsInv
  <2>2. \A i \in Calls : InEventModule(i)' = InEventModule(i)
    BY DEF InEventModule
  <2> QED
    BY <2>1, <2>2 DEF Placed
<1>2. \A i \in Calls' : ToSet(nodes'[i].events) \subseteq DOMAIN Emitting'
  BY NoElements DEF EventsInv
<1>3. \A i \in Calls' : \A j, k \in DOMAIN nodes'[i].events :
         j < k => nodes'[i].events[j] < nodes'[i].events[k]
  BY NoElements DEF EventsInv
<1>4. \A h, i \in Calls' :
        h # i => ToSet(nodes'[h].events) \cap ToSet(nodes'[i].events) = {}
  BY NoElements DEF EventsInv
<1> QED
  BY <1>1, <1>2, <1>3, <1>4 DEF EventsInv

LEMMA EventsEmitted ==
  ASSUME StackInv, EventsInv, Keeps, EventPut, frames = Open, frames # <<>>
  PROVE  EventsInv'
<1>1. /\ TypeOK /\ DOMAIN frames = 1 .. Len(frames) /\ Len(frames) \in Nat
      /\ \A k \in DOMAIN frames : frames[k] \in Calls /\ frames[k] \in Nat
      /\ frames[1] = 1
  BY Typed DEF StackInv, Calls, PathInv
<1>2. Emitting \in Seq(Seq(Nat)) /\ Len(Emitting) \in Nat /\ DOMAIN Emitting = 1 .. Len(Emitting)
      /\ Open \in Seq(Nat)
  BY <1>1, LenProperties, OpenTyped DEF StackInv
<1>3. PICK e \in Nat : e = Len(Emitting) + 1
  BY <1>2
<1>4. /\ Emitting' = Append(Emitting, Open)
      /\ Emitting' \in Seq(Seq(Nat)) /\ Len(Emitting') = e
      /\ Emitting'[e] = frames /\ \A d \in DOMAIN Emitting : Emitting'[d] = Emitting[d]
  BY <1>2, <1>3, AppendProperties DEF EventPut
<1>5. /\ DOMAIN Emitting' = 1 .. e /\ DOMAIN Emitting \subseteq DOMAIN Emitting'
      /\ e \in DOMAIN Emitting' /\ e \notin DOMAIN Emitting
      /\ \A d \in DOMAIN Emitting' : d \in DOMAIN Emitting \/ d = e
      /\ \A d \in DOMAIN Emitting : d < e
  <2>1. DOMAIN Emitting' = 1 .. e
    BY <1>4, LenProperties
  <2> QED
    BY <1>2, <1>3, <2>1, NewOne, OneMore
<1>6. PICK sink \in Calls : sink = EventSink
  BY <1>1, Sink
<1>7. /\ Calls' = Calls /\ nodes'[sink].events = Append(nodes[sink].events, e)
      /\ \A i \in Calls : /\ i # sink => nodes'[i].events = nodes[i].events
                          /\ InEventModule(i)' = InEventModule(i)
  BY <1>3, <1>6 DEF Keeps, Calls, EventPut, InEventModule
<1>8. nodes[sink].events \in Seq(Nat)
  BY <1>1, Typed DEF Nodes
<1>9. ToSet(nodes'[sink].events) = ToSet(nodes[sink].events) \cup {e}
  BY <1>7, <1>8, AppendedSet
<1>10. ASSUME NEW d \in DOMAIN Emitting
       PROVE  ToSet(Emitting'[d]) \subseteq Calls' /\ Placed(d)'
  <2>1. ToSet(Emitting[d]) \subseteq Calls /\ Placed(d)
    BY DEF EventsInv
  <2>2. Emitting'[d] = Emitting[d]
    BY <1>4
  <2>3. \A i \in Calls : ToSet(nodes[i].events) \subseteq ToSet(nodes'[i].events)
    BY <1>7, <1>9
  <2> QED
    BY <1>7, <2>1, <2>2, <2>3 DEF Placed
<1>11. ToSet(Emitting'[e]) \subseteq Calls' /\ Placed(e)'
  <2>1. PICK k \in DOMAIN frames :
          /\ sink = frames[k]
          /\ k = 1 \/ ~ InEventModule(frames[k])
          /\ \A j \in DOMAIN frames : j > k => InEventModule(frames[j])
    BY <1>6, Sink DEF InEventModule
  <2>2. ToSet(frames) \subseteq Calls /\ sink \in ToSet(frames)
    BY <1>1, <2>1 DEF ToSet
  <2>3. ASSUME NEW i \in ToSet(frames), i > sink
        PROVE  InEventModule(i)
    <3>1. PICK m \in DOMAIN frames : i = frames[m]
      BY DEF ToSet
    <3>2. m < k => frames[m] < frames[k]
      BY <3>1 DEF StackInv, PathInv
    <3>3. m > k
      BY <1>1, <2>1, <2>3, <3>1, <3>2
    <3> QED
      BY <2>1, <3>1, <3>3
  <2>4. sink = 1 \/ ~ InEventModule(sink)
    BY <1>1, <2>1
  <2>5. e \in ToSet(nodes'[sink].events)
    BY <1>9
  <2> QED
    BY <1>4, <1>7, <2>2, <2>3, <2>4, <2>5 DEF Placed
<1>12. \A i \in Calls' : ToSet(nodes'[i].events) \subseteq DOMAIN Emitting'
  BY <1>5, <1>7, <1>9 DEF EventsInv
<1>13. ASSUME NEW i \in Calls', NEW j \in DOMAIN nodes'[i].events,
              NEW k \in DOMAIN nodes'[i].events, j < k
       PROVE  nodes'[i].events[j] < nodes'[i].events[k]
  <2>1. CASE i # sink
    BY <1>7, <1>13, <2>1 DEF EventsInv
  <2>2. CASE i = sink
    <3>1. \A d \in ToSet(nodes[sink].events) : d < e
      BY <1>5 DEF EventsInv
    <3>2. \A g, h \in DOMAIN nodes'[sink].events :
            g < h => nodes'[sink].events[g] < nodes'[sink].events[h]
      BY <1>3, <1>7, <1>8, <3>1, AppendedOrder DEF EventsInv
    <3> QED
      BY <1>13, <2>2, <3>2
  <2> QED
    BY <2>1, <2>2
<1>14. \A i \in Calls : e \notin ToSet(nodes[i].events)
  BY <1>5 DEF EventsInv
<1>15. ASSUME NEW h \in Calls', NEW i \in Calls', h # i
       PROVE  ToSet(nodes'[h].events) \cap ToSet(nodes'[i].events) = {}
  <2>1. ToSet(nodes[h].events) \cap ToSet(nodes[i].events) = {} /\ h \in Calls /\ i \in Calls
    BY <1>7, <1>15 DEF EventsInv
  <2>2. CASE h = sink
    <3>1. nodes'[i].events = nodes[i].events
      BY <1>7, <1>15, <2>1, <2>2
    <3> QED
      BY <1>9, <1>14, <2>1, <2>2, <3>1
  <2>3. CASE i = sink
    <3>1. nodes'[h].events = nodes[h].events
      BY <1>7, <1>15, <2>1, <2>3
    <3> QED
      BY <1>9, <1>14, <2>1, <2>3, <3>1
  <2>4. CASE h # sink /\ i # sink
    BY <1>7, <2>1, <2>4
  <2> QED
    BY <2>2, <2>3, <2>4
<1> QED
  BY <1>5, <1>10, <1>11, <1>12, <1>13, <1>15 DEF EventsInv

-----------------------------------------------------------------------------
(* Storage operations, the entry's arguments and the abort stack.          *)

StorageInv ==
  \A i \in Calls :
    \/ nodes[i].storage = performed[i]
    \/ /\ status \in Failures /\ i = Top
       /\ \E op \in StorageOps : nodes[i].storage = Append(performed[i], op)

\* A step that does no storage operation, whatever calls it makes.
LEMMA StorageSame ==
  ASSUME StorageInv,
         status \notin Failures \/ (status' = status /\ running' = running),
         \A i \in Calls : nodes'[i].storage = nodes[i].storage /\ performed'[i] = performed[i],
         \A i \in Calls' : i \notin Calls => nodes'[i].storage = performed'[i]
  PROVE  StorageInv'
<1>1. CASE status \notin Failures
  BY <1>1 DEF StorageInv
<1>2. CASE status' = status /\ running' = running
  <2>1. Top' = Top
    BY <1>2, Unmoved DEF Top
  <2> QED
    BY <1>2, <2>1 DEF StorageInv
<1> QED
  BY <1>1, <1>2

LEMMA StorageDone ==
  ASSUME StackInv, StorageInv, status = "running", Keeps, NEW op \in StorageOps,
         StorageNoted(op), running' = running, status' # "Discarded"
  PROVE  StorageInv'
<1>1. /\ Calls' = Calls /\ Top' = Top /\ Top \in Calls /\ DOMAIN performed = Calls
      /\ \A i \in Calls : nodes[i].storage = performed[i]
  <2>1. DOMAIN performed = 1 .. Len(performed) /\ Len(performed) = Len(nodes)
    BY OnTop, Typed, LenProperties DEF StackInv, Telling
  <2>2. \A i \in Calls : nodes[i].storage = performed[i]
    BY DEF StorageInv, Failures
  <2> QED
    BY <2>1, <2>2, OnTop, Unmoved DEF Keeps, Calls, Top
<1>2. CASE /\ performed' = [performed EXCEPT ![Top] = Append(@, op)]
           /\ nodes'[Top].storage = Append(nodes[Top].storage, op)
  BY <1>1, <1>2 DEF StorageInv, StorageNoted
<1>3. CASE /\ performed' = performed
           /\ nodes'[Top].storage \in {nodes[Top].storage, Append(nodes[Top].storage, op)}
           /\ status' \in Failures \cup {"Discarded"}
  BY <1>1, <1>3 DEF StorageInv, StorageNoted
<1> QED
  BY <1>2, <1>3 DEF StorageNoted

RootArgsInv == rootArgs = IF MainEntered THEN PayloadArgs ELSE <<>>

LEMMA RootArgsSame ==
  ASSUME RootArgsInv, UNCHANGED <<rootArgs, entered>>
  PROVE  RootArgsInv'
BY DEF RootArgsInv, MainEntered, PayloadArgs

\* The payload's entry comes once, and the tracer knows it.
LEMMA RootArgsTaken ==
  ASSUME StackInv, RootArgsInv, RecordEntryArgs
  PROVE  RootArgsInv'
<1>1. TypeOK /\ frames = <<1>> /\ nodes[1].function = Root
  BY DEF StackInv, FramesFollowVm, RecordEntryArgs
<1>2. Len(Entries) \in Nat /\ DOMAIN Entries = 1 .. Len(Entries)
  BY FunctionAssumption, LenProperties
<1>3. PICK next \in 1 .. Len(Entries) : next = entered + 1
  BY <1>1, <1>2 DEF RecordEntryArgs, TypeOK
<1>4. /\ entered \in Nat /\ entered' = next
      /\ \A i \in 1 .. next : i \in 1 .. entered \/ i = next
      /\ 1 .. entered \subseteq 1 .. next /\ next \in 1 .. next /\ next \notin 1 .. entered
  <2>1. entered \in Nat /\ entered' = next
    BY <1>1, <1>2, <1>3 DEF RecordEntryArgs, TypeOK
  <2> QED
    BY <1>3, <2>1, NewOne, OneMore
<1>5. 1 .. entered \subseteq DOMAIN Entries /\ next \in DOMAIN Entries
  BY <1>1, <1>2, <1>3 DEF TypeOK
<1>6. rootArgs' = IF rootArgs = <<>> /\ Entries[next] = Root
                  THEN WithoutSigners(ArgsOf[Entries[next]]) ELSE rootArgs
  BY <1>1, <1>3 DEF RecordEntryArgs, MatchesRoot
<1>7. CASE Entries[next] = Root
  <2>1. ~ MainEntered
    BY <1>4, <1>5, <1>7, FunctionAssumption DEF MainEntered
  <2>2. MainEntered'
    BY <1>4, <1>7 DEF MainEntered
  <2> QED
    BY <1>6, <1>7, <2>1, <2>2 DEF RootArgsInv, PayloadArgs
<1>8. CASE Entries[next] # Root
  <2>1. MainEntered' <=> MainEntered
    BY <1>4, <1>8 DEF MainEntered
  <2> QED
    BY <1>6, <1>8, <2>1 DEF RootArgsInv, PayloadArgs
<1> QED
  BY <1>7, <1>8

\* What a failure leaves open: the VM's calls, but for a native that was charged for,
\* or the root between two entries.
LeftOpen ==
  \/ frames = Open
  \/ frames = <<1>> /\ Open = <<>>
  \/ /\ Len(Open) > 1 /\ frames = Front(Open)
     /\ Top \in Calls /\ TopFunction \in Natives

AbortInv ==
  /\ status = "nativeOut" => TopFunction \in Natives /\ balance = 0
  /\ status \in Failures /\ frames # <<>> => LeftOpen
  /\ AbortStackHasOpenCalls

LEMMA AbortUnanswered ==
  ASSUME frames' # <<>>, status' = "nativeOut" => TopFunction' \in Natives /\ balance' = 0,
         status' \in Failures => LeftOpen'
  PROVE  AbortInv'
BY DEF AbortInv, AbortStackHasOpenCalls, Traced, Answered

LEMMA AbortAnswered ==
  ASSUME StackInv, AbortInv, Respond
  PROVE  AbortInv'
<1>1. TypeOK /\ frames # <<>> /\ status' = status /\ status \in Outcomes /\ frames' = <<>>
      /\ running' = running
  BY DEF StackInv, Respond
<1>2. SUFFICES ASSUME status \in Failures
               PROVE  \/ ShownCalls' = OpenCalls'
                      \/ OpenCalls'[1] \in Natives /\ ShownCalls' = Tail(OpenCalls')
  BY <1>1 DEF AbortInv, AbortStackHasOpenCalls, Outcomes, Failures
<1> DEFINE n == Len(frames)
           F(i) == nodes[i].function
<1>3. nodes' = Collapsed /\ abort' = AbortStack
  BY <1>2 DEF Respond, Failures
<1>4. /\ n \in Nat \ {0} /\ DOMAIN frames = 1 .. n /\ frames \in Seq(Calls)
      /\ \A k \in 1 .. n : frames[k] \in Calls
  BY <1>1, Typed
<1>5. \A i \in Calls : nodes'[i].function = F(i)
  BY <1>1, <1>3, CollapsedTree
<1>6. ShownCalls' = [k \in 1 .. n |-> F(frames[n - k + 1])]
  BY <1>1, <1>3, AbortTyped DEF ShownCalls
<1>7. CASE frames = Open
  <2>1. Open # <<>> /\ Reverse(Open) = [k \in 1 .. n |-> frames[n - k + 1]]
    BY <1>1, <1>7 DEF Reverse
  <2>2. OpenCalls' = [k \in 1 .. n |-> nodes'[frames[n - k + 1]].function]
    BY <1>1, <2>1, OpenTyped, Unmoved DEF OpenCalls
  <2>3. \A k \in 1 .. n : frames[n - k + 1] \in Calls
    BY <1>4
  <2> QED
    BY <1>5, <1>6, <2>2, <2>3
<1>8. CASE frames = <<1>> /\ Open = <<>>
  <2>1. n = 1 /\ frames[1] = 1 /\ 1 \in Calls
    BY <1>4, <1>8
  <2>2. OpenCalls' = [k \in 1 .. 1 |-> nodes'[(<<1>>)[k]].function]
    BY <1>1, <1>8, OpenTyped, Unmoved DEF OpenCalls
  <2>3. \A k \in 1 .. 1 : k = 1 /\ n - k + 1 = 1
    BY <2>1
  <2> QED
    BY <1>5, <1>6, <2>1, <2>2, <2>3
<1>9. CASE /\ Len(Open) > 1 /\ frames = Front(Open)
           /\ Top \in Calls /\ TopFunction \in Natives
  <2> DEFINE m == Len(Open)
             g == [k \in 1 .. m |-> nodes'[Open[m - k + 1]].function]
  <2>1. Open \in Seq(Nat) /\ m \in Nat /\ m > 1 /\ Open # <<>>
    BY <1>1, <1>9, LenProperties, OpenTyped
  <2>2. n = m - 1 /\ \A k \in 1 .. n : frames[k] = Open[k]
    <3>1. \A k \in 1 .. m - 1 : Open[k] \in Nat
      BY <2>1, ElementOfSeq
    <3>2. frames = SubSeq(Open, 1, m - 1)
      BY <1>9 DEF Front
    <3> QED
      BY <2>1, <3>1, <3>2, SubSeqProperties
  <2>3. OpenCalls' = g
    BY <1>1, <2>1, OpenTyped, Unmoved DEF OpenCalls, Reverse
  <2>4. Open[m] = Top
    BY DEF Top, Last
  <2> HIDE DEF m
  <2>5. \A k \in 1 .. m : Open[m - k + 1] \in Calls
    <3>1. SUFFICES ASSUME NEW k \in 1 .. m PROVE Open[m - k + 1] \in Calls
      OBVIOUS
    <3>2. m - k + 1 \in 1 .. n \/ m - k + 1 = m
      BY <2>1, <2>2
    <3> QED
      BY <1>4, <1>9, <2>2, <2>4, <3>2
  <2>6. \A k \in 1 .. m : g[k] = F(Open[m - k + 1])
    BY <1>5, <2>5
  <2>7. 1 \in 1 .. m /\ m - 1 + 1 = m
    BY <2>1
  <2>8. g[1] \in Natives
    BY <1>9, <2>4, <2>6, <2>7 DEF TopFunction
  <2>9. ShownCalls' = Tail(g)
    <3>1. \A i \in Calls : F(i) \in Functions
      BY <1>1, Typed DEF Nodes
    <3>2. g \in Seq(Functions) /\ Len(g) = m
      <4>1. g \in [1 .. m -> Functions]
        BY <1>5, <2>5, <3>1
      <4> HIDE DEF g
      <4> QED
        BY <2>1, <4>1, FunctionIsSeq
    <3>3. ASSUME NEW k \in 1 .. n
          PROVE  g[k + 1] = F(frames[n - k + 1])
      <4>1. k + 1 \in 1 .. m /\ m - (k + 1) + 1 = n - k + 1 /\ n - k + 1 \in 1 .. n
        BY <1>4, <2>1, <2>2
      <4> QED
        BY <2>2, <2>6, <4>1
    <3>4. ShownCalls' \in Seq(Functions) /\ Len(ShownCalls') = n
      <4>1. \A k \in 1 .. n : frames[n - k + 1] \in Calls
        BY <1>4
      <4>2. ShownCalls' \in [1 .. n -> Functions]
        BY <1>6, <3>1, <4>1
      <4> QED
        BY <1>4, <4>2, FunctionIsSeq
    <3> HIDE DEF g
    <3>5. g # <<>>
      BY <2>1, <3>2, EmptySeq
    <3>6. /\ Tail(g) \in Seq(Functions) /\ Len(Tail(g)) = n
          /\ \A k \in 1 .. n : Tail(g)[k] = g[k + 1]
      BY <2>2, <3>2, <3>5, HeadTailProperties
    <3>7. \A k \in 1 .. n : ShownCalls'[k] = Tail(g)[k]
      BY <1>6, <3>3, <3>6
    <3> QED
      BY <3>4, <3>6, <3>7, SeqEqual
  <2> QED
    BY <2>3, <2>8, <2>9
<1> QED
  BY <1>1, <1>2, <1>7, <1>8, <1>9 DEF AbortInv, LeftOpen

-----------------------------------------------------------------------------
(* All of it.                                                              *)

NodesInv ==
  TreeInv /\ ResultInv /\ GasInv /\ EventsInv /\ StorageInv /\ RootArgsInv

TracerInv ==
  /\ StackInv
  /\ AbortInv
  /\ status # "Discarded" => NodesInv

LEMMA NoneEmitted == emitters = <<>> => Emitting = <<>>
BY EmptySeq DEF Emitting

LEMMA InitTracerInv == Init => TracerInv
<1> SUFFICES ASSUME Init PROVE TracerInv
  OBVIOUS
<1>1. StackInv /\ TypeOK
  BY InitStackInv DEF StackInv
<1>2. /\ nodes = <<Frame(Root)>> /\ Len(nodes) = 1 /\ Calls = {1} /\ nodes[1] = Frame(Root)
      /\ frames = <<1>> /\ Emitting = <<>> /\ performed[1] = <<>> /\ spent[1] = 0
      /\ rootArgs = <<>> /\ entered = 0 /\ status = "between"
  BY NoneEmitted DEF Init, Calls
<1>3. /\ nodes[1].self + nodes[1].native = 0 /\ nodes[1].events = <<>>
      /\ nodes[1].storage = <<>> /\ nodes[1].children = <<>>
  BY <1>2, FrameTyped, RootTyped
<1>4. TreeInv /\ GasInv /\ StorageInv
  BY <1>2, <1>3, NoElements DEF TreeInv, GasInv, StorageInv, SelfGas, Over
<1>8. ResultInv
  <2>1. nodes[1].ret = None /\ running = <<>> /\ EntriesOver = 0
    BY <1>2, FrameTyped, RootTyped DEF Init, EntriesOver
  <2> QED
    BY <1>2, <2>1 DEF ResultInv
<1>5. EventsInv
  BY <1>2, <1>3, NoElements DEF EventsInv
<1>6. RootArgsInv
  BY <1>2 DEF RootArgsInv, MainEntered
<1>7. AbortInv
  BY <1>2 DEF AbortInv, AbortStackHasOpenCalls, Traced, Answered, Failures
<1> QED
  BY <1>1, <1>4, <1>5, <1>6, <1>7, <1>8 DEF TracerInv, NodesInv

\* A step that makes no call and emits no event, and its gas, results and storage
\* being accounted for.
LEMMA NodesKept ==
  ASSUME StackInv, NodesInv, frames # <<>>, Keeps, ChildrenKept \/ ChildAdded,
         EventsKept, ResultInv', GasInv', StorageInv', RootArgsInv'
  PROVE  NodesInv'
<1>1. TreeInv'
  BY TreeKept, TreeGrown DEF NodesInv
<1>2. EventsInv'
  <2>1. Calls' = Calls
    BY DEF Calls, Keeps
  <2> QED
    BY <2>1, EventsSame DEF NodesInv, EventsKept, Keeps
<1> QED
  BY <1>1, <1>2 DEF NodesInv

LEMMA StorageKeptInv ==
  ASSUME StorageInv, Keeps, StorageKept, status \notin Failures
  PROVE  StorageInv'
<1>1. Calls' = Calls
  BY DEF Calls, Keeps
<1> QED
  BY <1>1, StorageSame DEF StorageKept

\* What a quiet step leaves as it was.
LEMMA QuietNodes ==
  ASSUME StackInv, NodesInv, Quiet, Keeps, frames # <<>>,
         status \in {"between", "running"},
         \A i \in 2 .. Len(nodes) : i \in ToSet(Open') <=> i \in ToSet(Open),
         EntriesOver' = EntriesOver, running' # <<>> => entered' > 0, RootArgsInv'
  PROVE  NodesInv'
<1>1. /\ ChildrenKept /\ RetsKept /\ EventsKept /\ StorageKept /\ GasKept /\ Telling
      /\ status \notin Failures
  BY DEF Failures, Quiet, ChildrenKept, RetsKept, EventsKept, StorageKept, GasKept, SelfGas, Telling
<1>2. ResultInv'
  BY <1>1, ResultKept DEF NodesInv
<1>3. GasInv'
  BY <1>1, GasUncharged DEF NodesInv
<1>4. StorageInv'
  BY <1>1, StorageKeptInv DEF NodesInv
<1> QED
  BY <1>1, <1>2, <1>3, <1>4, NodesKept

\* The assumptions of the steps' lemmas that hold whatever the step.
LEMMA Under ==
  ASSUME TracerInv
  PROVE  /\ StackInv /\ AbortInv /\ TypeOK /\ balance \in Nat
         /\ status \in Going => NodesInv /\ status \notin Failures /\ frames # <<>>
         /\ status \in Going => Telling
<1>1. StackInv /\ AbortInv /\ TypeOK
  BY DEF TracerInv, StackInv
<1>2. balance \in Nat
  BY <1>1, GasAssumption DEF TypeOK
<1>3. status \in Going => status \notin Outcomes /\ status # "Discarded" /\ status \notin Failures
  BY DEF Going, Outcomes, Failures
<1>4. status \in Going => NodesInv /\ frames # <<>>
  BY <1>1, <1>3 DEF TracerInv, TypeOK
<1> QED
  BY <1>1, <1>2, <1>3, <1>4 DEF Telling

LEMMA NextEntry ==
  ASSUME TracerInv, RecordEntryArgs
  PROVE  TracerInv'
<1>1. StackInv /\ AbortInv /\ TypeOK /\ NodesInv /\ status = "between"
  BY Under DEF RecordEntryArgs, Going
<1>2. /\ StackInv' /\ Quiet /\ frames # <<>> /\ status' = "running" /\ Open' = <<1>>
      /\ frames = <<1>> /\ Open = <<>> /\ balance' = balance
      /\ running = <<>> /\ running' # <<>> /\ running' \in Seq(Nat)
      /\ entered' = entered + 1 /\ entered \in Nat
  BY <1>1, RecordEntryArgsStep, RootIsCall, OpenTyped DEF RecordEntryArgs
<1>3. RootArgsInv'
  BY <1>1, RootArgsTaken DEF NodesInv
<1>4. ToSet(Open') = {1} /\ ToSet(Open) = {}
  <2>1. DOMAIN Open' = {1} /\ Open'[1] = 1
    BY <1>2
  <2> QED
    BY <1>2, <2>1, NoElements DEF ToSet
<1>5. Keeps
  BY <1>1, <1>2, Typed DEF Keeps, Quiet, StackInv, TypeOK
<1>8. EntriesOver' = EntriesOver /\ entered' > 0
  BY <1>2 DEF EntriesOver
<1>6. NodesInv'
  BY <1>1, <1>2, <1>3, <1>4, <1>5, <1>8, QuietNodes
<1>7. AbortInv'
  BY <1>2, AbortUnanswered DEF Quiet, Failures
<1> QED
  BY <1>2, <1>6, <1>7 DEF TracerInv

LEMMA NextQuiet ==
  ASSUME TracerInv, (\E cost \in Costs : DelegateOnly(cost)) \/ FailUnseen \/ Succeed
  PROVE  TracerInv'
<1>1. /\ StackInv /\ StackInv' /\ Quiet /\ UNCHANGED <<running, entered, rootArgs>>
      /\ frames # <<>> /\ status \in {"between", "running"}
      /\ status' \in {status} \cup Outcomes
      /\ balance' \in 0 .. Budget
  BY Under, QuietSteps
<1>2. TypeOK /\ NodesInv
  BY <1>1, Under DEF Going
<1>3. RootArgsInv'
  BY <1>1, <1>2, RootArgsSame DEF NodesInv
<1>4. Keeps
  BY <1>1, <1>2, Typed DEF Keeps, Quiet, TypeOK
<1>8. Open' = Open /\ EntriesOver' = EntriesOver /\ (running' # <<>> => entered' > 0)
  BY <1>1, <1>2, Unmoved DEF EntriesOver, NodesInv, ResultInv
<1>5. NodesInv'
  BY <1>1, <1>2, <1>3, <1>4, <1>8, QuietNodes
<1>6. LeftOpen'
  BY <1>1, <1>2, <1>8, OpenTyped DEF LeftOpen, StackInv, FramesFollowVm, Quiet
<1>7. AbortInv'
  BY <1>1, <1>6, AbortUnanswered DEF Quiet, Outcomes, Failures
<1> QED
  BY <1>1, <1>5, <1>7 DEF TracerInv

\* A step in an entry that makes no call and emits no event, and its gas, results
\* and storage being accounted for.
LEMMA NextInEntry ==
  ASSUME TracerInv, status \in {"running", "nativeOut"}, StackInv', Keeps,
         ChildrenKept \/ ChildAdded, EventsKept, UNCHANGED <<entered, rootArgs>>,
         status' # "Discarded" => ResultInv' /\ GasInv' /\ StorageInv',
         status' = "nativeOut" => TopFunction' \in Natives /\ balance' = 0, status' \in Failures => LeftOpen'
  PROVE  TracerInv'
<1>1. StackInv /\ TypeOK /\ NodesInv /\ frames # <<>>
  BY Under DEF Going
<1>2. frames' # <<>>
  BY <1>1, PoppedFrames DEF Keeps
<1>3. AbortInv'
  BY <1>2, AbortUnanswered
<1>4. RootArgsInv'
  BY <1>1, RootArgsSame DEF NodesInv
<1>5. status' # "Discarded" => NodesInv'
  BY <1>1, <1>4, NodesKept
<1> QED
  BY <1>3, <1>5 DEF TracerInv

\* What a charge to the innermost call keeps, and that the frames left open are the
\* VM's as long as neither changes.
LEMMA ChargeKept ==
  ASSUME TracerInv, status = "running", Keeps, NEW paid \in Nat, GasShown(paid, paid)
  PROVE  /\ GasInv'
         /\ RetsKept /\ running' = running /\ entered' = entered => ResultInv'
         /\ StorageKept => StorageInv'
         /\ frames' = frames /\ running' = running => LeftOpen'
<1>1. /\ StackInv /\ TypeOK /\ NodesInv /\ Telling /\ status \notin Failures
      /\ frames = Open
  BY Under, OnTop DEF Going
<1>3. GasInv'
  BY <1>1, GasCharged DEF NodesInv
<1>2. RetsKept /\ running' = running /\ entered' = entered => ResultInv'
  BY <1>1, ResultStays DEF NodesInv
<1>4. StorageKept => StorageInv'
  BY <1>1, StorageKeptInv DEF NodesInv
<1> QED
  BY <1>1, <1>2, <1>3, <1>4, Unmoved DEF LeftOpen

LEMMA NextChargeActive ==
  ASSUME TracerInv, NEW cost \in Costs, ChargeActive(cost)
  PROVE  TracerInv'
<1>1. StackInv /\ TypeOK /\ status = "running" /\ running' = running
  BY Under DEF ChargeActive, InMove
<1>2. PICK paid \in Nat : paid = Consumed(cost)
  BY <1>1, Charges, GasAssumption
<1>3. /\ StackInv' /\ Keeps /\ ChildrenKept /\ GasShown(paid, paid)
      /\ RetsKept /\ EventsKept /\ StorageKept
  BY <1>1, <1>2, ChargeActiveStep
<1>4. UNCHANGED <<entered, rootArgs, frames>>
  BY DEF ChargeActive
<1>5. ResultInv' /\ GasInv' /\ StorageInv' /\ LeftOpen'
  BY <1>1, <1>3, <1>4, ChargeKept
<1>6. status' # "nativeOut"
  BY <1>1, Endings DEF ChargeActive, Outcomes, Failures
<1> QED
  BY <1>1, <1>3, <1>4, <1>5, <1>6, NextInEntry

LEMMA NextChargeStorage ==
  ASSUME TracerInv, NEW cost \in Costs, NEW op \in StorageOps, NEW succeeds \in BOOLEAN,
         ChargeStorage(op, succeeds, cost)
  PROVE  TracerInv'
<1>1. StackInv /\ TypeOK /\ NodesInv /\ status = "running" /\ running' = running
  BY Under DEF ChargeStorage, InMove, Going
<1>2. PICK paid \in Nat : paid = Consumed(cost)
  BY <1>1, Charges, GasAssumption
<1>3. /\ StackInv' /\ Keeps /\ ChildrenKept /\ GasShown(paid, paid)
      /\ RetsKept /\ EventsKept /\ StorageNoted(op)
  BY <1>1, <1>2, ChargeStorageStep
<1>4. UNCHANGED <<entered, rootArgs, frames>>
  BY DEF ChargeStorage
<1>5. ResultInv' /\ GasInv' /\ LeftOpen'
  BY <1>1, <1>3, <1>4, ChargeKept
<1>6. status' # "Discarded" => StorageInv'
  BY <1>1, <1>3, StorageDone DEF NodesInv
<1>7. status' # "nativeOut"
  BY <1>1, <1>3 DEF StorageNoted, Failures
<1> QED
  BY <1>1, <1>3, <1>4, <1>5, <1>6, <1>7, NextInEntry

LEMMA NextChargeCall ==
  ASSUME TracerInv, NEW cost \in Costs, NEW f \in Callable, ChargeCall(f, cost)
  PROVE  TracerInv'
<1>1. /\ StackInv /\ TypeOK /\ NodesInv /\ status = "running"
      /\ status \notin Failures /\ f \in Functions
  BY Under DEF ChargeCall, InMove, Going, Callable
<1>2. PICK paid \in Nat : paid = Consumed(cost)
  BY <1>1, Charges, GasAssumption
<1>3. UNCHANGED <<entered, rootArgs>>
  BY DEF ChargeCall
<1>4. CASE Pays(cost)
  <2>1. CallMade(f, paid)
    BY <1>1, <1>2, <1>4, CallMadeStep
  <2>2. StackInv'
    BY <1>1, <2>1, StackCalled
  <2>3. PICK new \in Nat : new = Len(nodes) + 1
    BY <1>1, Typed
  <2>4. /\ Calls \subseteq Calls' /\ \A i \in Calls' : i \notin Calls => i = new
        /\ nodes'[new].events = <<>> /\ nodes'[new].storage = <<>> /\ performed'[new] = <<>>
    <3>1. Calls' = 1 .. Len(nodes) + 1 /\ Len(nodes) \in Nat
      BY <1>1, <2>1, Typed DEF Calls, CallMade
    <3>2. nodes'[new] = Frame(f) /\ performed'[new] = <<>>
      BY <2>1, <2>3 DEF CallMade
    <3> QED
      BY <1>1, <2>3, <3>1, <3>2, NewOne, OneMore, FrameTyped DEF Calls
  <2>5. /\ \A i \in Calls : /\ nodes'[i].function = nodes[i].function
                            /\ nodes'[i].events = nodes[i].events
                            /\ nodes'[i].storage = nodes[i].storage
                            /\ performed'[i] = performed[i]
        /\ emitters' = emitters /\ status' = status /\ Open' = frames'
    BY <2>1 DEF CallMade
  <2>6. TreeInv' /\ ResultInv' /\ GasInv'
    <3>1. TreeInv /\ ResultInv /\ GasInv
      BY <1>1 DEF NodesInv
    <3>2. TreeInv'
      BY <1>1, <2>1, <3>1, TreeCalled
    <3>3. ResultInv'
      BY <1>1, <2>1, <3>1, ResultCalled
    <3>4. GasInv'
      BY <1>1, <2>1, <3>1, GasCalled
    <3> QED
      BY <3>2, <3>3, <3>4
  <2>7. EventsInv'
    BY <1>1, <2>4, <2>5, EventsSame DEF NodesInv
  <2>8. StorageInv'
    BY <1>1, <2>4, <2>5, StorageSame DEF NodesInv
  <2>9. RootArgsInv'
    BY <1>1, <1>3, RootArgsSame DEF NodesInv
  <2>10. frames' # <<>>
    BY <1>1, <2>1, CalledFrames
  <2>11. AbortInv'
    BY <1>1, <2>5, <2>10, AbortUnanswered
  <2> QED
    BY <2>2, <2>6, <2>7, <2>8, <2>9, <2>11 DEF TracerInv, NodesInv
<1>5. CASE ~ Pays(cost)
  <2>1. /\ StackInv' /\ Keeps /\ ChildrenKept /\ GasShown(paid, paid)
        /\ RetsKept /\ EventsKept /\ StorageKept
        /\ running' = running /\ status' \in Failures \cup {"Discarded"}
    BY <1>1, <1>2, <1>5, CallRefusedStep
  <2>2. ResultInv' /\ GasInv' /\ StorageInv' /\ LeftOpen'
    BY <1>1, <1>3, <2>1, ChargeKept DEF ChildrenKept
  <2>3. status' # "nativeOut"
    BY <2>1 DEF Failures
  <2> QED
    BY <1>1, <1>3, <2>1, <2>2, <2>3, NextInEntry
<1> QED
  BY <1>4, <1>5

LEMMA NextChargeNative ==
  ASSUME TracerInv, NEW amount \in Costs, ChargeNativeExecution(amount)
  PROVE  TracerInv'
<1>1. /\ StackInv /\ TypeOK /\ NodesInv /\ Telling /\ status = "running"
      /\ status \notin Failures /\ TopFunction \in Natives
      /\ Top \in Calls /\ running' = running
  BY Under, OnTop DEF ChargeNativeExecution, InNative, Going
<1>2. PICK paid \in Nat : paid = Consumed(amount)
  BY <1>1, Charges, GasAssumption
<1>3. /\ StackInv' /\ Keeps /\ ChildrenKept /\ GasShown(amount, paid)
      /\ RetsKept /\ EventsKept /\ StorageKept
  BY <1>1, <1>2, ChargeNativeExecutionStep
<1>4. /\ amount \in Nat /\ paid <= amount
      /\ Pays(amount) => amount = paid /\ status' = "running"
      /\ ~ Pays(amount) => balance' = 0 /\ status' = "nativeOut"
  BY <1>1, <1>2, Charges, GasAssumption DEF ChargeNativeExecution
<1>5. GasInv'
  <2>1. amount = paid \/ (paid < amount /\ balance' = 0 /\ status' = "nativeOut")
    BY <1>4
  <2> QED
    BY <1>1, <1>3, <1>4, <2>1, GasCharged DEF NodesInv
<1>6. /\ status' \in {"running", "nativeOut"} /\ UNCHANGED <<entered, rootArgs>>
      /\ status' = "nativeOut" => balance' = 0
  BY <1>1, <1>4 DEF ChargeNativeExecution
<1>7. ResultInv' /\ StorageInv'
  BY <1>1, <1>3, <1>6, ResultStays, StorageKeptInv DEF NodesInv
<1>8. TopFunction' \in Natives
  BY <1>1, <1>3, Unmoved DEF Keeps, TopFunction, Top
<1> QED
  BY <1>1, <1>3, <1>5, <1>6, <1>7, <1>8, NextInEntry DEF Failures

LEMMA NextEvent ==
  ASSUME TracerInv, RecordEvent
  PROVE  TracerInv'
<1>1. /\ StackInv /\ TypeOK /\ NodesInv /\ Telling /\ status = "running"
      /\ status \notin Failures
  BY Under DEF RecordEvent, InNative, Going
<1>2. /\ StackInv' /\ Keeps /\ ChildrenKept /\ GasKept /\ RetsKept /\ EventPut /\ StorageKept
      /\ status' = status /\ frames = Open /\ frames # <<>>
  BY <1>1, RecordEventStep
<1>3. UNCHANGED <<running, entered, rootArgs, balance>>
  BY DEF RecordEvent
<1>4. EventsInv'
  BY <1>1, <1>2, EventsEmitted DEF NodesInv
<1>5. TreeInv' /\ ResultInv' /\ StorageInv' /\ RootArgsInv'
  BY <1>1, <1>2, <1>3, TreeKept, ResultStays, StorageKeptInv, RootArgsSame DEF NodesInv
<1>6. GasInv'
  BY <1>1, <1>2, <1>3, GasUncharged DEF NodesInv
<1>7. AbortInv'
  BY <1>1, <1>2, AbortUnanswered DEF ChildrenKept
<1> QED
  BY <1>2, <1>4, <1>5, <1>6, <1>7 DEF TracerInv, NodesInv

\* What a charged-for native leaves of the frames, the VM having failed in it.
LEMMA NativeLeft ==
  ASSUME StackInv, status \in {"running", "nativeOut"}, TopFunction \in Natives, Keeps,
         frames' = Popped(frames), running' = running
  PROVE  LeftOpen'
<1>1. /\ Len(frames) > 1 /\ frames = Open /\ Top \in Calls
      /\ Calls' = Calls /\ Top' = Top
  BY Deep, OnTop, Unmoved DEF Keeps, Calls, Top
<1>2. Len(Open') > 1 /\ frames' = Front(Open')
  BY <1>1, Unmoved DEF Popped
<1>3. TopFunction' = TopFunction
  BY <1>1 DEF TopFunction, Keeps
<1> QED
  BY <1>1, <1>2, <1>3 DEF LeftOpen

LEMMA NextNativeReturns ==
  ASSUME TracerInv, NEW cost \in Costs, NEW ret \in Returns, NativeReturns(cost, ret)
  PROVE  TracerInv'
<1>1. /\ StackInv /\ TypeOK /\ NodesInv /\ status = "running" /\ TopFunction \in Natives
  BY Under DEF NativeReturns, InNative, Going
<1>2. PICK paid \in Nat : paid = Consumed(cost)
  BY <1>1, Charges, GasAssumption
<1>3. /\ StackInv' /\ Keeps /\ ChildAdded /\ GasShown(paid, paid)
      /\ RetsChangeOnTop /\ EventsKept /\ StorageKept
      /\ \/ running' = Front(running) /\ status' = status
         \/ running' = running /\ status' \in Failures \cup {"Discarded"}
  BY <1>1, <1>2, NativeReturnsStep
<1>4. UNCHANGED <<entered, rootArgs>> /\ frames' = Popped(frames)
  BY DEF NativeReturns
<1>5. GasInv' /\ StorageInv'
  BY <1>1, <1>3, <1>4, ChargeKept
<1>6. ResultInv'
  BY <1>1, <1>3, <1>4, ResultOfNative DEF NodesInv
<1>7. status' \in Failures => LeftOpen'
  BY <1>1, <1>3, <1>4, NativeLeft DEF Failures
<1>8. status' # "nativeOut"
  BY <1>1, <1>3 DEF Failures
<1> QED
  BY <1>1, <1>3, <1>4, <1>5, <1>6, <1>7, <1>8, NextInEntry

LEMMA NextNativeAborts ==
  ASSUME TracerInv, NEW cost \in Costs, NativeAborts(cost)
  PROVE  TracerInv'
<1>1. /\ StackInv /\ TypeOK /\ NodesInv /\ status \in {"running", "nativeOut"}
      /\ TopFunction \in Natives
  BY Under DEF NativeAborts, InNative, Going, AbortInv
<1>2. PICK paid \in Nat : paid = Consumed(cost)
  BY <1>1, Charges, GasAssumption
<1>3. /\ StackInv' /\ Keeps /\ ChildAdded /\ GasShown(paid, paid)
      /\ RetsChangeOnTop /\ EventsKept /\ StorageKept
      /\ running' = running /\ status' \in Failures \cup {"Discarded"}
  BY <1>1, <1>2, NativeAbortsStep
<1>4. UNCHANGED <<entered, rootArgs>> /\ frames' = Popped(frames)
  BY DEF NativeAborts
<1>5. status' # "Discarded" => GasInv'
  <2>1. CASE status = "running"
    BY <1>3, <2>1, ChargeKept
  <2>2. CASE status = "nativeOut"
    <3>1. balance = 0 /\ Telling
      BY <2>2, Under DEF AbortInv, Going
    <3>2. paid = 0 /\ balance' = balance
      BY <1>1, <1>2, <3>1, Charges, GasAssumption DEF NativeAborts, Left, Pays
    <3> QED
      BY <1>1, <1>3, <2>2, <3>1, <3>2, GasUsedUp DEF NodesInv
  <2> QED
    BY <1>1, <2>1, <2>2
<1>9. StorageInv'
  BY <1>1, <1>3, StorageKeptInv, Under DEF NodesInv, Going
<1>6. ResultInv'
  BY <1>1, <1>3, <1>4, ResultOfNative DEF NodesInv
<1>7. LeftOpen'
  BY <1>1, <1>3, <1>4, NativeLeft
<1>8. status' # "nativeOut"
  BY <1>3 DEF Failures
<1> QED
  BY <1>1, <1>3, <1>4, <1>5, <1>6, <1>7, <1>8, <1>9, NextInEntry

LEMMA NextMoveReturn ==
  ASSUME TracerInv, NEW ret \in Returns, RecordMoveReturn(ret)
  PROVE  TracerInv'
<1>1. /\ StackInv /\ TypeOK /\ NodesInv /\ Telling /\ status = "running"
      /\ status \notin Failures
  BY Under DEF RecordMoveReturn, InMove, Going
<1>2. /\ StackInv' /\ Keeps /\ ChildAdded /\ GasKept /\ nodes'[Top].ret # None
      /\ RetsChangeOnTop /\ EventsKept /\ StorageKept
      /\ running' = Front(running) /\ status' \in {"running", "between"}
  BY <1>1, RecordMoveReturnStep
<1>3. UNCHANGED <<entered, rootArgs, balance>>
  BY DEF RecordMoveReturn
<1>4. ResultInv'
  BY <1>1, <1>2, <1>3, ResultReturned DEF NodesInv
<1>5. GasInv'
  BY <1>1, <1>2, <1>3, GasUncharged DEF NodesInv
<1>6. StorageInv'
  BY <1>1, <1>2, StorageKeptInv DEF NodesInv
<1> QED
  BY <1>1, <1>2, <1>3, <1>4, <1>5, <1>6, NextInEntry DEF Failures

LEMMA NextRespond ==
  ASSUME TracerInv, Respond
  PROVE  TracerInv'
<1>1. StackInv /\ TypeOK /\ AbortInv
  BY Under
<1>2. StackInv' /\ AbortInv'
  BY <1>1, RespondStep, AbortAnswered
<1>3. CASE status = "Discarded"
  <2>1. status' = "Discarded"
    BY <1>3 DEF Respond
  <2> QED
    BY <1>2, <2>1 DEF TracerInv
<1>4. CASE status # "Discarded"
  <2>1. /\ NodesInv /\ frames # <<>> /\ nodes' = Collapsed /\ frames' = <<>>
        /\ UNCHANGED <<running, caller, spent, emitters, performed, entered, status, balance,
                       rootArgs>>
    BY <1>4 DEF Respond, TracerInv
  <2>2. TreeInv' /\ ResultInv' /\ GasInv'
    BY <1>1, <2>1, TreeCollapsed, ResultCollapsed, GasCollapsed DEF NodesInv
  <2>3. /\ Calls' = Calls
        /\ \A i \in Calls : /\ nodes'[i].function = nodes[i].function
                            /\ nodes'[i].events = nodes[i].events
                            /\ nodes'[i].storage = nodes[i].storage
    BY <1>1, <2>1, CollapsedTree DEF Calls
  <2>4. EventsInv'
    BY <2>1, <2>3, EventsSame DEF NodesInv
  <2>5. StorageInv'
    BY <2>1, <2>3, StorageSame DEF NodesInv
  <2>6. RootArgsInv'
    BY <2>1, RootArgsSame DEF NodesInv
  <2> QED
    BY <1>2, <2>2, <2>4, <2>5, <2>6 DEF TracerInv, NodesInv
<1> QED
  BY <1>3, <1>4

LEMMA StutterTracer ==
  ASSUME TracerInv, UNCHANGED vars
  PROVE  TracerInv'
<1>1. StackInv /\ StackInv'
  BY StutterStack DEF TracerInv
<1>2. AbortInv' = AbortInv
  BY Unmoved DEF vars, AbortInv, LeftOpen, TopFunction, Top, Calls, AbortStackHasOpenCalls, Traced,
         Answered, ShownCalls, OpenCalls
<1>3. TreeInv' = TreeInv /\ ResultInv' = ResultInv
  BY Unmoved DEF vars, TreeInv, Over, Calls, ResultInv, IsMove, EntriesOver
<1>4. GasInv' = GasInv /\ StorageInv' = StorageInv
  BY Unmoved DEF vars, GasInv, Overdrawn, SelfGas, IsMove, Calls, StorageInv, Top
<1>5. EventsInv' = EventsInv /\ RootArgsInv' = RootArgsInv
  BY Unmoved DEF vars, EventsInv, Placed, InEventModule, Calls, RootArgsInv, MainEntered, PayloadArgs
<1> QED
  BY <1>1, <1>2, <1>3, <1>4, <1>5 DEF TracerInv, NodesInv, vars

LEMMA NextTracerInv == TracerInv /\ [Next]_vars => TracerInv'
<1> SUFFICES ASSUME TracerInv, [Next]_vars PROVE TracerInv'
  OBVIOUS
<1>1. CASE RecordEntryArgs
  BY <1>1, NextEntry
<1>2. CASE (\E cost \in Costs : DelegateOnly(cost)) \/ FailUnseen \/ Succeed
  BY <1>2, NextQuiet
<1>3. ASSUME NEW cost \in Costs,
             \/ ChargeActive(cost)
             \/ \E op \in StorageOps, succeeds \in BOOLEAN : ChargeStorage(op, succeeds, cost)
             \/ \E f \in Callable : ChargeCall(f, cost)
             \/ ChargeNativeExecution(cost)
             \/ \E ret \in Returns : NativeReturns(cost, ret)
             \/ NativeAborts(cost)
      PROVE  TracerInv'
  BY <1>3, NextChargeActive, NextChargeStorage, NextChargeCall, NextChargeNative,
     NextNativeReturns, NextNativeAborts
<1>4. CASE RecordEvent
  BY <1>4, NextEvent
<1>5. ASSUME NEW ret \in Returns, RecordMoveReturn(ret) PROVE TracerInv'
  BY <1>5, NextMoveReturn
<1>6. CASE Respond
  BY <1>6, NextRespond
<1>7. CASE UNCHANGED vars
  BY <1>7, StutterTracer
<1> QED
  BY <1>1, <1>2, <1>3, <1>4, <1>5, <1>6, <1>7 DEF Next, Finished

-----------------------------------------------------------------------------
(* The theorems.                                                           *)

LEMMA TracerInvGoals ==
  ASSUME TracerInv
  PROVE  /\ TypeOK /\ FramesFollowVm /\ TreeIsCallTree /\ ResultIffReturned /\ GasOfItsCall
         /\ EventsWithTheirCaller /\ StorageOfItsCall /\ RootArgsAreUsers
         /\ AbortStackHasOpenCalls
<1>1. TypeOK /\ FramesFollowVm /\ AbortStackHasOpenCalls /\ DOMAIN nodes = Calls
  BY Typed DEF TracerInv, StackInv, AbortInv
<1>2. TreeIsCallTree
  BY <1>1, TreeGoal DEF TracerInv, NodesInv, TreeInv
<1>3. EventsWithTheirCaller
  <2>1. CASE status = "Discarded"
    BY <2>1 DEF EventsWithTheirCaller
  <2>2. CASE status # "Discarded"
    BY <1>1, <2>2, EventsGoal DEF TracerInv, NodesInv
  <2> QED
    BY <2>1, <2>2
<1>4. ResultIffReturned /\ RootArgsAreUsers
  <2>1. ResultIffReturned
    BY <1>1, ResultsGoal DEF TracerInv, NodesInv
  <2>2. RootArgsAreUsers
    BY DEF TracerInv, NodesInv, RootArgsAreUsers, RootArgsInv
  <2> QED
    BY <2>1, <2>2
<1>5. GasOfItsCall /\ StorageOfItsCall
  BY <1>1 DEF TracerInv, NodesInv, GasOfItsCall, GasInv, Overdrawn, StorageOfItsCall,
     StorageInv
<1> QED
  BY <1>1, <1>2, <1>3, <1>4, <1>5

LEMMA TracerInvAlways == Spec => []TracerInv
<1> QED
  BY InitTracerInv, NextTracerInv, PTL DEF Spec

\* The tracer's state has its shape, and "frames is never empty" until the response
\* is built, so that the expect and unwrap of src/src/trace.rs:228 "cannot fire".
THEOREM TracerTyped == Spec => []TypeOK
<1> QED
  BY TracerInvAlways, TracerInvGoals, PTL

\* In an entry, the tracer's frames are the VM's call stack, though it is told neither
\* of entries nor of natives that are not yet charged for.
THEOREM FramesAreTheStack == Spec => []FramesFollowVm
<1> QED
  BY TracerInvAlways, TracerInvGoals, PTL

\* What pop_into_parent and finish build is the tree of the calls, each once and in
\* their order.
THEOREM TreeIsTheCalls == Spec => []TreeIsCallTree
<1> QED
  BY TracerInvAlways, TracerInvGoals, PTL

\* record_move_return, and nothing else, gives a Move call its result, the root
\* having that of any entry: it says only that one has returned.
THEOREM ResultsAreReturns == Spec => []ResultIffReturned
<1> QED
  BY TracerInvAlways, TracerInvGoals, PTL

\* charge_to_active gives every call the gas spent in it; more is shown by the native
\* that used the budget up, and by no other call.
THEOREM GasIsTheCalls == Spec => []GasOfItsCall
<1> QED
  BY TracerInvAlways, TracerInvGoals, PTL

\* event_sink_index gives an event to the nearest call outside of 0x1::event.
THEOREM EventsAreTheCallers == Spec => []EventsWithTheirCaller
<1> QED
  BY TracerInvAlways, TracerInvGoals, PTL

\* The storage callbacks note what each call did, in its order; at most the operation
\* that failed is noted besides.
THEOREM StorageIsTheCalls == Spec => []StorageOfItsCall
<1> QED
  BY TracerInvAlways, TracerInvGoals, PTL

\* record_entry_args takes the arguments of the payload's entry, whichever are entered
\* before and after it.
THEOREM ArgsAreThePayloads == Spec => []RootArgsAreUsers
<1> QED
  BY TracerInvAlways, TracerInvGoals, PTL

\* The abort stack of finish lists the calls that were open when the VM failed,
\* innermost first, but for a native that failed after it was charged for.
THEOREM AbortStackIsTheStack == Spec => []AbortStackHasOpenCalls
<1> QED
  BY TracerInvAlways, TracerInvGoals, PTL

=============================================================================
