------------------------------ MODULE JsonBuilder ------------------------------
(***************************************************************************)
(* Decoding a Move value for a trace: decode_value and JsonBuilder of      *)
(* src/src/trace.rs.                                                       *)
(*                                                                         *)
(* The VM walks a value depth first and calls a visitor for each node on   *)
(* the way in, never on the way out (external: ValueView::visit).  The     *)
(* builder must therefore know by itself when a container is complete: it  *)
(* keeps a stack of open containers, each with the number of slots that    *)
(* are still to be filled.                                                 *)
(*                                                                         *)
(* A value is [type, items]: a reference has the value it refers to as its *)
(* only item, a leaf has none.  Texts are left out: a leaf is shown as its *)
(* type.  A vector<u8> is one leaf.                                        *)
(***************************************************************************)
EXTENDS Naturals, Sequences, SequencesExt

CONSTANTS
  Values,     \* the values to decode, with all their parts
  Leaves,     \* the types of values without parts
  Nothing,    \* not set yet, and JSON's null
  Shown       \* what each value should be shown as: [type, json]

Containers == {"struct", "closure", "vector"}

ASSUME LeafAssumption ==
  Leaves \cap (Containers \cup {"reference", "unknown"}) = {} /\ Nothing \notin Leaves \cup Containers
ASSUME ValueAssumption ==
  /\ {v.items : v \in Values} \subseteq Seq(Values)
  /\ \A v \in Values : v.type \in Leaves => v.items = <<>>
  /\ \A v \in Values : v.type = "reference" => Len(v.items) = 1

\* A value is shown under its own type as a JSON of its shape, with each part in its
\* place; a reference as what it refers to.
ASSUME ShownAssumption ==
  \A v \in Values :
    Shown[v] =
      IF v.type = "reference" THEN Shown[v.items[1]]
      ELSE [type |-> v.type,
            json |-> [json |-> CASE v.type = "vector" -> "array"
                                 [] v.type \in {"struct", "closure"} -> "object"
                                 [] OTHER -> v.type,
                      items |-> [i \in DOMAIN v.items |-> Shown[v.items[i]].json]]]

VARIABLES
  value,      \* the value to decode
  unvisited,  \* the VM's walk: the parts still to visit at each level, outermost first
  stack,      \* the containers that are open, innermost last
  root,       \* the JSON of the whole value
  firstType,  \* the type of the first node that has one
  decoded     \* decode_value's result

vars == <<value, unvisited, stack, root, firstType, decoded>>

-----------------------------------------------------------------------------
(* The builder.                                                            *)

\* Container::into_json: arrays keep the order, structs and closures are keyed
\* by the position of the field.
IntoJson(frame) ==
  [json |-> IF frame.kind = "vector" THEN "array" ELSE "object", items |-> frame.items]

LeafJson(type) == [json |-> type, items |-> <<>>]

\* The innermost open container that one more item does not complete, 0 if each
\* is completed.
Incomplete == SelectLastInSeq(stack, LAMBDA frame : frame.remaining > 1)

Filled(frame, item) ==
  [kind |-> frame.kind, items |-> Append(frame.items, item), remaining |-> frame.remaining - 1]

\* A variant that folds a completed container once and not its parents.
AddOnce(item) ==
  IF stack = <<>> THEN root' = item /\ stack' = stack
  ELSE LET top == Filled(Last(stack), item)
       IN  IF top.remaining > 0 THEN stack' = [stack EXCEPT ![Len(stack)] = top] /\ root' = root
           ELSE IF Len(stack) = 1 THEN root' = IntoJson(top) /\ stack' = <<>>
           ELSE /\ stack' = [Front(stack) EXCEPT ![Len(stack) - 1] = Filled(@, IntoJson(top))]
                /\ root' = root

\* The item with all the containers that it completes around it.
Folded(item) ==
  LET inside[i \in Incomplete .. Len(stack)] ==
        IF i = Len(stack) THEN item ELSE IntoJson(Filled(stack[i + 1], inside[i + 1]))
  IN  inside[Incomplete]

\* A finished value goes into the innermost container; each container that this
\* completes is taken off and goes into the one around it.
Add(item) ==
  LET keep == Incomplete
  IN  IF keep = 0
      THEN root' = Folded(item) /\ stack' = <<>>
      ELSE /\ stack' = [SubSeq(stack, 1, keep) EXCEPT ![keep] = Filled(@, Folded(item))]
           /\ root' = root

\* An empty container is complete at once.
Open(kind, len) ==
  LET frame == [kind |-> kind, items |-> <<>>, remaining |-> len]
  IN  IF len = 0 THEN Add(IntoJson(frame))
      ELSE stack' = Append(stack, frame) /\ root' = root

\* A variant that keeps the type of the last node.
SetTypeLast(type) == firstType' = type

SetType(type) == firstType' = IF firstType = Nothing THEN type ELSE firstType

-----------------------------------------------------------------------------
(* The walk.                                                               *)

\* The next part, of the innermost level.
Part == Head(Last(unvisited))

\* The walk without it, and then without the levels that are done.
Passed == [unvisited EXCEPT ![Len(unvisited)] = Tail(@)]
Resumed(walk) == SubSeq(walk, 1, SelectLastInSeq(walk, LAMBDA parts : parts # <<>>))

-----------------------------------------------------------------------------

Init ==
  /\ value \in Values
  /\ unvisited = <<<<value>>>>
  /\ stack = <<>> /\ root = Nothing /\ firstType = Nothing /\ decoded = Nothing

Visiting(type) == decoded = Nothing /\ unvisited # <<>> /\ Part.type = type

\* The integers, bool, address, delayed field and vector<u8>.
VisitLeaf ==
  \E type \in Leaves :
    /\ Visiting(type)
    /\ SetType(type)
    /\ Add(LeafJson(type))
    /\ unvisited' = Resumed(Passed)
    /\ UNCHANGED <<value, decoded>>

\* visit_struct, visit_closure, visit_vec; the walk goes into the container.
VisitContainer ==
  \E kind \in Containers :
    /\ Visiting(kind)
    /\ SetType(kind)
    /\ Open(kind, Len(Part.items))
    /\ unvisited' = Resumed(Append(Passed, Part.items))
    /\ UNCHANGED <<value, decoded>>

\* Transparent: what it refers to takes its slot, and its type.
VisitRef ==
  /\ Visiting("reference")
  /\ unvisited' = [Passed EXCEPT ![Len(unvisited)] = Part.items \o @]
  /\ UNCHANGED <<value, stack, root, firstType, decoded>>

\* The walk stops with an error (the value is nested too deeply).
VisitFails ==
  /\ decoded = Nothing /\ unvisited # <<>>
  /\ decoded' = [type |-> "unknown", json |-> Nothing]
  /\ UNCHANGED <<value, unvisited, stack, root, firstType>>

\* decode_value, once the walk is over.
Decode ==
  /\ decoded = Nothing /\ unvisited = <<>>
  /\ decoded' = [type |-> IF firstType = Nothing THEN "unknown" ELSE firstType,
                 json |-> root]
  /\ UNCHANGED <<value, unvisited, stack, root, firstType>>

Over == decoded # Nothing /\ UNCHANGED vars

Next == VisitLeaf \/ VisitContainer \/ VisitRef \/ VisitFails \/ Decode \/ Over

Spec == Init /\ [][Next]_vars

-----------------------------------------------------------------------------

\* At every moment the open containers are the levels of the walk, and each waits
\* for the parts still to be visited there and the one being visited: the builder
\* never waits for a visit that does not come, and no visit comes for which there
\* is no slot.  No container that is complete stays open, and the whole is there
\* only when the walk is over.
SlotsMatchWalk ==
  decoded = Nothing =>
    IF unvisited = <<>> THEN stack = <<>>
    ELSE /\ root = Nothing
         /\ Len(unvisited) = Len(stack) + 1
         /\ \A i \in DOMAIN stack :
              /\ stack[i].remaining > 0
              /\ stack[i].remaining =
                   Len(unvisited[i + 1]) + (IF i < Len(stack) THEN 1 ELSE 0)

\* A value is decoded into the JSON of the same shape, each part in its place
\* and references replaced by what they refer to, with the type of the value
\* itself; or, when the walk fails, into nothing at all: never into a part of it.
DecodesTheValue ==
  decoded # Nothing =>
    decoded \in {Shown[value], [type |-> "unknown", json |-> Nothing]}

=============================================================================
