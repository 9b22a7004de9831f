---------------------------- MODULE MCJsonBuilder ----------------------------
(* Values of up to three levels: in each a part is alone, or next to a     *)
(* leaf on either side.                                                    *)
EXTENDS JsonBuilder

MCLeaves == {"u64", "vector<u8>"}

Leaf(type) == [type |-> type, items |-> <<>>]
LeafValues == {Leaf(type) : type \in MCLeaves}

Parts(values, others) ==
  {<<>>} \cup {<<v>> : v \in values} \cup {<<v, w>> : v \in values, w \in others}
    \cup {<<w, v>> : v \in values, w \in others}

Around(values, others) ==
  {[type |-> kind, items |-> parts] : kind \in Containers, parts \in Parts(values, others)}
    \cup {[type |-> "reference", items |-> <<v>>] : v \in values}

Level1 == LeafValues \cup Around(LeafValues, LeafValues)
Level2 == LeafValues \cup Around(Level1, LeafValues)
MCValues == Level2 \cup Around(Level2, {Leaf("u64")})

\* What they should be shown as.
RECURSIVE Rendered(_)
Rendered(v) ==
  IF v.type = "reference" THEN Rendered(v.items[1])
  ELSE [json |-> CASE v.type = "vector" -> "array"
                   [] v.type \in {"struct", "closure"} -> "object"
                   [] OTHER -> v.type,
        items |-> [i \in DOMAIN v.items |-> Rendered(v.items[i])]]

RECURSIVE Referent(_)
Referent(v) == IF v.type = "reference" THEN Referent(v.items[1]) ELSE v

MCShown == [v \in MCValues |-> [type |-> Referent(v).type, json |-> Rendered(v)]]
=============================================================================
