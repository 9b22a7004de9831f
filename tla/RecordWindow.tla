----------------------------- MODULE RecordWindow -----------------------------
(***************************************************************************)
(* What the transaction record store promises (the doc comment of TxStore, *)
(* src/src/session_wrapper.rs: "Bounded transaction record store with      *)
(* deterministic FIFO eviction"), as one list of hash and record pairs     *)
(* with the oldest hash first.                                             *)
(***************************************************************************)
EXTENDS Naturals, Sequences

CONSTANTS Hash, Record, Cap

VARIABLE window

Entries == [hash : Hash, record : Record]

Positions(hash) == {i \in DOMAIN window : window[i].hash = hash}

Init == window = <<>>

\* A hash that is in the list keeps its place and gets the new record.
Replace(hash, record) ==
  \E i \in Positions(hash) :
    window' = [window EXCEPT ![i] = [hash |-> hash, record |-> record]]

\* A hash that is not joins at the end; beyond the capacity the first goes.
Add(hash, record) ==
  LET longer == Append(window, [hash |-> hash, record |-> record])
  IN  /\ Positions(hash) = {}
      /\ window' = IF Len(longer) > Cap THEN Tail(longer) ELSE longer

Next == \E hash \in Hash, record \in Record :
          Replace(hash, record) \/ Add(hash, record)

Spec == Init /\ [][Next]_window

=============================================================================
