--------------------------- MODULE MCSessionWrapper ---------------------------
(* Three concurrent requests over three transactions: two of one sender,   *)
(* with consecutive sequence numbers, and one of another.                  *)
EXTENDS SessionWrapper, TLC

CONSTANTS x1, x2, y1, ann, bob

MCTxns == {x1, x2, y1}
MCSender == x1 :> ann @@ x2 :> ann @@ y1 :> bob
MCSequenceNumber == x1 :> 0 @@ x2 :> 1 @@ y1 :> 0

TaskSymmetry == Permutations(Tasks)
=============================================================================
