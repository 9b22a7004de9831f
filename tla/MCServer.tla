------------------------------- MODULE MCServer -------------------------------
(* Requests around one transaction, which creates the account that is asked *)
(* for and may be sent several times.                                       *)
EXTENDS Server, TLC

CONSTANTS x1, ann

MCTxns == {x1}
MCSender == x1 :> ann
MCSequenceNumber == x1 :> 0

Call(route, txn, flaws) == [route |-> route, txn |-> txn, flaws |-> flaws]

MCCalls ==
  {Call("submit", x1, {}), Call("mint", NoTxn, {}), Call("account", NoTxn, {}),
   Call("byHash", NoTxn, {})}

MCProgressCalls ==
  {Call("submit", x1, {}), Call("traceCommit", x1, {}), Call("mint", NoTxn, {}),
   Call("simulate", x1, {}), Call("resources", NoTxn, {}), Call("view", NoTxn, {}),
   Call("module", NoTxn, {}), Call("byHash", NoTxn, {}),
   Call("traceCommit", x1, {"token"}), Call("mint", NoTxn, {"token", "address"})}

MCQueueCalls == {Call("submit", x1, {})}

TaskSymmetry == Permutations(Tasks)
=============================================================================
