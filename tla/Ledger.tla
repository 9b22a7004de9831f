-------------------------------- MODULE Ledger --------------------------------
(***************************************************************************)
(* What the session promises its clients: a ledger in which a transaction  *)
(* is executed, given its version and recorded in one indivisible step.    *)
(* The doc comments of execute_and_record and of the traced commit         *)
(* (src/src/session_wrapper.rs, "audit #10") state the aim; the two other  *)
(* kinds of step are what the code also lets happen:                       *)
(*   - a change whose save failed stays, without version and record;       *)
(*   - funding an account and counting it are two steps.                   *)
(***************************************************************************)
EXTENDS Naturals, Sequences

CONSTANTS
  Txns, NoTxn,
  Clients, NoClient,
  Kept,        \* the verdicts that commit a write set
  Startup,     \* the histories a server may start with
  Cap          \* how many records are held

VARIABLES
  history,     \* the changes made to the chain, oldest first
  version,     \* the ledger version served to clients
  records,     \* the recent transactions: hash and record, oldest first
  uncounted    \* funded accounts the version does not count yet

ledgerVars == <<history, version, records, uncounted>>

Verdicts == Kept \cup {"discard"}

Store == INSTANCE RecordWindow
           WITH window <- records, Hash <- Txns,
                Record <- [status : Verdicts, version : Nat]

Put(hash, record) == Store!Replace(hash, record) \/ Store!Add(hash, record)

Init ==
  /\ history \in Startup
  /\ version = 0
  /\ Store!Init
  /\ uncounted = 0

Grow(txn, status, client) ==
  history' = Append(history, [txn |-> txn, status |-> status, by |-> client])

\* A transaction is executed, takes the next version and is recorded with it.
Commit(txn, status, client) ==
  /\ Grow(txn, status, client)
  /\ version' = version + 1
  /\ Put(txn, [status |-> status, version |-> version + 1])
  /\ UNCHANGED uncounted

\* A transaction is rejected: it changes nothing but takes a version too.
Discard(txn) ==
  /\ version' = version + 1
  /\ Put(txn, [status |-> "discard", version |-> version + 1])
  /\ UNCHANGED <<history, uncounted>>

\* A change is made and then the call fails.
CommitUnrecorded(txn, status, client) ==
  /\ Grow(txn, status, client)
  /\ UNCHANGED <<version, records, uncounted>>

Fund(client) ==
  /\ Grow(NoTxn, "success", client)
  /\ uncounted' = uncounted + 1
  /\ UNCHANGED <<version, records>>

CountFund ==
  /\ uncounted > 0
  /\ uncounted' = uncounted - 1
  /\ version' = version + 1
  /\ UNCHANGED <<history, records>>

Next ==
  \/ \E txn \in Txns, status \in Kept, client \in Clients : Commit(txn, status, client)
  \/ \E txn \in Txns : Discard(txn)
  \/ \E txn \in Txns \cup {NoTxn}, status \in Kept, client \in Clients :
       CommitUnrecorded(txn, status, client)
  \/ \E client \in Clients : Fund(client)
  \/ CountFund

Spec == Init /\ [][Next]_ledgerVars

=============================================================================
