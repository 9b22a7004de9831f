SPECIFICATION ServerSpec
CONSTANTS
  Tasks = {t1, t2}
  NoTask = NoTask
  x1 = x1
  ann = ann
  Txns <- MCTxns
  NoTxn = NoTxn
  Sender <- MCSender
  SequenceNumber <- MCSequenceNumber
  Kinds = {"submit"}
  Torn = Torn
  NoDir = NoDir
  NoSnap = NoSnap
  IoMayFail = FALSE
  SameTick = FALSE
  ChainOverride = FALSE
  Cap = 1
  Calls <- MCQueueCalls
  Limit = 1
  Pool = 2
  Timeout = 1
  KnownTypes = 2
  Creating = {x1}
  NoAuth = FALSE
  Strict = TRUE
INVARIANTS
  BudgetCoversQueue
