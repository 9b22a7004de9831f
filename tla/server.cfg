SPECIFICATION ServerSpec
CONSTANTS
  Tasks = {t1, t2, t3}
  NoTask = NoTask
  x1 = x1
  ann = ann
  Txns <- MCTxns
  NoTxn = NoTxn
  Sender <- MCSender
  SequenceNumber <- MCSequenceNumber
  Kinds = {"submit", "mint", "view"}
  Torn = Torn
  NoDir = NoDir
  NoSnap = NoSnap
  IoMayFail = FALSE
  SameTick = FALSE
  ChainOverride = FALSE
  Cap = 1
  Calls <- MCCalls
  Limit = 2
  Pool = 2
  Timeout = 1
  KnownTypes = 2
  Creating = {x1}
  NoAuth = FALSE
  Strict = TRUE
SYMMETRY TaskSymmetry
INVARIANTS
  ServerTypeOK
  HeadersReflectAnswer
  LooksAdvance
  WaitBounded
