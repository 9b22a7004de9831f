SPECIFICATION FairServerSpec
CONSTANTS
  Tasks = {t1, t2}
  NoTask = NoTask
  x1 = x1
  ann = ann
  Txns <- MCTxns
  NoTxn = NoTxn
  Sender <- MCSender
  SequenceNumber <- MCSequenceNumber
  Kinds = {"submit", "traceCommit", "mint", "simulate", "view"}
  Torn = Torn
  NoDir = NoDir
  NoSnap = NoSnap
  IoMayFail = TRUE
  SameTick = TRUE
  ChainOverride = FALSE
  Cap = 1
  Calls <- MCProgressCalls
  Limit = 1
  Pool = 2
  Timeout = 1
  KnownTypes = 2
  Creating = {x1}
  NoAuth = FALSE
  Strict = TRUE
INVARIANTS
  AnswersAreTrue
  ChangesAuthorized
  ClonesRemoved
PROPERTIES
  EveryRequestSent
  EveryClosureEnds
