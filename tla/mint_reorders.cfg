SPECIFICATION Spec
CONSTANTS
  Tasks = {t1, t2, t3}
  NoTask = NoTask
  x1 = x1  x2 = x2  y1 = y1
  ann = ann  bob = bob
  Txns <- MCTxns
  NoTxn = NoTxn
  Sender <- MCSender
  SequenceNumber <- MCSequenceNumber
  Kinds = {"submit", "mint"}
  Torn = Torn
  NoDir = NoDir
  NoSnap = NoSnap
  IoMayFail = FALSE
  SameTick = FALSE
  ChainOverride = FALSE
  Cap = 2
SYMMETRY TaskSymmetry
INVARIANTS
  VersionCountsCommitsBefore
