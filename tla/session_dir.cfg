SPECIFICATION Spec
CONSTANTS
  genesis = genesis  testnet = testnet
  Txns = {x, y, z}
  Genesis = genesis
  Forks = {testnet}
  BaseChain <- MCBaseChain
  ChainIds = {0, 27}
  NoChain = NoChain
  Absent = Absent
  Torn = Torn
  MaxStarts = 4
  MaxOps = 3
INVARIANTS
  NothingAckedLost
  DiskIsOneSession
  CleanStopLoads
  ResetStartsAfresh
  ServedChainIsTheSessions
PROPERTIES
  StartSparesTheDirectory
  ImplementsDurable
