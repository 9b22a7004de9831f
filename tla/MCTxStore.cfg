SPECIFICATION TxSpec
CONSTANTS
  Hash = {h1, h2, h3, h4}
  Record = {r1, r2}
  Cap = 3
INVARIANT
  QueueMatchesMap
PROPERTY
  ImplementsWindow
