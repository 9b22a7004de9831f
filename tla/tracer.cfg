SPECIFICATION Spec
CONSTANTS
  prologue = prologue  main = main  epilogue = epilogue  helper = helper
  emit = emit  write = write  user = user  framework = framework
  Functions <- MCFunctions
  Module <- MCModule
  EventModule = EventModule
  Natives = {write}
  Entries <- MCEntries
  Root = main
  ArgsOf <- MCArgsOf
  UserArgCount = 2
  Values <- MCValues
  Returns <- MCReturns
  Unit = Unit
  Budget = 4
  Costs = {1, 2}
  MaxCalls = 4
  MaxEvents = 2
  MaxOps = 1
INVARIANTS
  TypeOK
  FramesFollowVm
  TreeIsCallTree
  EventsWithTheirCaller
  RootArgsAreUsers
  AbortStackHasOpenCalls
  ResultIffReturned
  GasOfItsCall
  StorageOfItsCall
