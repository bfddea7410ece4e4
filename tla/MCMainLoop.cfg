SPECIFICATION MainFairSpec
CONSTANTS
  c1 = c1  c2 = c2
  Client = {c1, c2}
  NoClient = NoClient
  RunLoop = RunLoop
  Name = {"a", "b"}
  NoName = NoName
  Tasks <- MCTasks
  MaxSignals = 1
VIEW MCView
INVARIANTS
  BroadcastSafe
PROPERTIES
  MainLoopReturns ShutdownStops
CHECK_DEADLOCK FALSE
