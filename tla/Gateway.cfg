SPECIFICATION Spec
CONSTANTS
  HttpConns <- MCHttpConns
  GrpcConns <- MCGrpcConns
  Nodes <- MCNodes
  Workers <- MCWorkers
  ConnWorker <- MCConnWorker
  NodeWorker <- MCNodeWorker
  MaxRunningRequests = 1
  Budgets <- MCBudgets
  MaxContexts = 3
  MaxStarts = 2
CHECK_DEADLOCK FALSE
INVARIANTS
    ResponseIsOfItsCall
    NoCallForgotten
    LoadIsReal
