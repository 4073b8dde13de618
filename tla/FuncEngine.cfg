SPECIFICATION Spec
CONSTANTS
  Funcs <- MCFuncs
  Nests <- MCNests
  MinWorkers <- MCMinWorkers
  MaxWorkers <- MCMaxWorkers
  DefaultMinWorkers = 1
  ExtCalls <- MCExtCalls
  Flags <- MCFlags
  MaxClientId = 2
  MaxNested = 1
  MaxLogOps = 1
  MaxProgress = 1
  MaxExits = 1
CHECK_DEADLOCK FALSE
INVARIANTS
    NoStrandedCall
    ChildSeesParent
    
PROPERTIES
    EngineImplementsService
