SPECIFICATION FairSpec
CONSTANTS
  Sockets = {s}
  Pipes = {p}
  Fds = {3, 4}
  NumSlots = 2
  Vectors <- MCVectors
  Budgets <- MCBudgets
CHECK_DEADLOCK FALSE
INVARIANTS
  SendAllContract
  OpsOwnWhatTheyUse
PROPERTIES
  SendsAndClosesEnd
