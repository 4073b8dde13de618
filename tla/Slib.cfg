SPECIFICATION MCSpec
CONSTANTS
    c1 = c1
    c2 = c2
    x = x
    y = y
    q1 = q1
    q2 = q2
    NoAux = NoAux
    NoView = NoView
    Clients = {c1, c2}
    Objects = {x, y}
    Queues = {q1, q2}
    TagOf <- OneObjectTag
    QueueTagOf <- OneQueueTag
    Budgets <- MCBudgets
INVARIANTS
    FirstCommitterWins
    PopsAreFifo
    ReplicasAgreeWithLog
SYMMETRY Symmetry
CHECK_DEADLOCK FALSE
