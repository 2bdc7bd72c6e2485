SPECIFICATION Spec
CONSTANTS
  Callers = {p1, p2}
  Nil = Nil
  Configs <- AllKinds
  maxHistory = 2
  HistoryIDs = 4
  MaxLoads = 2
SYMMETRY Symmetry
INVARIANTS TypeOK OneLive Settled HistoryConsecutive WorkBounded ExitOnlyWhenComplete
CHECK_DEADLOCK FALSE
