SPECIFICATION Spec
CONSTANTS
  Callers = {p1}
  Nil = Nil
  Configs <- PlainOnly
  maxHistory = 2
  HistoryIDs = 4
  MaxLoads = 2
INVARIANT CancelledNeverExits
CHECK_DEADLOCK FALSE
