SPECIFICATION FairSpec
CONSTANTS
  Callers = {p1, p2}
  Nil = Nil
  Configs <- PlainOnly
  maxHistory = 0
  HistoryIDs = 1
  MaxLoads = 2
PROPERTIES CancelledStops LimitedEnds
CHECK_DEADLOCK FALSE
