SPECIFICATION FairSpec
CONSTANTS
  Clients = {c1, c2, c3}
  Names = {n1}
  Nil = Nil
  Ops = {"create", "delete", "drain", "enqueue", "stats"}
  MaxQueues = 1
  MaxMessages = 1
INVARIANTS
  RowsBalanced
PROPERTIES
  EveryCallAnswered
