SPECIFICATION Spec
CONSTANTS
  Clients = {c1, c2}
  Names = {n1}
  Nil = Nil
  Ops = {"create", "delete", "drain", "enqueue", "dequeue", "stats"}
  MaxQueues = 2
  MaxMessages = 3
SYMMETRY Symmetry
INVARIANTS
  TypeOK
  AckedIsReachable
  Balanced
  ScanIsSnapshot
PROPERTIES
  Implements
  NoRedelivery
