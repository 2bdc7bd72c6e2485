SPECIFICATION Spec
CONSTANTS
  Workers = {w1, w2}
  Users = {u1}
  ProcOf <- OnePod
  Server = "server"
  Exits = {w1, w2}
  UserOps = {"create", "enqueue"}
  Queue = work
  Nil = Nil
  MaxConns = 3
  MaxQueues = 2
  MaxMessages = 2
  MaxFaults = 1
  MaxPuts = 1
  MaxFiles = 2
SYMMETRY Symmetry
INVARIANTS LossesExplained ExitMeansTaken
PROPERTIES Implements
