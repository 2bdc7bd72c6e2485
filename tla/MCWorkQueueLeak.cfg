SPECIFICATION FairSpec
CONSTANTS
  Workers = {"remote"}
  Users = {u1}
  ProcOf <- OneLocal
  Server = "server"
  Exits = {}
  UserOps = {"create"}
  Queue = work
  Nil = Nil
  MaxConns = 2
  MaxQueues = 1
  MaxMessages = 0
  MaxFaults = 0
  MaxPuts = 0
  MaxFiles = 2
PROPERTIES KeepsAsking
