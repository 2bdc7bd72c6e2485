SPECIFICATION FairSpec
CONSTANTS
  Workers = {"remote", "local"}
  Users = {u1}
  ProcOf <- OneLocal
  Server = "server"
  Exits = {"local"}
  UserOps = {"create", "delete", "drain", "enqueue"}
  Queue = work
  Nil = Nil
  MaxConns = 2
  MaxQueues = 1
  MaxMessages = 1
  MaxFaults = 1
  MaxPuts = 0
  MaxFiles = 2
PROPERTIES EventuallySettled
