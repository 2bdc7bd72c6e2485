SPECIFICATION PodFairSpec
CONSTANTS
  Callers = {g1, g2}
  Nil = Nil
  Probes <- TwoProbes
  Flags <- OneFailure
  FailNexts <- ForeverOr1
  maxHistory = 0
  IDs = 1
  MaxPuts = 1
  failureThreshold = 2
  MaxTimeouts = 1
  MaxExits = 1
INVARIANTS PodTypeOK FailsAsConfigured RestartEarned
PROPERTIES Heals ReadyAgain
