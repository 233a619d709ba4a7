SPECIFICATION Spec
CONSTANTS
  p1 = p1  p2 = p2
  t1 = t1  t2 = t2  t3 = t3
  Procs = {p1, p2}
  Turns = {t1, t2, t3}
  NoTurn = NoTurn
  NoProc = NoProc
  NoCp = NoCp
  RetryBudget = 2
  UseLease = TRUE
  Ops = {"run", "cancel"}
  MaxFaults = 2
  FaultKinds = {"crash", "save", "load", "release", "context", "artifact", "preflight", "network", "refuse", "late", "odd", "session"}
  ForeignClient = TRUE
  Contract = "truthful"
SYMMETRY ProcsAndTurns
INVARIANTS
  TypeOK
  AtMostOnce
  ResendableMeansUnsent
  PostsWithinBudget
  CancelledIsQuiet
  CompletedIsVerified
  DeliveredIsReal
  SteeredIsQuarantined
PROPERTIES
  SendIsWrittenAhead
  TerminalIsFinal
  LeaseIsALock
  ImplementsTaskDelivery
