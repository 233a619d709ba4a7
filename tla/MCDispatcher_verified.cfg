SPECIFICATION FairSpec
CONSTANTS
  p1 = p1  p2 = p2
  t1 = t1  t2 = t2  t3 = t3
  Procs = {p1, p2}
  Turns = {t1, t2}
  NoTurn = NoTurn
  NoProc = NoProc
  NoCp = NoCp
  RetryBudget = 3
  UseLease = TRUE
  Ops = {"run"}
  MaxFaults = 3
  FaultKinds = {"crash", "save", "load", "release"}
  ForeignClient = FALSE
  Contract = "adapter"
PROPERTIES
  VerifiedWorkIsAccepted
