SPECIFICATION Spec
CONSTANTS
  p1 = p1  p2 = p2
  t1 = t1  t2 = t2  t3 = t3
  Procs = {p1}
  Turns = {t1, t2}
  NoTurn = NoTurn
  NoProc = NoProc
  NoCp = NoCp
  RetryBudget = 2
  UseLease = TRUE
  Ops = {"run", "runner"}
  MaxFaults = 1
  FaultKinds = {"save", "context"}
  ForeignClient = FALSE
  Contract = "adapter"
PROPERTIES
  EndsTellTheTask
