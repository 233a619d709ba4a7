SPECIFICATION Spec
CONSTANTS
  p1 = p1  p2 = p2
  t1 = t1  t2 = t2  t3 = t3
  Procs = {p1, p2}
  Turns = {t1, t2}
  NoTurn = NoTurn
  NoProc = NoProc
  NoCp = NoCp
  RetryBudget = 2
  UseLease = FALSE
  Ops = {"run"}
  MaxFaults = 0
  FaultKinds = {}
  ForeignClient = FALSE
  Contract = "adapter"
SYMMETRY ProcsAndTurns
INVARIANTS
  PreflightAndPostAreExclusive
