SPECIFICATION Spec
CONSTANTS
  p1 = p1  p2 = p2
  Procs = {p1, p2}
  MaxFaults = 5
  Contents <- MCContents
  Torn = Torn
  NoTemp = NoTemp
  NoFile = NoFile
SYMMETRY Slots
INVARIANTS
  TypeOK
  InspectionTellsTheTruth
  NeverTorn
  BarrierHoldsWithPower
  OneDuplicatePerPowerLoss
PROPERTIES
  ImplementsRunLock
  SavesBuildOnTheFile
