SPECIFICATION ControlSpec
CONSTANTS
  r1 = r1  r2 = r2
  b1 = b1  b2 = b2
  h1 = h1  h2 = h2
  mo1 = mo1  mo2 = mo2
  e1 = e1  e2 = e2
  p1 = p1  x1 = x1  ed1 = ed1
  po1 = po1  po2 = po2
  ao1 = ao1  ao2 = ao2
  pid1 = pid1  pid2 = pid2
  g1 = g1  g2 = g2
  Procs = {p1}
  Sessions = {x1}
  Branches = {b1, b2}
  Heads = {h1, h2}
  Models = {mo1, mo2}
  Efforts = {e1, e2}
  Edits = {ed1}
  Runs = {r1, r2}
  Ports = {po1, po2}
  Hosts = {ao1, ao2}
  Pids = {pid1, pid2}
  Gateways = {g1, g2}
  DefaultGateway = g1
  Others = {mo2}
  Endpoints <- MCEndpoints
  Shas <- MCShas
  Specs <- MCSpecs
  RawSpecs <- MCRawSpecs
  Tried <- MCTried
  StartMachines <- MCMachines
  Starts <- Ready
  Faulty = FALSE
  MaxChanges = 1
  NoFile = NoFile
  Corrupt = Corrupt
  NoBranch = NoBranch
  NoManifest = NoManifest
  Never = Never
  Absent = Absent
  Damaged = Damaged
PROPERTIES
  NoDaemonIsExit3
