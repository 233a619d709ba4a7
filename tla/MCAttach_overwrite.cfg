SPECIFICATION Spec
CONSTANTS
  r1 = r1
  r2 = r2
  ep1 = ep1
  Endpoints = {ep1}
  b1 = b1
  h1 = h1
  mo1 = mo1
  e1 = e1
  p1 = p1
  p2 = p2
  x1 = x1
  ed1 = ed1
  Procs = {p1, p2}
  Sessions = {x1}
  Branches = {b1}
  Heads = {h1}
  Models = {mo1}
  Efforts = {e1}
  Edits = {ed1}
  Runs = {r1, r2}
  Shas <- MCShas
  Specs <- TwoRuns
  Starts <- Ready
  Faulty = FALSE
  MaxChanges = 0
  NoFile = NoFile
  Corrupt = Corrupt
  NoBranch = NoBranch
  NoManifest = NoManifest
PROPERTIES
  AttachedIsOnDisk
