SPECIFICATION HSpec
CONSTANTS
  c1 = c1
  c2 = c2
  Client = {c1, c2}
  Uuid = {x1, x2}
  Process = {p1, p2, p3}
  Issued <- MCIssuedRace
  NoUuid = NoUuid
  NoProcess = NoProcess
PROPERTIES
  KillReportsDead
