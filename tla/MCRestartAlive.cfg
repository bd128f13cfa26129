SPECIFICATION HSpec
CONSTANTS
  c1 = c1
  c2 = c2
  Client = {c1}
  Uuid = {x1, x2}
  Process = {p1, p2, p3}
  Issued <- MCIssuedToRestart
  NoUuid = NoUuid
  NoProcess = NoProcess
PROPERTIES
  RestartKillsFirst
