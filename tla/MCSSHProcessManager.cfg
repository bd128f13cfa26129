SPECIFICATION HFairSpec
CONSTANTS
  c1 = c1
  c2 = c2
  Client = {c1, c2}
  Uuid = {x1}
  Process = {p1, p2, p3}
  Issued <- MCIssued
  NoUuid = NoUuid
  NoProcess = NoProcess
INVARIANTS
  TypeOK
  TrackedIsBooted
  RunningIsTracked
  FlushedNotRestarted
PROPERTIES
  ReportedIsDead
  EveryRequestAnswered
