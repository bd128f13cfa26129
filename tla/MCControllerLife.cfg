SPECIFICATION Spec
CONSTANTS
  root = root
  mid = mid
  low = low
  app = app
  off = off
  Segment = {root, mid, low}
  Application = {app, off}
  Root = root
  Parent <- MCParent
  Disabled = {off}
  FixedPort = {app}
  Base = 5
  Over = 3
  DescribeFor = 8
  Skew = 1
  MaxCrash = 1
  Mortal = {low, app}
  MaxSignal = 2
  Signalled = {mid}
INVARIANTS
  TypeOK
  ErrorClimbs
  OnlyTheDeadAreLost
  ParentsArePatient
  RetractedStaysOut
PROPERTIES
  StartUpEnds
  TerminationEnds
CHECK_DEADLOCK FALSE
