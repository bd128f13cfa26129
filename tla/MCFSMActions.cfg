SPECIFICATION Spec
CONSTANTS
  State <- MCState
  Transition <- MCTransition
  Source <- MCSource
  Destination <- MCDestination
  InitialState = "initial"
  PreTransitions <- MCPre
  PostTransitions <- MCPost
  Given <- MCGiven
  Incoming = {0}
  MaxRun = 2
INVARIANTS
  TypeOK
  RunIsRecorded
  StopTimeOfThisRun
  StopRepliesToItsRun
PROPERTIES
  CallbacksImplementNode
CHECK_DEADLOCK FALSE
