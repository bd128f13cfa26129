SPECIFICATION FairSpec
CONSTANTS
  s0 = s0
  s1 = s1
  conf = conf
  start = start
  scrap = scrap
  State = {s0, s1}
  Transition = {conf, start, scrap}
  Source <- MCSource
  Destination <- MCDestination
  InitialState = s0
  ClientInitial = s0
  App = {a1, a2}
  Stranger = {alien}
  Restartable = {a1}
  MaxQueue = 2
  NoTransition = NoTransition
  NoCommand = NoCommand
INVARIANTS
  TypeOK
  BeliefIsTrue
PROPERTIES
  OwnReply
  PropagationEnds
  ImplementsRunControl
