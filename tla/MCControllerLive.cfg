SPECIFICATION FairSpec
CONSTANTS
  root = root
  seg = seg
  a1 = a1
  a2 = a2
  u1 = u1
  u2 = u2
  Node = {root, seg}
  RestChild = {a2}
  User = {u1, u2}
  Root = root
  parent <- MCparentOne
  Entry <- MCEntryOpen
  Issued <- MCIssuedFew
  Mortal = {seg}
  Acting = {seg}
  InitToken = InitToken
  NoToken = NoToken
  NoTransition = NoTransition
  State <- MCState
  Transition <- MCTransition
  Source <- MCSource
  Destination <- MCDestination
  InitialState = "initial"
  ClientInitial = "initial"
PROPERTIES
  RaisedIsFinal
  ImplementsRunControl
  EveryCallAnswered
