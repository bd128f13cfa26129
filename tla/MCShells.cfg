SPECIFICATION Spec
CONSTANTS
  own = own
  direct = direct
  Shell = {own, direct}
  Spawning = {own}
  ControllerShell = {direct}
  MaxBoot = 2
INVARIANTS
  TypeOK
  BootConnectsToFound
PROPERTIES
  ShellReturns
CHECK_DEADLOCK FALSE
