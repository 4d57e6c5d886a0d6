SPECIFICATION Spec
CONSTANTS
  kA = kA
  kL = kL
  kR = kR
  kF = kF
  unbound = unbound
  Targets <- MCTargets
  Full = 8
  Threshold = 4
  Slots = 1
  Keys = {kA, kL, kR, kF}
  Mods = {0, 1}
  gA = gA
  gB = gB
  Guids = {gA, gB}
  Buttons = {"right"}
  Axes = {"leftX"}
  Positions <- MCPositions
  Ports = {0}
  Devices = {0, 1}
  Triggers = {"L2"}
  Rebinds <- MCRebinds
  Defaults <- MCDefaults
  MaxHeld = 2
  MaxIds = 3
  MaxUpsets = 1
SYMMETRY Symmetry
INVARIANTS
  InputFollows
  SpeedFollowsMenu
  PadKeepsItsBindings
CHECK_DEADLOCK FALSE
