SPECIFICATION Spec
CONSTANTS
  earlyCore = earlyCore
  lateCore = lateCore
  speed = speed
  Cores = {earlyCore, lateCore}
  NoCore = NoCore
  EarlyCores = {earlyCore}
  Ports = {0, 1}
  Options <- MCOptions
  Layouts <- MCLayouts
  Described <- MCDescribed
  Preset <- MCPreset
INVARIANTS
  ChangesAreTold
  DialogShowsWhatCoreGets
  CoreHasSelectedController
PROPERTIES
  SettingsReturn
CHECK_DEADLOCK FALSE
