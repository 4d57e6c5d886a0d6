SPECIFICATION Spec
CONSTANTS
  Which = {"log", "microphone", "memory", "video", "overlay", "core", "program"}
  Null = Null
  Undeclared = Undeclared
  RingSize = 17
  MaxLine = 9
  Base = 4
  Levels = {1, 2}
  Lengths = {0, 2, 5, 8}
  MaxLines = 5
  FifoSize = 3
  Batches = {2, 4}
  Requests = {1, 3}
  MaxWait = 2
  MaxSamples = 6
  SizeT = 8
  Maps <- MCMaps
  Bits <- MCBits
  MaxBanks = 2
  MaxAttempts = 2
  Reloads = TRUE
  Geometries <- MCGeometries
  Formats = {"RGB565", "XRGB8888"}
  Frames <- MCFrames
  Windows <- MCWindows
  FirstWindow <- MCFirstWindow
  MaxEvents = 1
  Slots = 2
  Durations = {1, 3}
  MaxMessages = 4
  MaxDraws = 5
  Systems <- MCSystems
  Overrides <- MCOverrides
  Declared = {"descriptors", "controllers", "descriptorsOfMemory", "hardwareRender", "keyboard", "updateDisplay"}
  Counts = {2}
  Extensions = {"md", "sg", "cue"}
  Arena = 5
  MaxLoads = 2
  MayFail = {"logger", "sdl", "library", "window", "menu", "device", "fifo", "context", "gl", "video", "cores"}
INVARIANTS
  LogShowsLatest
  HearsInOrder
  ReadsTheCore
  PictureIsRight
  MessagesAreDrawn
  KeepsOnlyOwn
  EndsClean
PROPERTIES
  CallsReturn
CHECK_DEADLOCK FALSE
