SPECIFICATION Spec
CONSTANTS
  Which = {"hash", "drive", "image", "cores", "recent", "state", "files", "settings"}
  None = None
  NoFile = NoFile
  NoGame = NoGame
  NoOne = NoOne
  Empty = Empty
  NoItem = NoItem
  Callers = {t1, t2}
  Jobs <- MCJobs
  Games <- MCGames
  Images <- MCDiscs
  Amounts = {32, 2048, 4700}
  Toc = 1
  Entries <- MCEntries
  Absent = {"b"}
  UserFiles = {"rom", "zip", "otherZip"}
  Zips = {"zip", "otherZip"}
  Emulators = {"plain", "extracting"}
  Extracting = {"extracting"}
  Extracted <- MCExtracted
  MaxRecent = 3
  Sizes = {16, 20}
  Views <- MCViews
  Looks <- MCLooks
  Texture <- MCTexture
  Aspect <- MCAspect
  MaxMoments = 2
  Streams = {1, 2}
  Values = {1, 2}
  MaxLength = 2
  BindingNames <- MCNames
  PerPort = 3
  Ports = 2
  Pressed <- MCPressed
  Buttons = {"a", "b"}
  Axes = {"leftx", "lefty", "trigger"}
  Keys = {"P", "X"}
  OldFiles <- MCOldFiles
  Ratios = {4}
  Windows <- MCWindows
  MaxChanges = 2
  MaxSessions = 2
INVARIANTS
  HashIsOfFinishedFile
  DrivesAgree
  ReadsAskedTrack
  MenuLoadsWhatItSays
  MenuIsRight
  LoadRestores
  FilesHoldWrites
  ConfigurationReturns
CHECK_DEADLOCK FALSE
