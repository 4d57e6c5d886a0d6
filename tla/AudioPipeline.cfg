CONSTANTS
  BufferFrames = 3
  FifoSize = 16
  Channels = 4
  FlushFrames = 2
  DeviceSamples = 8
  MaxWait = 2
  MaxBatch = 4
  MaxFrames = 6
  SizeT = 40
SPECIFICATION FairSpec
INVARIANTS
  RingIsSound
PROPERTIES
  MixReturns
  KeepsPromise
