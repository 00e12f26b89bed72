SPECIFICATION FairSpec
CONSTANTS
  MaxFaults = 3
  MaxRestarts = 2
  ChannelCount = 3
  BatchSize = 1
  LibraryCount = 2
  Setups <- MCEach
INVARIANTS
  NothingAccumulates
  FallbackWritesOnce
PROPERTIES
  TunerComesBack
  WatchdogRestores
  LibrariesConverge
