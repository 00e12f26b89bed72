\* Emby with channels of another tuner.
SPECIFICATION FairSpec
CONSTANTS
  MaxFaults = 1
  MaxRestarts = 1
  ChannelCount = 1
  BatchSize = 1
  LibraryCount = 1
  Setups <- MCEmby
PROPERTIES
  TunerComesBackBesideOthers
