SPECIFICATION FairCatalogSpec
CONSTANTS
  Channels <- MCChannels
  Name <- MCName
  Music <- MCMusic
  Spoken <- MCSpoken
  Sports <- MCSports
  Kids <- MCKids
  Affinity <- MCAffinity
  TitleRank <- MCTitleRank
  Aliases <- MCAliases
  Origins <- MCOrigins
  External = "x"
  Panel = "panel"
  Feed <- MCFeed
  Shows = {"Show"}
  GuideOf <- MCGuideOf
  CatalogConfigs <- MCCatalogConfigs
  MaxFaults = 2
INVARIANTS OneAccount SavedIsServed ProviderGuideWins NoStrippedHost LineupIsBest
PROPERTIES ChannelsComeBack
