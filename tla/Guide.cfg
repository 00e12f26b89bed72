SPECIFICATION FairSpec
CONSTANTS
    News = News
    Sport = Sport
    Radio = Radio
    Channels <- MCChannels
    Linked <- MCLinked
    Catalogs <- MCCatalogs
    Rank <- MCRank
    MaxChannels = 2
    GuidePolicy = "healthy"
    Sources = {Provider}
    Covers <- MCCovers
    Requests = {r1}
    MaxUpdates = 2
INVARIANTS
    HandlersAgree
    ReportOfThisGuide
PROPERTIES
    NoGoodChannelLost
    GuideCatchesUp
