SPECIFICATION Spec
CONSTANTS
    News = News
    Sport = Sport
    Radio = Radio
    Channels <- MCChannels
    Linked <- MCLinked
    Catalogs <- MCOneCatalog
    Rank <- MCRank
    MaxChannels = 3
    GuidePolicy = "healthy"
    Sources = {Provider}
    Covers <- MCCovers
    Requests = {r1}
    MaxUpdates = 2
PROPERTIES
    OnlyRealKept
