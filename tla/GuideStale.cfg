SPECIFICATION Spec
CONSTANTS
    News = News
    Sport = Sport
    Radio = Radio
    Channels <- MCChannels
    Linked <- MCLinked
    Catalogs <- MCCatalogs
    Rank <- MCRank
    MaxChannels = 3
    GuidePolicy = "off"
    Sources = {Provider, External}
    Covers <- MCCovers
    Requests = {r1}
    MaxUpdates = 1
PROPERTIES
    StaleServedOnFailure
