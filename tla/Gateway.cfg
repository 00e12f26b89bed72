\* Two requests, two tuners, two upstreams on two hosts and a URL of a refused scheme between them.
CONSTANTS
    r1 = r1  r2 = r2
    k1 = k1
    u1 = u1  u2 = u2  ux = ux
    h1 = h1  h2 = h2
    NoURL = NoURL
    Requests = {r1, r2}
    Keys = {k1}
    URLs = {u1, u2, ux}
    HttpURLs = {u1, u2}
    Hosts = {h1, h2}
    HostOf <- MCHostOf
    StreamURLs <- MCBadMiddle
    AdaptKeys = {k1}
    DefaultTranscode <- MCWeb
    TunerCount = 2
    MaxFailureStreak = 2
SPECIFICATION FairSpec
INVARIANTS GivesUpOnlyAfterAll BusyReplyIsTruthful RememberedURLAnswered
PROPERTIES ImplementsTunerPool HangUpFreesTuner
