\* The README's mid-stream failover, against two upstreams.
CONSTANTS
    r1 = r1  r2 = r2
    k1 = k1
    u1 = u1  u2 = u2  ux = ux
    h1 = h1  h2 = h2
    NoURL = NoURL
    Requests = {r1}
    Keys = {k1}
    URLs = {u1, u2}
    HttpURLs = {u1, u2}
    Hosts = {h1, h2}
    HostOf <- MCHostOf
    StreamURLs <- MCTwoURLs
    AdaptKeys = {k1}
    DefaultTranscode <- MCNative
    TunerCount = 1
    MaxFailureStreak = 2
SPECIFICATION Spec
INVARIANT FailsOverMidStream
