\* A read of a file, another one's goroutine, and a crash.
CONSTANTS
    b1 = b1  o1 = o1  c1 = c1
    Callers = {b1, o1, c1}
    Size = 2
    MaxCalls = 1
    MaxCrashes = 1
    Readers = {1}
    Background <- MCBackground
    Own <- MCOwn
    SafeTitle <- MCSafeTitle
    Libraries <- MCLibraries
    ReadLibrary <- MCReadLibrary
SPECIFICATION FairVodSpec
INVARIANTS OneDownload FinalIsComplete EofMeansFailure AllReachable
PROPERTIES ReadsAreAnswered
