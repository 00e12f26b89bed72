\* Two instances, every configuration.
CONSTANTS
    i1 = i1  i2 = i2
    Instances = {i1, i2}
SPECIFICATION FairSpec
INVARIANTS NoOrphans FailuresAreReported RestartIsolates
PROPERTIES CancelEndsRun RestartsForever
