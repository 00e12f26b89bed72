SPECIFICATION FairSpec
CONSTANTS
    Sessions = {s1}
    Poll = 2
    Needs = {0, 1}
    Idle = 4
    Hard = 6
    Retry = 3
    MaxBlock = 2
PROPERTIES
    PlayingNotReaped
    LeasesEnd
