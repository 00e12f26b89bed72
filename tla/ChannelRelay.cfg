\* ffmpeg's five units behind a gate that wants two and keeps three; then a window of three segments.
CONSTANTS
    MaxSeg = 3
    Variants = 2
    Deadline = 1
    Units = 5
    ReadMax = 2
    StartupMin = 2
    StartupMax = 3
SPECIFICATION FairChannelSpec
INVARIANTS InOrderOnce LostOnlyByFailure SingleWriter InOrder CleanEndIsComplete
PROPERTIES HangUpEnds EndsWithUpstream NothingLeftBehind
