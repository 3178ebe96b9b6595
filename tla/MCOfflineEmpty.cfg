\* An input with a global header and nothing else.
SPECIFICATION FeedSpec
CONSTANTS
    DiskSpace = 9
    FileSize <- MCFileSize
    Length <- MCLength
CHECK_DEADLOCK FALSE
INVARIANTS
    OutputIsPcap
