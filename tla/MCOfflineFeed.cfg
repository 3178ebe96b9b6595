\* Any input, and a disk that may fill up at any write or not at all.
SPECIFICATION FeedSpec
CONSTANTS
    DiskSpace = 3
    FileSize <- MCFileSize
    Length <- MCLength
CHECK_DEADLOCK FALSE
INVARIANTS
    FeedTypeOK
    InputAccounted
    PrefixWritten
PROPERTIES
    ImplementsContract
