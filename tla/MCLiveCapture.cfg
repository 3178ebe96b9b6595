\* Each limit, both and none, racing with a stop request and a disk that may
\* fill up.
SPECIFICATION FairSpec
CONSTANTS
    DiskSpace = 3
    Config <- MCConfig
    NonblockOutcomes = {TRUE, FALSE}
    PacketBound = 3
INVARIANTS
    ReasonTruthful
    CountsMatchFile
    StopsWithinOnePacket
PROPERTIES
    StopHonoured
    DurationHonoured
    ImplementsContract
