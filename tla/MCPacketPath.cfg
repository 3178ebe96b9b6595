\* Two frames that end inside, right behind or beyond each header.
SPECIFICATION FairPathSpec
CONSTANTS
    Config <- MCConfig
    MaxLength = 76
    PacketBound = 2
    FrameLength = {3, 18, 56, 66}
    HeaderWords = {4, 5, 6}
    FieldLength = {7, 10, 42}
    OriginalLength = {57, 76}
CHECK_DEADLOCK FALSE
INVARIANTS
    DecodeTypeOK
    HeadersNest
    FailureTold
    RecordSane
    ReasonTellsCut
    SavingsAddUp
    CutOnlyWhole
PROPERTIES
    PolicySpec
    EveryFrameRecorded
