\* Three connections on one pair of addresses, interleaved.
SPECIFICATION ConnectionSpec
CONSTANTS
    Pair <- MCPair
    ConnectionId <- MCConnectionId
    Connection <- MCConnection
    Symbol = {0, 1}
    MaxPayload = 5
    KeepPacket = 3
    RequireDcidMatch = TRUE
    AllowUnknownDcid = FALSE
PROPERTIES
    HeadersKept
    OnlyAnnouncedShortened
    AnnouncedMatches
