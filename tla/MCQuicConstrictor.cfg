\* Any datagrams between three endpoints; short headers to unknown IDs may be
\* shortened too, and all of them to as little as a header allows.
SPECIFICATION QuicSpec
CONSTANTS
    Pair <- MCPair
    ConnectionId <- MCConnectionId
    Symbol = {0, 1}
    MaxPayload = 4
    KeepPacket = 0
    RequireDcidMatch = FALSE
    AllowUnknownDcid = TRUE
INVARIANTS
    QuicTypeOK
PROPERTIES
    ImplementsContract
