\* No read timeout, and pcap_setnonblock fails: an idle interface.
SPECIFICATION FairSpec
CONSTANTS
    DiskSpace = 9
    Config <- MCNoTimeout
    NonblockOutcomes = {FALSE}
    PacketBound = 3
PROPERTIES
    DurationHonoured
