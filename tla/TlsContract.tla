---------------------------- MODULE TlsContract ----------------------------
(***************************************************************************)
(* What the TLS constrictor promises, without record tracking: it knows    *)
(* for every direction whether its connection speaks TLS, learns that from *)
(* a packet that can hold a record header, forgets it with a SYN or RST,   *)
(* and shortens payloads of known connections only, never to less than the *)
(* configuration asks for.  A payload may always be kept whole.            *)
(***************************************************************************)
EXTENDS Integers

CONSTANTS
    Packet,             \* the packets, with a key, a size and syn_or_rst
    NoPacket,           \* no call is running
    HeaderSize,         \* the size of a record header
    KeepRecord,         \* what is kept of a record that starts in a packet
    KeepContinuation    \* what is kept of a packet that only ends a record

VARIABLES
    known,      \* the directions whose connection is known to speak TLS
    packet,     \* the packet in hand
    verdict     \* whether the last payload is cut, and how much is kept

contractVars == <<known, packet, verdict>>

Idle == packet = NoPacket
Busy == packet \in Packet

\* A connection is two directions, each the reverse of the other.
Ends(k) == {k, <<k[2], k[1]>>}
Smaller(m, n) == IF m <= n THEN m ELSE n

ContractInit ==
    /\ known = {}
    /\ Idle
    /\ verdict = [cut |-> FALSE, kept |-> 0]

\* A packet without payload is answered at once, every other one is kept
\* whole unless something shorter is found.
Arrives ==
    /\ Idle
    /\ \E p \in Packet :
          /\ packet' = IF p.size = 0 THEN NoPacket ELSE p
          /\ known' = IF p.syn_or_rst THEN known \ Ends(p.key) ELSE known
          /\ verdict' = [cut |-> FALSE, kept |-> p.size]

\* A handshake record names both directions of its connection.
Learns ==
    /\ Busy
    /\ packet.size >= HeaderSize
    /\ known' = known \cup Ends(packet.key)
    /\ UNCHANGED <<packet, verdict>>

KeptWhole ==
    /\ Busy
    /\ packet' = NoPacket
    /\ verdict' = [cut |-> FALSE, kept |-> packet.size]
    /\ UNCHANGED known

\* What a cut keeps is what is configured for the end of a record, or as much
\* as is configured for a record's start, less only if a whole record is less.
Shortened ==
    /\ Busy
    /\ packet.key \in known
    /\ packet' = NoPacket
    /\ \E kept \in 0 .. packet.size - 1 :
          /\ kept = KeepContinuation \/ kept >= Smaller(KeepRecord, HeaderSize)
          /\ verdict' = [cut |-> TRUE, kept |-> kept]
    /\ UNCHANGED known

ContractNext == Arrives \/ Learns \/ KeptWhole \/ Shortened

ContractSpec == ContractInit /\ [][ContractNext]_contractVars
=============================================================================
