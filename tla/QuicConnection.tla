--------------------------- MODULE QuicConnection ---------------------------
(***************************************************************************)
(* QuicConstrictor against real QUIC connections.  Several connections use *)
(* the same pair of addresses, one after the other or interleaved; each    *)
(* end of each has the connection ID it announces in its long headers and  *)
(* is addressed by in short headers.  The capture sees any of their        *)
(* datagrams in any order: loss, repetition and reordering are choices of  *)
(* DatagramArrives.  What follows the ID of a short header is encrypted    *)
(* and may read as anything.                                               *)
(***************************************************************************)
EXTENDS QuicConstrictor

CONSTANTS
    Connection   \* the connections: functions from endpoints to the ID of
                 \* that end, <<>> for an end without one

Ends == {pair[1] : pair \in Pair}

StartsWith(bytes, id) == Len(id) <= Len(bytes) /\ Matches(id, bytes)

\* A connection has two ends.  The non-empty IDs an end uses are not prefixes of
\* each other: QUIC stacks use IDs of one length.
ASSUME ConnectionAssumption ==
    /\ \A pair \in Pair : pair[1] # pair[2]
    /\ Connection \subseteq [Ends -> ConnectionId]
    /\ \A c, d \in Connection, e \in Ends :
          (c[e] # <<>> /\ StartsWith(d[e], c[e])) => c[e] = d[e]

VARIABLES
    connection,   \* the connection of the datagram Evaluate works on
    announced     \* ghost: the connection, if any, of the last long header
                  \* with an ID seen from an end to its peer

connectionVars == <<vars, connection, announced>>

-----------------------------------------------------------------------------
ConnectionInit ==
    /\ QuicInit
    /\ connection \in Connection
    /\ announced = [pair \in Pair |-> {}]

DatagramArrives ==
    /\ \E p \in Datagram : Begin(p)
    /\ connection' \in Connection
    /\ UNCHANGED announced

LongHeaderRead ==
    LET scid == connection[datagram.src] IN
    /\ \E total_size \in 1 .. MaxPayload : LearnLongHeader(scid, total_size)
    /\ announced' =
         IF scid = <<>> THEN announced
         ELSE [announced EXCEPT
                 ![<<datagram.src, datagram.dst>>] = {connection}]
    /\ UNCHANGED connection

ShortHeaderRead ==
    /\ InCall
    /\ \E n \in 0 .. MaxPayload : \E bytes \in [1 .. n -> Symbol] :
          /\ StartsWith(bytes, connection[datagram.dst])
          /\ EvaluateShortHeader(bytes)
    /\ UNCHANGED <<connection, announced>>

\* Version negotiation, which the parser refuses (line 174), padding behind
\* the coalesced packets, and other UDP traffic.
OtherRead ==
    /\ MalformedLongHeader \/ EndOfDatagram \/ NotQuic
    /\ UNCHANGED <<connection, announced>>

ConnectionNext ==
    DatagramArrives \/ LongHeaderRead \/ ShortHeaderRead \/ OtherRead

ConnectionSpec == ConnectionInit /\ [][ConnectionNext]_connectionVars

-----------------------------------------------------------------------------
(* Properties.                                                             *)

\* The call that ends in this step shortens its datagram.
Shortens ==
    /\ InCall /\ ~InCall'
    /\ result'.disposition = "ShortHeaderMatched"
    /\ result'.kept < datagram.size

DcidOf(c) == c[datagram.dst]

\* Unless the permissive option is on, what is kept of a shortened datagram
\* covers its long headers, whole, and the header byte and connection ID of the
\* short-header packet, whichever connection the ID it was matched with was
\* learned from (lines 305-346).
HeadersKept ==
    [][Shortens /\ RequireDcidMatch =>
         result'.kept >= scan.offset + 1 + Len(DcidOf(connection))
      ]_connectionVars

\* Unless the permissive option is on, a short header with an ID is shortened
\* only if the last ID its receiver announced to its sender is that ID; an ID
\* another connection left behind does not do (lines 305-336).
OnlyAnnouncedShortened ==
    [][(Shortens /\ RequireDcidMatch /\ DcidOf(connection) # <<>>) =>
         \E c \in announced[<<datagram.dst, datagram.src>>] :
            DcidOf(c) = DcidOf(connection)]_connectionVars

\* Once an end's long header was seen, short headers sent to it on that
\* connection match until it announces another ID, whatever the other end or
\* other datagrams announced meanwhile (lines 281-289, 305-346).
AnnouncedMatches ==
    [][(/\ InCall /\ ~InCall'
        /\ \E n \in 0 .. MaxPayload : \E bytes \in [1 .. n -> Symbol] :
              /\ StartsWith(bytes, DcidOf(connection))
              /\ EvaluateShortHeader(bytes)
        /\ connection \in announced[<<datagram.dst, datagram.src>>])
       => result'.disposition = "ShortHeaderMatched"]_connectionVars
=============================================================================
