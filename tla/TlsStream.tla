------------------------------ MODULE TlsStream ------------------------------
(***************************************************************************)
(* TlsConstrictor against a real TLS connection.  Each direction carries a *)
(* fixed stream of records; the capture sees any segments of it, in any    *)
(* order: lost, repeated, overlapping and reordered segments are all       *)
(* choices of SegmentArrives.  TlsConstrictor knows only sequence numbers  *)
(* and headers; the properties compare its verdicts with the stream.       *)
(*                                                                         *)
(* Bytes inside a record are taken never to look like a record header:     *)
(* what a lookalike does to the tracker is in the open module, where a     *)
(* header may read as anything.                                            *)
(***************************************************************************)
EXTENDS TlsConstrictor

CONSTANTS
    ConnectionSet   \* the connections the endpoints may open, one after the
                    \* other: each gives every direction its record stream
                    \* and its initial sequence number

\* A record of a stream: its content type, its first byte and its size.
RecordSet == {r \in [type : ContentType, at : Nat, total : Nat] :
                 r.total - HeaderSize \in RecordLength}
Side == [stream : SUBSET RecordSet, isn : Seq32]

End_(r) == r.at + r.total
EndsAt(s, n) == \A r \in s : End_(r) <= n
StreamLength(s) == CHOOSE n \in {0} \cup {End_(r) : r \in s} : EndsAt(s, n)
Covers(r, i) == r.at <= i /\ i < End_(r)
Tiles(s) == \A i \in 0 .. StreamLength(s) - 1 :
               \E r \in s : Covers(r, i) /\ \A q \in s \ {r} : ~Covers(q, i)

\* A stream ends, is shorter than the sequence space, so that a position has
\* one sequence number, and is cut into records without gaps.
WellFormed(side) ==
    /\ \E n \in {0} \cup {End_(r) : r \in side.stream} : EndsAt(side.stream, n)
    /\ StreamLength(side.stream) + 1 < SeqSpace
    /\ Tiles(side.stream)

ASSUME ConnectionAssumption ==
    /\ ConnectionSet \subseteq [DirectionKey -> Side]
    /\ \A c \in ConnectionSet : \A k \in DirectionKey : WellFormed(c[k])

VARIABLES
    connection,   \* for each direction, its side of the connection now open
                  \* on its 4-tuple
    from          \* the stream position of the packet Evaluate works on

streamVars == <<vars, connection, from>>

Stream(k) == connection[k].stream

\* The SYN takes one sequence number, so byte 0 follows it.
SeqOf(k, position) == (connection[k].isn + 1 + position) % SeqSpace

-----------------------------------------------------------------------------
StreamInit == Init /\ connection \in ConnectionSet /\ from = 0

\* Any run of bytes of any direction reaches the capture.
SegmentArrives ==
    \E k \in DirectionKey :
    \E f \in 0 .. StreamLength(Stream(k)) :
    \E n \in 0 .. SmallerOf(MaxPayload, StreamLength(Stream(k)) - f) :
        /\ Begin([key |-> k, tcp_seq |-> SeqOf(k, f), size |-> n,
                  syn_or_rst |-> FALSE])
        /\ from' = f
        /\ UNCHANGED connection

\* A SYN without data: of this connection again, or of the next one between
\* the same endpoints.
SynArrives ==
    \E k \in DirectionKey, c \in ConnectionSet :
        /\ Begin([key |-> k, tcp_seq |-> c[k].isn, size |-> 0,
                  syn_or_rst |-> TRUE])
        /\ connection' = [j \in DirectionKey |->
                            IF j \in Connection(k) THEN c[j] ELSE connection[j]]
        /\ from' = 0

RstArrives ==
    \E k \in DirectionKey :
        /\ Begin([key |-> k, tcp_seq |-> SeqOf(k, 0), size |-> 0,
                  syn_or_rst |-> TRUE])
        /\ UNCHANGED connection
        /\ from' = 0

\* What the stream holds at the scan position: a header if a record starts
\* there and the packet holds all of its header.
TrueHeader ==
    LET starts == {r \in Stream(packet.key) :
                     /\ r.at = from + scan.payload_offset
                     /\ scan.payload_offset + HeaderSize <= packet.size}
    IN  IF starts = {} THEN NotTls
        ELSE LET r == CHOOSE r \in starts : TRUE
             IN  [type |-> r.type, length |-> r.total - HeaderSize]

EvaluateReads ==
    /\ InLoop
    /\ ReadRecord(TrueHeader)
    /\ UNCHANGED <<connection, from>>

EvaluateEnds ==
    /\ End
    /\ from' = 0
    /\ UNCHANGED connection

StreamNext ==
    SegmentArrives \/ SynArrives \/ RstArrives \/ EvaluateReads \/ EvaluateEnds

StreamSpec == StreamInit /\ [][StreamNext]_streamVars

\* Evaluate runs on the capture thread and never blocks, so a call that has
\* begun goes on; nothing makes the next segment arrive.
StreamFairSpec ==
    StreamSpec /\ WF_streamVars(EvaluateReads) /\ WF_streamVars(EvaluateEnds)

-----------------------------------------------------------------------------
(* Properties.                                                             *)

\* The open record of a direction is a record of its stream: the position of
\* expected_tcp_seq lies inside its body, the remaining bytes reach its end,
\* and it is constrictible if it is Application Data.
Aligned(k, s) ==
    s.has_active_record =>
        \E r \in Stream(k) :
            LET at == End_(r) - s.active_record_remaining_bytes IN
            /\ r.at + HeaderSize <= at /\ at < End_(r)
            /\ s.expected_tcp_seq = SeqOf(k, at)
            /\ s.active_record_constrictible <=> r.type = "app_data"

\* Between calls, every open record is aligned with its stream.  A wrong sum
\* at lines 166, 231 or 249, or a clear missed at 146, breaks it several
\* segments later.
ActiveRecordAligned ==
    pc = "idle" => \A k \in DOMAIN directions : Aligned(k, directions[k])

\* The packet of the ending call holds bytes of record r.
PacketEnd == from + packet.size
InPacket(r) == r.at < PacketEnd /\ from < End_(r)

\* A cut never reaches into the start of an Application Data record: each one
\* that starts in the packet keeps its first KeepRecord bytes, or all that the
\* packet holds of it, and so does everything before it (lines 220-246).
RecordStartsKept ==
    [][Cuts => \A r \in Stream(packet.key) :
         (r.type = "app_data" /\ InPacket(r) /\ from <= r.at) =>
            result'.kept >= (r.at - from) +
               ClampedKeepSize(KeepRecord,
                               SmallerOf(r.total, PacketEnd - r.at))]_streamVars

\* final_only: a packet that begins inside an Application Data record is cut
\* only if it ends where that record ends, and then to KeepContinuation bytes
\* (lines 159-186, 251-271).
FinalOnly ==
    [][Cuts => \A r \in Stream(packet.key) :
         (r.type = "app_data" /\ InPacket(r) /\ r.at < from) =>
            /\ PacketEnd = End_(r)
            /\ result'.kept = ClampedKeepSize(KeepContinuation, packet.size)]_streamVars

\* A packet without a byte of Application Data is never cut, whatever was
\* lost, repeated or reordered before it (tests/TlsConstrictorTests.cpp:82).
ControlOnlyKept ==
    [][Cuts => \E r \in Stream(packet.key) :
                  r.type = "app_data" /\ InPacket(r)]_streamVars

\* A direction of a confirmed connection recovers by itself: whatever came
\* before, a packet that starts with an Application Data record and holds
\* nothing else is cut to KeepRecord bytes (lines 146-150, 203-236, 251-258).
Returns == pc = "scan" /\ pc' = "idle"
RecordStartConstricted ==
    [][(Returns /\ scan.confirmed_tls) =>
         \A r \in Stream(packet.key) :
            (/\ r.type = "app_data" /\ r.at = from /\ PacketEnd <= End_(r)
             /\ HeaderSize <= packet.size /\ KeepRecord < packet.size) =>
                result' = [disposition |-> "AppDataPrefix",
                           kept |-> KeepRecord]]_streamVars

\* Every call returns: the record loop ends on every segment, empty records
\* included (lines 188-247).
EvaluateReturns == pc = "scan" ~> pc = "idle"

\* README.md:34 calls the policy "TLS Application Data constriction": what a
\* cut removes would then be Application Data.
OnlyAppDataRemoved ==
    [][Cuts => \A i \in from + result'.kept .. PacketEnd - 1 :
                  \E r \in Stream(packet.key) :
                     r.type = "app_data" /\ Covers(r, i)]_streamVars
=============================================================================
