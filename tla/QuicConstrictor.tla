--------------------------- MODULE QuicConstrictor ---------------------------
(***************************************************************************)
(* QuicConstrictor::Evaluate (src/policy/QuicConstrictor.cpp): learns the  *)
(* source connection IDs of long headers and decides whether the tail of a *)
(* short-header packet addressed to a learned ID may be left out.          *)
(*                                                                         *)
(* The module is open: any datagram between any endpoints, whose bytes may *)
(* read as any header.  One step of a call reads one coalesced packet      *)
(* (lines 272-290) or the short header behind them.  The guards of lines   *)
(* 252-268 are the caller's (LiveCapturePolicy.cpp:108-112, 146-149): it   *)
(* passes non-empty UDP payloads of a configured port, inside the packet.  *)
(***************************************************************************)
EXTENDS Integers, Sequences

CONSTANTS
    Pair,              \* <<source, destination>>: the [address, port] pairs
                       \* that exchange datagrams
    ConnectionId,      \* the connection IDs headers carry, as byte sequences
    Symbol,            \* the values of a byte
    MaxPayload,        \* bound on the payload of one datagram
    KeepPacket,        \* config.short_header_keep_packet_bytes
    RequireDcidMatch,  \* config.require_dcid_match
    AllowUnknownDcid   \* config.allow_short_header_without_known_dcid

Endpoint == [address : Nat, port : Nat]
ASSUME PairAssumption ==
    /\ Pair \subseteq Endpoint \X Endpoint
    /\ \A pair \in Pair : <<pair[2], pair[1]>> \in Pair
ASSUME ConnectionIdAssumption == ConnectionId \subseteq Seq(Symbol)
ASSUME QuicBoundsAssumption == MaxPayload \in Nat /\ KeepPacket \in Nat
ASSUME OptionAssumption ==
    RequireDcidMatch \in BOOLEAN /\ AllowUnknownDcid \in BOOLEAN

VARIABLES
    flow_states,   \* flow_states_: the IDs both ends of a flow announced
    datagram,      \* Evaluate's argument; NoDatagram between calls
    scan,          \* Evaluate's locals offset and saw_long_header
    result         \* the QuicConstrictResult last returned

vars == <<flow_states, datagram, scan, result>>

NoDatagram == <<>>
Datagram == {[src |-> pair[1], dst |-> pair[2], size |-> n] :
                pair \in Pair, n \in 1 .. MaxPayload}
InCall == datagram # NoDatagram

\* endpoint_a_scid and endpoint_b_scid; <<>> is an ID that is not known.
FlowState == [a : ConnectionId \cup {<<>>}, b : ConnectionId \cup {<<>>}]

Disposition == {"NotApplicable", "LongHeader", "ShortHeaderMatched",
                "UnknownCidFallback", "DcidMismatchFallback",
                "MalformedFallback"}

\* kept: how much of the payload output_len lets through.  short (a ghost): what
\* followed the first byte of a short header that was shortened.
Result == [disposition : Disposition, kept : Nat, short : Seq(Symbol)]

NoResult == [disposition |-> "NotApplicable", kept |-> 0, short |-> <<>>]
FirstScan == [offset |-> 0, saw_long_header |-> FALSE]

SmallerOf(x, y) == IF x <= y THEN x ELSE y
LargerOf(x, y) == IF x >= y THEN x ELSE y

-----------------------------------------------------------------------------
(* Flows.                                                                  *)

\* CompareEndpoints(x, y) <= 0.  The addresses of one packet have one length.
Precedes(x, y) ==
    x.address < y.address \/ (x.address = y.address /\ x.port <= y.port)

\* Mutant: the flow is what the packet says.
FlowAsSent(p) == <<p.src, p.dst>>

\* MakeCanonicalFlow: one flow for both directions, and the direction.
AToB(p) == Precedes(p.src, p.dst)
Flow(p) == IF AToB(p) THEN <<p.src, p.dst>> ELSE <<p.dst, p.src>>

StateOf(flow) == IF flow \in DOMAIN flow_states THEN flow_states[flow]
                                                ELSE [a |-> <<>>, b |-> <<>>]

\* Mutant: what the sender announced itself.
ExpectedOwn(p) == IF AToB(p) THEN StateOf(Flow(p)).a ELSE StateOf(Flow(p)).b

\* The connection ID the receiver announced.
ExpectedDcid(p) == IF AToB(p) THEN StateOf(Flow(p)).b ELSE StateOf(Flow(p)).a

\* Mutant: a zero-length ID replaces what was known.
WithScidAlways(s, p, scid) ==
    IF AToB(p) THEN [s EXCEPT !.a = scid] ELSE [s EXCEPT !.b = scid]

\* A zero-length ID teaches nothing.
WithScid(s, p, scid) ==
    IF scid = <<>> THEN s
    ELSE IF AToB(p) THEN [s EXCEPT !.a = scid] ELSE [s EXCEPT !.b = scid]

-----------------------------------------------------------------------------
QuicInit ==
    /\ flow_states = [flow \in {} |-> [a |-> <<>>, b |-> <<>>]]
    /\ datagram = NoDatagram
    /\ scan = FirstScan
    /\ result = NoResult

Begin(p) ==
    /\ ~InCall
    /\ datagram' = p
    /\ scan' = FirstScan
    /\ result' = NoResult
    /\ UNCHANGED flow_states

Remaining == datagram.size - scan.offset
MoreToRead == InCall /\ Remaining > 0

\* The long-header packet at the offset fits in the payload and holds its sender's
\* ID.
ParseLongHeader(scid, total_size) ==
    Len(scid) < total_size /\ total_size <= Remaining

\* Mutant: the entry forgets what the other side announced.
LearnLongHeaderFresh(scid, total_size) ==
    /\ MoreToRead
    /\ ParseLongHeader(scid, total_size)
    /\ flow_states' =
         [flow \in DOMAIN flow_states \cup {Flow(datagram)} |->
            IF flow = Flow(datagram)
            THEN WithScid([a |-> <<>>, b |-> <<>>], datagram, scid)
            ELSE flow_states[flow]]
    /\ scan' = [offset |-> scan.offset + total_size, saw_long_header |-> TRUE]
    /\ UNCHANGED <<datagram, result>>

\* A well-formed long header: its ID is learned, even if what follows it turns
\* out to be malformed.
LearnLongHeader(scid, total_size) ==
    /\ MoreToRead
    /\ ParseLongHeader(scid, total_size)
    /\ flow_states' =
         [flow \in DOMAIN flow_states \cup {Flow(datagram)} |->
            IF flow = Flow(datagram)
            THEN WithScid(StateOf(flow), datagram, scid)
            ELSE flow_states[flow]]
    /\ scan' = [offset |-> scan.offset + total_size, saw_long_header |-> TRUE]
    /\ UNCHANGED <<datagram, result>>

Return(disposition, kept, short) ==
    /\ datagram' = NoDatagram
    /\ result' = [disposition |-> disposition, kept |-> kept, short |-> short]
    /\ scan' = FirstScan
    /\ UNCHANGED flow_states

KeepWhole(disposition) == Return(disposition, datagram.size, <<>>)

MalformedLongHeader == MoreToRead /\ KeepWhole("MalformedFallback")

\* Long headers only, to the last byte.
EndOfDatagram == InCall /\ Remaining = 0 /\ KeepWhole("LongHeader")

\* Neither a long nor a short header.
NotQuic ==
    /\ MoreToRead
    /\ KeepWhole(IF scan.saw_long_header THEN "MalformedFallback"
                                         ELSE "NotApplicable")

\* The rest of the datagram is a short header: a first byte, then bytes.
ShortHeader(bytes) == MoreToRead /\ Len(bytes) = Remaining - 1

\* Mutant: the kept prefix is counted from the payload's start.
ShortenFromStart(kept, bytes) ==
    Return("ShortHeaderMatched", SmallerOf(Remaining, kept), bytes)

\* Keeps the long headers and kept bytes of the short-header packet.
Shorten(kept, bytes) ==
    Return("ShortHeaderMatched", scan.offset + SmallerOf(Remaining, kept), bytes)

ShortHeaderUnknown(bytes) ==
    /\ ShortHeader(bytes)
    /\ ExpectedDcid(datagram) = <<>>
    /\ IF RequireDcidMatch \/ ~AllowUnknownDcid
       THEN KeepWhole("UnknownCidFallback")
       ELSE Shorten(LargerOf(KeepPacket, 1), bytes)

Matches(id, bytes) == \A i \in 1 .. Len(id) : id[i] = bytes[i]

ShortHeaderTooShort(bytes) ==
    /\ ShortHeader(bytes)
    /\ ExpectedDcid(datagram) # <<>>
    /\ Len(bytes) < Len(ExpectedDcid(datagram))
    /\ KeepWhole("MalformedFallback")

ShortHeaderMismatch(bytes) ==
    /\ ShortHeader(bytes)
    /\ ExpectedDcid(datagram) # <<>>
    /\ Len(bytes) >= Len(ExpectedDcid(datagram))
    /\ ~Matches(ExpectedDcid(datagram), bytes)
    /\ KeepWhole("DcidMismatchFallback")

ShortHeaderMatch(bytes) ==
    /\ ShortHeader(bytes)
    /\ ExpectedDcid(datagram) # <<>>
    /\ Len(bytes) >= Len(ExpectedDcid(datagram))
    /\ Matches(ExpectedDcid(datagram), bytes)
    /\ Shorten(LargerOf(KeepPacket, 1 + Len(ExpectedDcid(datagram))), bytes)

EvaluateShortHeader(bytes) ==
    ShortHeaderUnknown(bytes) \/ ShortHeaderTooShort(bytes)
    \/ ShortHeaderMismatch(bytes) \/ ShortHeaderMatch(bytes)

QuicNext ==
    \/ \E p \in Datagram : Begin(p)
    \/ \E scid \in ConnectionId, total_size \in 1 .. MaxPayload :
          LearnLongHeader(scid, total_size)
    \/ MalformedLongHeader
    \/ EndOfDatagram
    \/ NotQuic
    \/ \E n \in 0 .. MaxPayload : \E bytes \in [1 .. n -> Symbol] :
          EvaluateShortHeader(bytes)

QuicSpec == QuicInit /\ [][QuicNext]_vars

-----------------------------------------------------------------------------
(* Properties.                                                             *)

\* The variables have their types, every flow is filed under its smaller
\* endpoint first, and a call never reads past its payload.
QuicTypeOK ==
    /\ DOMAIN flow_states \subseteq Pair
    /\ \A flow \in DOMAIN flow_states :
          Precedes(flow[1], flow[2]) /\ flow_states[flow] \in FlowState
    /\ scan \in [offset : 0 .. MaxPayload, saw_long_header : BOOLEAN]
    /\ InCall => datagram \in Datagram /\ scan.offset <= datagram.size
    /\ result \in Result

\* What src last announced to dst: one half of their flow.  A packet from an
\* endpoint to itself announces into the half that is never looked up.
Learned(src, dst) ==
    IF src # dst /\ Precedes(src, dst) THEN StateOf(<<src, dst>>).a
                                       ELSE StateOf(<<dst, src>>).b

\* The constrictor keeps what QuicContract promises: the two halves of a
\* canonical flow are the IDs its two ends announced to each other, and a
\* shortened datagram keeps its long headers and a matched ID (lines 259-348).
Contract == INSTANCE QuicContract WITH
    Permissive <- AllowUnknownDcid /\ ~RequireDcidMatch,
    learned <- [pair \in Pair |-> Learned(pair[1], pair[2])],
    verdict <- [cut |-> result.disposition = "ShortHeaderMatched",
                kept |-> result.kept, short |-> result.short]
ImplementsContract == Contract!ContractSpec
=============================================================================
