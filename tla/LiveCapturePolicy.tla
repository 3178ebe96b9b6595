-------------------------- MODULE LiveCapturePolicy --------------------------
(***************************************************************************)
(* LiveCapturePolicy::Evaluate (src/policy/LiveCapturePolicy.cpp) and what *)
(* both its callers do with the decision: write the record and add up the  *)
(* statistics.  The configured limits, a constrictor's verdict and the     *)
(* minimum savings threshold meet here.                                    *)
(*                                                                         *)
(* What a packet's bytes are is left out: a packet is its lengths and what *)
(* the decoder says, and a constrictor answers anything its result type    *)
(* allows.  Both callers pass as many bytes as captured_len says, so       *)
(* safe_captured_len is captured.                                          *)
(***************************************************************************)
EXTENDS Integers

CONSTANTS
    Config,        \* the configurations a program may run with
    MaxLength,     \* bound on the length of a packet
    PacketBound    \* bound on the packets of one run

\* What ConfigLoader lets through (lines 452-460).
ConfigType == [default_snaplen : Nat \ {0}, max_capture_len : Nat \ {0},
               min_saved : Nat, tls_enabled : BOOLEAN, quic_enabled : BOOLEAN]
ASSUME ConfigAssumption == Config \subseteq ConfigType
ASSUME PolicyBoundAssumption == MaxLength \in Nat /\ PacketBound \in Nat

VARIABLES
    config,     \* config_
    packet,     \* the packet in hand, or NoPacket
    decision,   \* what Evaluate returned for it, or NoDecision
    stats       \* the caller's CaptureStats

policyVars == <<config, packet, decision, stats>>

NoPacket == <<>>
NoDecision == <<>>

\* What the decoder finds: a failure, a frame without IP, IP without ports it
\* can read, and TCP or UDP, on a port configured for TLS or QUIC or not.
Kind == {"failed", "non_ip", "ip", "tcp", "tls_port", "udp", "quic_port"}

\* offset and payload: transport_payload_offset and _length, inside the bytes
\* captured.  control: a TCP segment with SYN or RST.
Packet ==
    {p \in [captured : 0 .. MaxLength, original : 0 .. MaxLength, kind : Kind,
            offset : 0 .. MaxLength, payload : 0 .. MaxLength,
            control : BOOLEAN] :
        p.offset + p.payload <= p.captured}

Reason == {"Default", "ParseError", "NonIp", "Tcp", "Udp", "TlsCandidate",
           "TlsApplicationDataConstricted", "TlsMalformedFallback",
           "TlsNoRecordFallback", "QuicCandidate", "QuicLongHeader",
           "QuicShortHeaderMatched", "QuicShortHeaderConstricted",
           "QuicShortHeaderUnknownCidFallback",
           "QuicShortHeaderDcidMismatchFallback", "QuicMalformedFallback"}
Decision == [output_len : 0 .. MaxLength, original_len : 0 .. MaxLength,
             reason : Reason]
Constricted == {"TlsApplicationDataConstricted", "QuicShortHeaderConstricted"}

\* constricted: tls_appdata_constricted and quic_short_constricted together.
Stats == [packets : Nat, bytes_input : Nat, bytes_output : Nat,
          constricted : Nat]

SmallerOf(x, y) == IF x <= y THEN x ELSE y
LargerOf(x, y) == IF x >= y THEN x ELSE y

-----------------------------------------------------------------------------
(* The decision.                                                           *)

Malformed(p) == p.original < p.captured

\* output_len before any constrictor is asked: the packet under both limits.
Baseline(c, p) ==
    SmallerOf(SmallerOf(p.captured, p.original),
              SmallerOf(c.default_snaplen, c.max_capture_len))

\* ApplyMinimumSavingsThreshold.
Threshold(baseline, candidate, min_saved) ==
    IF candidate >= baseline THEN baseline
    ELSE IF baseline - candidate < min_saved THEN baseline ELSE candidate

ClassOf(c, p) ==
    IF Malformed(p) \/ p.kind = "failed" THEN "ParseError"
    ELSE CASE p.kind = "non_ip" -> "NonIp"
           [] p.kind = "ip" -> "Default"
           [] p.kind = "tcp" -> "Tcp"
           [] p.kind = "tls_port" ->
                IF c.tls_enabled THEN "TlsCandidate" ELSE "Tcp"
           [] p.kind = "udp" -> "Udp"
           [] p.kind = "quic_port" ->
                IF c.quic_enabled THEN "QuicCandidate" ELSE "Udp"

AsksTls(c, p) ==
    ClassOf(c, p) = "TlsCandidate" /\ (p.payload > 0 \/ p.control)
AsksQuic(c, p) == ClassOf(c, p) = "QuicCandidate" /\ p.payload > 0

\* What a constrictor may answer: a disposition, and how much of the payload to
\* keep if it shortens (TlsConstrictor and QuicConstrictor).
Disposition == {"NoApplicationData", "NoRecord", "Malformed",
                "UncertainFallback", "AppDataPrefix", "NotApplicable",
                "LongHeader", "ShortHeaderMatched", "UnknownCidFallback",
                "DcidMismatchFallback", "MalformedFallback"}
VerdictOn(p) == [disposition : Disposition, kept : 0 .. p.payload]

\* Mutant: the constrictor's length passes the limits by.
CandidateUnclamped(c, p, v) ==
    Threshold(p.captured, p.offset + v.kept, c.min_saved)

\* final_output_len when a constrictor shortens.
Candidate(c, p, v) ==
    Threshold(Baseline(c, p), SmallerOf(Baseline(c, p), p.offset + v.kept),
              c.min_saved)

\* Mutant: a verdict to shorten is reported as done.
TlsReasonHasty(c, p, v) ==
    CASE v.disposition = "AppDataPrefix" -> "TlsApplicationDataConstricted"
      [] v.disposition \in {"Malformed", "UncertainFallback"} ->
           "TlsMalformedFallback"
      [] v.disposition = "NoRecord" -> "TlsNoRecordFallback"
      [] OTHER -> "TlsCandidate"

TlsReason(c, p, v) ==
    CASE /\ v.disposition = "AppDataPrefix"
         /\ Candidate(c, p, v) < Baseline(c, p) ->
           "TlsApplicationDataConstricted"
      [] v.disposition \in {"Malformed", "UncertainFallback"} ->
           "TlsMalformedFallback"
      [] v.disposition = "NoRecord" -> "TlsNoRecordFallback"
      [] OTHER -> "TlsCandidate"

QuicReason(c, p, v) ==
    CASE v.disposition = "LongHeader" -> "QuicLongHeader"
      [] v.disposition = "ShortHeaderMatched" ->
           IF Candidate(c, p, v) < Baseline(c, p)
           THEN "QuicShortHeaderConstricted" ELSE "QuicShortHeaderMatched"
      [] v.disposition = "UnknownCidFallback" ->
           "QuicShortHeaderUnknownCidFallback"
      [] v.disposition = "DcidMismatchFallback" ->
           "QuicShortHeaderDcidMismatchFallback"
      [] v.disposition = "MalformedFallback" -> "QuicMalformedFallback"
      [] OTHER -> "QuicCandidate"

\* The constrictor that is asked has a say in the length and the reason.
Decide(c, p, v) ==
    [output_len |->
        IF \/ AsksTls(c, p) /\ v.disposition = "AppDataPrefix"
           \/ AsksQuic(c, p) /\ v.disposition = "ShortHeaderMatched"
        THEN Candidate(c, p, v)
        ELSE Baseline(c, p),
     original_len |-> LargerOf(p.original, Baseline(c, p)),
     reason |-> IF AsksTls(c, p) THEN TlsReason(c, p, v)
                ELSE IF AsksQuic(c, p) THEN QuicReason(c, p, v)
                ELSE ClassOf(c, p)]

-----------------------------------------------------------------------------
PolicyInit ==
    /\ config \in Config
    /\ packet = NoPacket
    /\ decision = NoDecision
    /\ stats = [packets |-> 0, bytes_input |-> 0, bytes_output |-> 0,
                constricted |-> 0]

PacketArrives ==
    /\ packet = NoPacket
    /\ stats.packets < PacketBound
    /\ packet' \in Packet
    /\ UNCHANGED <<config, decision, stats>>

Evaluate ==
    /\ packet # NoPacket /\ decision = NoDecision
    /\ \E v \in VerdictOn(packet) : decision' = Decide(config, packet, v)
    /\ UNCHANGED <<config, packet, stats>>

\* The record the writer makes of a packet, if it does not throw.
InclLen == decision.output_len
OrigLen == LargerOf(packet.original, InclLen)

\* Mutant: the writer refuses a packet that is kept whole.
WritableShortened == InclLen < packet.captured

\* WritePacket does not throw.
Writable == InclLen <= packet.captured

\* Mutant: a break is missing in the switch.
CountOfFallsThrough(reason) ==
    IF reason \in Constricted \cup {"QuicShortHeaderMatched"} THEN 1 ELSE 0

\* AccumulateDecisionStats, for the counters of constricted packets.
CountOf(reason) == IF reason \in Constricted THEN 1 ELSE 0

\* WritePacket succeeds, and the caller counts.
WriteAndCount ==
    /\ decision # NoDecision
    /\ Writable
    /\ stats' = [packets |-> stats.packets + 1,
                 bytes_input |-> stats.bytes_input + packet.captured,
                 bytes_output |-> stats.bytes_output + InclLen,
                 constricted |-> stats.constricted + CountOf(decision.reason)]
    /\ packet' = NoPacket
    /\ decision' = NoDecision
    /\ UNCHANGED config

PolicyNext == PacketArrives \/ Evaluate \/ WriteAndCount

PolicySpec == PolicyInit /\ [][PolicyNext]_policyVars

-----------------------------------------------------------------------------
(* Properties.                                                             *)

PolicyTypeOK ==
    /\ config \in Config
    /\ packet \in Packet \cup {NoPacket}
    /\ decision \in Decision \cup {NoDecision}
    /\ decision # NoDecision => packet # NoPacket
    /\ stats \in Stats

\* Every decision makes a record the writer accepts and the file format allows:
\* no more than was captured, no more than either limit (the smaller is the
\* snaplen in the header of a live capture's file), no longer than the packet
\* it came from (lines 81-93; PcapWriter.cpp:51-63; NpcapCapture.cpp:139-140).
RecordSane ==
    decision # NoDecision =>
        /\ InclLen <= packet.captured
        /\ InclLen <= SmallerOf(config.default_snaplen, config.max_capture_len)
        /\ InclLen <= OrigLen /\ OrigLen = decision.original_len

\* The reason tells whether a constrictor cut the packet below the configured
\* limits; if it did it saved at least min_saved_bytes_per_packet, and it kept
\* every byte before the payload (lines 21-35, 122-172).
ReasonTellsCut ==
    decision # NoDecision =>
        /\ decision.reason \in Constricted
             <=> InclLen < Baseline(config, packet)
        /\ decision.reason \in Constricted =>
             /\ Baseline(config, packet) - InclLen >= config.min_saved
             /\ InclLen >= packet.offset

\* bytes_saved, which the callers compute from the two totals by subtraction of
\* unsigned numbers, is not negative and covers the minimum for each packet
\* counted as constricted (OfflinePacketFeed.cpp:85-101).
SavingsAddUp ==
    stats.bytes_input - stats.bytes_output >=
        stats.constricted * LargerOf(config.min_saved, 1)
=============================================================================
