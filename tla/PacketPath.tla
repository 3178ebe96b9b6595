----------------------------- MODULE PacketPath -----------------------------
(***************************************************************************)
(* The path of a frame through LiveCapturePolicy::Evaluate: PacketDecode   *)
(* first, then the decision and the record of LiveCapturePolicy.  The      *)
(* decoder's result takes the place of the packets LiveCapturePolicy       *)
(* assumes.                                                                *)
(***************************************************************************)
EXTENDS PacketDecode, LiveCapturePolicy

CONSTANT OriginalLength    \* the lengths frames may have had on the wire

ASSUME OriginalAssumption == OriginalLength \subseteq 0 .. MaxLength
ASSUME CapturedAssumption == FrameLength \subseteq 0 .. MaxLength

pathVars == <<decodeVars, policyVars>>

PathInit ==
    /\ PolicyInit
    /\ frame = NoFrame /\ at = "idle"
    /\ decoded = NoResult /\ read_end = 0

\* A frame is in hand, as offered by pcap_next_ex or PcapReader.
FrameArrives ==
    /\ at = "idle" /\ packet = NoPacket
    /\ stats.packets < PacketBound
    /\ frame' \in Frame /\ at' = "link"
    /\ decoded' = NoResult /\ read_end' = 0
    /\ UNCHANGED policyVars

Decode == DecodeStep /\ UNCHANGED policyVars

\* What the policy makes of a result; whether a port is configured and which
\* flags are set is open.
KindsOf(result) ==
    IF result.failed THEN {"failed"}
    ELSE IF result.success /\ result.ip_version = "None" THEN {"non_ip"}
    ELSE CASE result.transport = "tcp" -> {"tcp", "tls_port"}
           [] result.transport = "udp" -> {"udp", "quic_port"}
           [] OTHER -> {"ip"}

HandOver ==
    /\ at = "done" /\ at' = "idle"
    /\ \E kind \in KindsOf(decoded), original \in OriginalLength,
          control \in BOOLEAN :
          packet' = [captured |-> frame.captured, original |-> original,
                     kind |-> kind, offset |-> decoded.payload_offset,
                     payload |-> decoded.payload_length, control |-> control]
    /\ UNCHANGED <<frame, decoded, read_end, config, decision, stats>>

PathNext ==
    \/ FrameArrives \/ Decode \/ HandOver
    \/ Evaluate /\ UNCHANGED decodeVars
    \/ WriteAndCount /\ UNCHANGED decodeVars

PathSpec == PathInit /\ [][PathNext]_pathVars

\* The program runs on once it has a frame; a frame need never come.
FairPathSpec == PathSpec /\ WF_pathVars(PathNext /\ ~FrameArrives)

-----------------------------------------------------------------------------
(* Properties.                                                             *)

\* Only a whole datagram is shortened: no fragment, and nothing that the
\* capture had already cut, since its end decides where records and packets
\* inside it end (PacketDecode.cpp:176-199, 233-237; LiveCapturePolicy.cpp:
\* 101-103).
CutOnlyWhole ==
    decision # NoDecision /\ decision.reason \in Constricted =>
        /\ ~decoded.failed /\ decoded.fragment = "none"
        /\ decoded.datagram_end <= packet.captured

\* Every frame that comes is decided and recorded, however many tags it has and
\* whatever its fields say: the decoder's loop ends and the writer accepts the
\* decision (PacketDecode.cpp:377-388, PcapWriter.cpp:51-55).
EveryFrameRecorded ==
    \A n \in 0 .. PacketBound :
        (at = "link" /\ stats.packets = n) ~> stats.packets = n + 1
=============================================================================
