---------------------------- MODULE PolicyProofs ----------------------------
(***************************************************************************)
(* Proofs about LiveCapturePolicy and about PacketPath, which feeds it.    *)
(*                                                                         *)
(* The decisions of LiveCapturePolicy are sound for every configuration    *)
(* and every packet, and the savings add up over any number of them: the   *)
(* invariant says that the decision in hand is Decide's answer for the     *)
(* packet in hand; the rest is arithmetic on what Decide may answer.       *)
(*                                                                         *)
(* Whatever lengths frames have and whatever numbers their fields hold,    *)
(* the decoder stays inside the frame and what it hands over is one of the *)
(* packets LiveCapturePolicy assumes: so all that is proved of the policy  *)
(* holds behind the decoder.                                               *)
(***************************************************************************)
EXTENDS PacketPath, TLAPS

-----------------------------------------------------------------------------
(* The policy.                                                             *)

Decided ==
    decision # NoDecision =>
        \E v \in VerdictOn(packet) : decision = Decide(config, packet, v)

PolicyInv == PolicyTypeOK /\ Decided /\ SavingsAddUp

-----------------------------------------------------------------------------
(* What Decide may answer.                                                 *)

\* The packet under both limits is no longer than any of them.
LEMMA BaselineBounds ==
    ASSUME NEW c \in Config, NEW p \in Packet
    PROVE  /\ Baseline(c, p) \in 0 .. MaxLength
           /\ Baseline(c, p) <= p.captured /\ Baseline(c, p) <= p.original
           /\ Baseline(c, p) <= SmallerOf(c.default_snaplen, c.max_capture_len)
BY ConfigAssumption, PolicyBoundAssumption
   DEF ConfigType, Packet, Baseline, SmallerOf

\* The candidate is the baseline, or short of it by the minimum to be saved,
\* and then it covers what precedes the payload.
LEMMA CandidateBounds ==
    ASSUME NEW c \in Config, NEW p \in Packet, NEW v \in VerdictOn(p)
    PROVE  /\ Candidate(c, p, v) \in 0 .. Baseline(c, p)
           /\ Candidate(c, p, v) < Baseline(c, p) =>
                /\ Baseline(c, p) - Candidate(c, p, v) >= c.min_saved
                /\ Candidate(c, p, v) >= p.offset
<1>1. /\ c.min_saved \in Nat
      /\ p.offset \in Nat /\ v.kept \in Nat
  BY ConfigAssumption, PolicyBoundAssumption
     DEF ConfigType, Packet, VerdictOn, Disposition
<1>2. Baseline(c, p) \in Nat
  BY BaselineBounds, PolicyBoundAssumption
<1> QED  BY <1>1, <1>2 DEF Candidate, Threshold, SmallerOf

\* The reasons a constrictor's verdict leads to, and the one class that is not a
\* constrictor's is never a cut.
LEMMA ReasonOfCut ==
    ASSUME NEW c \in Config, NEW p \in Packet, NEW v \in VerdictOn(p)
    PROVE  /\ TlsReason(c, p, v) \in Reason
           /\ TlsReason(c, p, v) \in Constricted <=>
                /\ v.disposition = "AppDataPrefix"
                /\ Candidate(c, p, v) < Baseline(c, p)
           /\ QuicReason(c, p, v) \in Reason
           /\ QuicReason(c, p, v) \in Constricted <=>
                /\ v.disposition = "ShortHeaderMatched"
                /\ Candidate(c, p, v) < Baseline(c, p)
           /\ ClassOf(c, p) \in Reason \ Constricted
<1>1. ClassOf(c, p) \in Reason \ Constricted
  BY ConfigAssumption DEF ClassOf, Packet, Kind, Reason, Constricted, ConfigType
<1>2. /\ TlsReason(c, p, v) \in Reason
      /\ TlsReason(c, p, v) \in Constricted <=>
           /\ v.disposition = "AppDataPrefix"
           /\ Candidate(c, p, v) < Baseline(c, p)
  BY DEF TlsReason, Reason, Constricted
<1>3. /\ QuicReason(c, p, v) \in Reason
      /\ QuicReason(c, p, v) \in Constricted <=>
           /\ v.disposition = "ShortHeaderMatched"
           /\ Candidate(c, p, v) < Baseline(c, p)
  BY DEF QuicReason, Reason, Constricted
<1> QED  BY <1>1, <1>2, <1>3

\* Everything the properties say of one decision.
LEMMA DecideSound ==
    ASSUME NEW c \in Config, NEW p \in Packet, NEW v \in VerdictOn(p)
    PROVE  LET d == Decide(c, p, v) IN
           /\ d \in Decision
           /\ d.output_len \in 0 .. Baseline(c, p)
           /\ d.original_len = p.original
           /\ d.reason \in Constricted <=> d.output_len < Baseline(c, p)
           /\ d.reason \in Constricted =>
                /\ Baseline(c, p) - d.output_len >= c.min_saved
                /\ d.output_len >= p.offset
<1> DEFINE d == Decide(c, p, v)
           shortened == \/ AsksTls(c, p) /\ v.disposition = "AppDataPrefix"
                        \/ AsksQuic(c, p) /\ v.disposition = "ShortHeaderMatched"
<1>1. /\ d.output_len = IF shortened THEN Candidate(c, p, v) ELSE Baseline(c, p)
      /\ d.original_len = LargerOf(p.original, Baseline(c, p))
      /\ d.reason = IF AsksTls(c, p) THEN TlsReason(c, p, v)
                    ELSE IF AsksQuic(c, p) THEN QuicReason(c, p, v)
                    ELSE ClassOf(c, p)
      /\ d = [output_len |-> d.output_len, original_len |-> d.original_len,
              reason |-> d.reason]
  BY DEF Decide
<1>2. ~(AsksTls(c, p) /\ AsksQuic(c, p))
  BY DEF AsksTls, AsksQuic
<1>3. /\ p.original \in 0 .. MaxLength
      /\ Baseline(c, p) \in 0 .. MaxLength /\ Baseline(c, p) <= p.original
  BY BaselineBounds DEF Packet
<1>4. d.output_len \in 0 .. Baseline(c, p)
  <2>1. CASE shortened
    BY <1>1, <2>1, CandidateBounds
  <2>2. CASE ~shortened
    BY <1>1, <1>3, <2>2, PolicyBoundAssumption
  <2> QED  BY <2>1, <2>2
<1>5. d.original_len = p.original
  BY <1>1, <1>3, PolicyBoundAssumption DEF LargerOf
<1>6. d.reason \in Reason
  BY <1>1, ReasonOfCut
<1>7. d.reason \in Constricted <=> shortened /\ Candidate(c, p, v) < Baseline(c, p)
  BY <1>1, <1>2, ReasonOfCut
<1>8. d.reason \in Constricted <=> d.output_len < Baseline(c, p)
  <2>1. CASE shortened
    BY <1>1, <1>7, <2>1
  <2>2. CASE ~shortened
    BY <1>1, <1>3, <1>7, <2>2, PolicyBoundAssumption
  <2> QED  BY <2>1, <2>2
<1>9. d.reason \in Constricted =>
        /\ Baseline(c, p) - d.output_len >= c.min_saved
        /\ d.output_len >= p.offset
  BY <1>1, <1>7, CandidateBounds
<1>10. d \in Decision
  <2>1. d.output_len \in 0 .. MaxLength
    BY <1>3, <1>4, PolicyBoundAssumption
  <2> HIDE DEF d
  <2> QED  BY <1>1, <1>3, <1>5, <1>6, <2>1 DEF Decision
<1> QED  BY <1>4, <1>5, <1>8, <1>9, <1>10

-----------------------------------------------------------------------------
(* The invariant.                                                          *)

LEMMA PolicyInitInv == PolicyInit => PolicyInv
<1> SUFFICES ASSUME PolicyInit  PROVE PolicyInv
  OBVIOUS
<1>1. PolicyTypeOK /\ Decided
  BY DEF PolicyInit, PolicyTypeOK, Decided, Stats
<1>2. config.min_saved \in Nat
  BY ConfigAssumption DEF PolicyInit, ConfigType
<1>3. SavingsAddUp
  BY <1>2 DEF PolicyInit, SavingsAddUp, LargerOf
<1> QED  BY <1>1, <1>3 DEF PolicyInv

LEMMA PolicyNextInv == PolicyInv /\ [PolicyNext]_policyVars => PolicyInv'
<1> SUFFICES ASSUME PolicyInv, [PolicyNext]_policyVars  PROVE PolicyInv'
  OBVIOUS
<1> USE DEF PolicyInv
<1>1. CASE PacketArrives
  <2>1. PolicyTypeOK'
    BY <1>1 DEF PacketArrives, PolicyTypeOK
  <2>2. Decided'
    BY <1>1 DEF PacketArrives, PolicyTypeOK, Decided
  <2>3. SavingsAddUp'
    BY <1>1 DEF PacketArrives, SavingsAddUp
  <2> QED  BY <2>1, <2>2, <2>3
<1>2. CASE Evaluate
  <2>1. packet \in Packet /\ config \in Config
    BY <1>2 DEF Evaluate, PolicyTypeOK
  <2>2. PICK v \in VerdictOn(packet) : decision' = Decide(config, packet, v)
    BY <1>2 DEF Evaluate
  <2>3. UNCHANGED <<config, packet, stats>>
    BY <1>2 DEF Evaluate
  <2>4. decision' \in Decision
    BY <2>1, <2>2, DecideSound
  <2>5. PolicyTypeOK'
    BY <1>2, <2>3, <2>4 DEF Evaluate, PolicyTypeOK
  <2>6. Decided'
    BY <2>2, <2>3 DEF Decided
  <2>7. SavingsAddUp'
    BY <2>3 DEF SavingsAddUp
  <2> QED  BY <2>5, <2>6, <2>7
<1>3. CASE WriteAndCount
  <2>1. packet \in Packet /\ config \in Config /\ stats \in Stats
    BY <1>3 DEF WriteAndCount, PolicyTypeOK
  <2>2. PICK v \in VerdictOn(packet) : decision = Decide(config, packet, v)
    BY <1>3 DEF WriteAndCount, Decided
  <2> DEFINE k == LargerOf(config.min_saved, 1)
             n == stats.constricted
             cut == decision.reason \in Constricted
             before == stats.bytes_input - stats.bytes_output
             saved == packet.captured - decision.output_len
  <2>3. /\ Baseline(config, packet) \in Nat
        /\ Baseline(config, packet) <= packet.captured
    BY <2>1, BaselineBounds, PolicyBoundAssumption
  <2>4. /\ decision.output_len \in 0 .. Baseline(config, packet)
        /\ cut => /\ decision.output_len < Baseline(config, packet)
                  /\ Baseline(config, packet) - decision.output_len
                       >= config.min_saved
    BY <2>1, <2>2, DecideSound
  <2>5. config.min_saved \in Nat /\ packet.captured \in Nat
    BY <2>1, ConfigAssumption, PolicyBoundAssumption DEF ConfigType, Packet
  <2>6. k \in Nat /\ saved >= 0 /\ (cut => saved >= k) /\ saved \in Int
    BY <2>3, <2>4, <2>5 DEF LargerOf
  <2>7. /\ stats.packets \in Nat /\ stats.bytes_input \in Nat
        /\ stats.bytes_output \in Nat /\ n \in Nat
    BY <2>1 DEF Stats
  <2>8. /\ stats'.packets = stats.packets + 1
        /\ stats'.bytes_input = stats.bytes_input + packet.captured
        /\ stats'.bytes_output = stats.bytes_output + decision.output_len
        /\ stats'.constricted = n + (IF cut THEN 1 ELSE 0)
        /\ DOMAIN stats' = {"packets", "bytes_input", "bytes_output",
                            "constricted"}
        /\ stats' = [packets |-> stats'.packets,
                     bytes_input |-> stats'.bytes_input,
                     bytes_output |-> stats'.bytes_output,
                     constricted |-> stats'.constricted]
    BY <1>3 DEF WriteAndCount, InclLen, CountOf
  <2>9. stats' \in Stats
    <3>1. decision.output_len \in Nat
      BY <2>3, <2>4
    <3>2. /\ stats'.packets \in Nat /\ stats'.bytes_input \in Nat
          /\ stats'.bytes_output \in Nat /\ stats'.constricted \in Nat
      BY <2>5, <2>7, <2>8, <3>1
    <3> QED  BY <2>8, <3>2 DEF Stats
  <2>10. UNCHANGED config /\ packet' = NoPacket /\ decision' = NoDecision
    BY <1>3 DEF WriteAndCount
  <2>11. PolicyTypeOK'
    BY <2>1, <2>9, <2>10 DEF PolicyTypeOK
  <2>12. Decided'
    BY <2>10 DEF Decided
  <2>13. SavingsAddUp'
    <3>1. before >= n * k /\ n * k \in Int /\ before \in Int
      BY <2>6, <2>7 DEF SavingsAddUp
    <3>2. stats'.bytes_input - stats'.bytes_output = before + saved
      BY <2>3, <2>4, <2>5, <2>7, <2>8
    <3>3. stats'.constricted * k = n * k + (IF cut THEN k ELSE 0)
      BY <2>6, <2>7, <2>8
    <3>4. before + saved >= n * k + (IF cut THEN k ELSE 0)
      BY <2>6, <3>1
    <3> QED  BY <2>10, <3>2, <3>3, <3>4 DEF SavingsAddUp
  <2> QED  BY <2>11, <2>12, <2>13
<1>4. CASE UNCHANGED policyVars
  BY <1>4 DEF policyVars, PolicyTypeOK, Decided, SavingsAddUp
<1> QED  BY <1>1, <1>2, <1>3, <1>4 DEF PolicyNext

LEMMA PolicyInvHolds == PolicySpec => []PolicyInv
BY PolicyInitInv, PolicyNextInv, PTL DEF PolicySpec

-----------------------------------------------------------------------------
(* The properties.                                                         *)

\* Type correctness, for every set of configurations and bound.
THEOREM PolicyTypeCorrect == PolicySpec => []PolicyTypeOK
<1>1. PolicyInv => PolicyTypeOK
  BY DEF PolicyInv
<1> QED  BY <1>1, PolicyInvHolds, PTL

\* The writer accepts every decision and the record is one a reader accepts.
THEOREM RecordsSane == PolicySpec => []RecordSane
<1>1. PolicyInv => RecordSane
  <2> SUFFICES ASSUME PolicyInv, decision # NoDecision
               PROVE  /\ InclLen <= packet.captured
                      /\ InclLen <= SmallerOf(config.default_snaplen,
                                              config.max_capture_len)
                      /\ InclLen <= OrigLen /\ OrigLen = decision.original_len
    BY DEF RecordSane
  <2>1. packet \in Packet /\ config \in Config
    BY DEF PolicyInv, PolicyTypeOK
  <2>2. PICK v \in VerdictOn(packet) : decision = Decide(config, packet, v)
    BY DEF PolicyInv, Decided
  <2>3. /\ InclLen \in 0 .. Baseline(config, packet)
        /\ decision.original_len = packet.original
    BY <2>1, <2>2, DecideSound DEF InclLen
  <2>4. /\ packet.captured \in Nat /\ packet.original \in Nat
        /\ SmallerOf(config.default_snaplen, config.max_capture_len) \in Nat
    BY <2>1, ConfigAssumption, PolicyBoundAssumption
       DEF Packet, ConfigType, SmallerOf
  <2>5. InclLen <= packet.original
    BY <2>1, <2>3, <2>4, BaselineBounds, PolicyBoundAssumption
  <2>6. OrigLen = packet.original
    BY <2>3, <2>4, <2>5 DEF OrigLen, LargerOf
  <2> QED
    BY <2>1, <2>3, <2>4, <2>5, <2>6, BaselineBounds, PolicyBoundAssumption
<1> QED  BY <1>1, PolicyInvHolds, PTL

\* A packet is reported as constricted exactly when a constrictor cut it.
THEOREM CutsReported == PolicySpec => []ReasonTellsCut
<1>1. PolicyInv => ReasonTellsCut
  BY DecideSound DEF PolicyInv, PolicyTypeOK, Decided, ReasonTellsCut, InclLen
<1> QED  BY <1>1, PolicyInvHolds, PTL

\* The unsigned subtraction of the totals never wraps.
THEOREM SavingsCovered == PolicySpec => []SavingsAddUp
<1>1. PolicyInv => SavingsAddUp
  BY DEF PolicyInv
<1> QED  BY <1>1, PolicyInvHolds, PTL

-----------------------------------------------------------------------------
(* The decoder.                                                            *)

\* What the functions know when they hand on to each other.
Passed ==
    /\ at = "link" => decoded = NoResult
    /\ at \in {"network", "tcp", "udp"} =>
         /\ decoded.success /\ ~decoded.failed
         /\ decoded.transport = "None" /\ decoded.fragment = "none"
    /\ at \in {"tcp", "udp"} =>
         decoded.network_offset < decoded.transport_offset

\* What may be relied on in a result, complete or not.
Result ==
    /\ decoded.datagram_end <= frame.captured
    /\ decoded.transport = "None" =>
         decoded.payload_offset = 0 /\ decoded.payload_length = 0
    /\ decoded.transport # "None" =>
         ~decoded.failed /\ decoded.fragment = "none"

DecodeInv == DecodeTypeOK /\ HeadersNest /\ FailureTold /\ Passed /\ Result

\* Captured lengths are lengths.
LEMMA CapturedLength ==
    ASSUME frame \in Frame \cup {NoFrame}
    PROVE  frame.captured \in Nat
<1>1. CASE frame \in Frame
  BY <1>1, FrameAssumption DEF Frame
<1>2. CASE frame = NoFrame
  BY <1>2 DEF NoFrame
<1> QED  BY <1>1, <1>2

\* What fields hold are numbers.
LEMMA FieldNumbers ==
    /\ \A n \in FieldLength : n \in Nat
    /\ \A w \in HeaderWords : w \in Nat
<1>1. \A n \in Uint16 : n \in Nat
  BY DEF Uint16
<1>2. \A w \in Uint4 : w \in Nat
  BY DEF Uint4
<1> QED  BY <1>1, <1>2, FrameAssumption

\* A frame in hand has not been read.
LEMMA ArrivedInv ==
    ASSUME frame \in Frame \cup {NoFrame}, at \in {"idle", "link"},
           decoded = NoResult, read_end = 0
    PROVE  DecodeInv
<1>1. frame.captured \in Nat
  BY CapturedLength
<1>2. NoResult \in DecodeResult
  BY DEF NoResult, DecodeResult, Version, Fragment
<1>3. /\ NoResult.transport = "None" /\ NoResult.datagram_end = 0
      /\ NoResult.payload_offset = 0 /\ NoResult.payload_length = 0
  BY DEF NoResult
<1> QED
  BY <1>1, <1>2, <1>3 DEF DecodeInv, DecodeTypeOK, HeadersNest, FailureTold,
                          Passed, Result

\* What a function that reads up to end, or reads nothing, does to the ghost.
LEMMA ReadsInside ==
    ASSUME DecodeInv, NEW end \in Nat,
           (Reads(end) /\ end <= frame.captured) \/ UNCHANGED read_end,
           UNCHANGED frame
    PROVE  /\ frame' \in Frame \cup {NoFrame}
           /\ read_end' \in Nat /\ read_end' <= frame'.captured
BY CapturedLength DEF DecodeInv, DecodeTypeOK, HeadersNest, Reads

\* An error keeps what the headers before it said, and names no transport.
LEMMA FailsSound ==
    ASSUME NEW r \in DecodeResult, FailsWith(r), r.transport = "None",
           r.payload_offset = 0 /\ r.payload_length = 0,
           r.datagram_end <= frame.captured,
           UNCHANGED frame, frame \in Frame \cup {NoFrame},
           read_end' \in Nat /\ read_end' <= frame'.captured
    PROVE  DecodeInv'
<1>1. at' = "done"
      /\ decoded' = [r EXCEPT !.success = FALSE, !.failed = TRUE]
  BY DEF FailsWith, GoesOn
<1>2. decoded' \in DecodeResult
  BY <1>1 DEF DecodeResult
<1>3. /\ decoded'.success = FALSE /\ decoded'.failed = TRUE
      /\ decoded'.transport = "None"
      /\ decoded'.payload_offset = 0 /\ decoded'.payload_length = 0
      /\ decoded'.datagram_end = r.datagram_end
  BY <1>1 DEF DecodeResult
<1> QED
  BY <1>1, <1>2, <1>3 DEF DecodeInv, DecodeTypeOK, HeadersNest, FailureTold,
                          Passed, Result

\* So does one with what is known so far.
LEMMA FailsNow ==
    ASSUME DecodeInv, Fails, at \in {"link", "network", "tcp", "udp"},
           UNCHANGED frame, read_end' \in Nat /\ read_end' <= frame'.captured
    PROVE  DecodeInv'
<1>1. decoded.transport = "None"
  BY DEF DecodeInv, Passed, NoResult
<1>2. decoded.payload_offset = 0 /\ decoded.payload_length = 0
      /\ decoded.datagram_end <= frame.captured
  BY <1>1 DEF DecodeInv, Result
<1> QED  BY <1>1, <1>2, FailsSound DEF DecodeInv, DecodeTypeOK, Fails

\* A header that was found complete hands a good result on.
LEMMA GoesOnSound ==
    ASSUME NEW to \in {"network", "tcp", "udp", "done"},
           NEW r \in DecodeResult, GoesOn(to, r),
           r.success /\ ~r.failed /\ r.transport = "None",
           r.payload_offset = 0 /\ r.payload_length = 0,
           r.datagram_end <= frame.captured,
           to # "done" => r.fragment = "none",
           to \in {"tcp", "udp"} => r.network_offset < r.transport_offset,
           UNCHANGED frame, frame \in Frame \cup {NoFrame},
           read_end' \in Nat /\ read_end' <= frame'.captured
    PROVE  DecodeInv'
BY DEF GoesOn, DecodeInv, DecodeTypeOK, HeadersNest, FailureTold, Passed,
       Result

\* A transport header that was found complete makes a packet.
LEMMA CarriesSound ==
    ASSUME DecodeInv, at \in {"tcp", "udp"}, NEW transport \in {"tcp", "udp"},
           NEW header \in Nat \ {0}, NEW payload \in Nat,
           Carries(transport, header, payload),
           decoded.transport_offset + header + payload
             <= decoded.datagram_end,
           UNCHANGED frame, read_end' \in Nat /\ read_end' <= frame'.captured
    PROVE  DecodeInv'
<1>1. /\ decoded \in DecodeResult /\ frame \in Frame \cup {NoFrame}
      /\ decoded.success /\ ~decoded.failed /\ decoded.fragment = "none"
      /\ decoded.network_offset < decoded.transport_offset
      /\ decoded.datagram_end <= frame.captured
  BY DEF DecodeInv, DecodeTypeOK, Passed, Result
<1>2. /\ at' = "done"
      /\ decoded' = [decoded EXCEPT !.transport = transport,
                       !.payload_offset = decoded.transport_offset + header,
                       !.payload_length = payload]
  BY DEF Carries, GoesOn
<1>3. decoded' \in DecodeResult
  <2>1. decoded.transport_offset + header \in Nat
    BY <1>1 DEF DecodeResult
  <2> QED  BY <1>1, <1>2, <2>1 DEF DecodeResult
<1>4. /\ decoded'.transport = transport /\ transport # "None"
      /\ decoded'.payload_offset = decoded.transport_offset + header
      /\ decoded'.payload_length = payload
      /\ decoded'.datagram_end = decoded.datagram_end
      /\ decoded'.network_offset = decoded.network_offset
      /\ decoded'.transport_offset = decoded.transport_offset
      /\ decoded'.success = decoded.success
      /\ decoded'.failed = decoded.failed
      /\ decoded'.fragment = "none"
  BY <1>1, <1>2 DEF DecodeResult
<1>5. decoded.transport_offset \in Nat
  BY <1>1 DEF DecodeResult
<1> QED
  BY <1>1, <1>2, <1>3, <1>4, <1>5
     DEF DecodeInv, DecodeTypeOK, HeadersNest, FailureTold, Passed, Result

\* What holds of a result a function starts from.
LEMMA Before ==
    ASSUME DecodeInv, at \in {"link", "network", "tcp", "udp"}
    PROVE  /\ decoded \in DecodeResult /\ frame \in Frame \cup {NoFrame}
           /\ frame.captured \in Nat
           /\ decoded.network_offset \in Nat /\ decoded.transport_offset \in Nat
           /\ decoded.datagram_end \in Nat
           /\ decoded.datagram_end <= frame.captured
           /\ ~decoded.failed
           /\ decoded.transport = "None" /\ decoded.fragment = "none"
           /\ decoded.payload_offset = 0 /\ decoded.payload_length = 0
<1>1. ~decoded.failed /\ decoded.transport = "None"
      /\ decoded.fragment = "none"
  BY DEF DecodeInv, Passed, NoResult
<1> QED
  BY <1>1, CapturedLength DEF DecodeInv, DecodeTypeOK, Result, DecodeResult

-----------------------------------------------------------------------------
(* The functions of the decoder.                                           *)

\* Ethernet: 14 bytes, or an error.
LEMMA EthernetSound ==
    ASSUME DecodeInv, NEW e \in Version \cup {"vlan"}, DecodeEthernet(e)
    PROVE  DecodeInv'
<1>1. at = "link" /\ UNCHANGED frame
  BY DEF DecodeEthernet
<1> DEFINE r == [decoded EXCEPT !.success = TRUE, !.ethertype = e,
                                !.network_offset = 14]
<1>2. CASE HasBytes(0, 14)
  <2>1. Reads(14) /\ GoesOn("network", r)
    BY <1>2 DEF DecodeEthernet
  <2>2. read_end' \in Nat /\ read_end' <= frame'.captured
    BY <1>1, <1>2, <2>1, Before, ReadsInside DEF HasBytes
  <2>3. r \in DecodeResult
    BY <1>1, Before DEF DecodeResult
  <2>4. /\ r.success /\ ~r.failed /\ r.transport = "None"
        /\ r.payload_offset = 0 /\ r.payload_length = 0
        /\ r.datagram_end <= frame.captured /\ r.fragment = "none"
    BY <1>1, Before DEF DecodeResult
  <2> HIDE DEF r
  <2> QED  BY <1>1, <2>1, <2>2, <2>3, <2>4, Before, GoesOnSound
<1>3. CASE ~HasBytes(0, 14)
  BY <1>1, <1>3, FailsNow, ReadsInside DEF DecodeEthernet
<1> QED  BY <1>2, <1>3

\* A tag: four bytes, or an error.
LEMMA TagSound ==
    ASSUME DecodeInv, NEW e \in Version \cup {"vlan"}, DecodeTag(e)
    PROVE  DecodeInv'
<1>1. at = "network" /\ UNCHANGED frame
  BY DEF DecodeTag
<1> DEFINE r == [decoded EXCEPT !.ethertype = e, !.network_offset = @ + 4]
<1>2. CASE TagFits
  <2>1. Reads(decoded.network_offset + 4) /\ GoesOn("network", r)
    BY <1>2 DEF DecodeTag
  <2>2. read_end' \in Nat /\ read_end' <= frame'.captured
    BY <1>1, <1>2, <2>1, Before, ReadsInside DEF TagFits, HasBytes
  <2>3. r \in DecodeResult
    <3>1. decoded.network_offset + 4 \in Nat
      BY <1>1, Before
    <3> QED  BY <1>1, <3>1, Before DEF DecodeResult
  <2>4. decoded.success
    BY <1>1 DEF DecodeInv, Passed
  <2>5. /\ r.success /\ ~r.failed /\ r.transport = "None"
        /\ r.payload_offset = 0 /\ r.payload_length = 0
        /\ r.datagram_end <= frame.captured /\ r.fragment = "none"
    BY <1>1, <2>4, Before DEF DecodeResult
  <2> HIDE DEF r
  <2> QED  BY <1>1, <2>1, <2>2, <2>3, <2>5, Before, GoesOnSound
<1>3. CASE ~TagFits
  BY <1>1, <1>3, FailsNow, ReadsInside DEF DecodeTag
<1> QED  BY <1>2, <1>3

\* No IP: the result stands as it is.
LEMMA NonIpSound == DecodeInv /\ DecodeNonIp => DecodeInv'
<1> SUFFICES ASSUME DecodeInv, DecodeNonIp  PROVE DecodeInv'
  OBVIOUS
<1>1. at = "network" /\ UNCHANGED <<frame, read_end>>
      /\ GoesOn("done", decoded)
  BY DEF DecodeNonIp
<1>2. decoded.success
  BY <1>1 DEF DecodeInv, Passed
<1>3. read_end' \in Nat /\ read_end' <= frame'.captured
  BY <1>1, ReadsInside
<1> QED  BY <1>1, <1>2, <1>3, Before, GoesOnSound

\* Loopback: four bytes and, if there is a fifth, that one.
LEMMA NullSound ==
    ASSUME DecodeInv, NEW family \in Version, DecodeNull(family)
    PROVE  DecodeInv'
<1>1. at = "link" /\ UNCHANGED frame
  BY DEF DecodeNull
<1> DEFINE nibble == IF HasBytes(4, 1) THEN frame.version ELSE "other"
           version == IF family # "other" THEN family ELSE nibble
           r == [decoded EXCEPT !.success = TRUE, !.ethertype = version,
                                !.network_offset = 4]
           last == IF HasBytes(4, 1) THEN 5 ELSE 4
<1>2. CASE HasBytes(0, 4)
  <2>1. /\ Reads(last)
        /\ GoesOn("network", r) \/ FailsWith(r)
    BY <1>2 DEF DecodeNull
  <2>2. read_end' \in Nat /\ read_end' <= frame'.captured
    <3>1. last \in Nat /\ last <= frame.captured
      BY <1>1, <1>2, Before DEF HasBytes
    <3> QED  BY <1>1, <2>1, <3>1, ReadsInside
  <2>3. version \in Version
    BY <1>1, Before DEF Frame, NoFrame, Version
  <2>4. r \in DecodeResult
    <3> HIDE DEF version
    <3> QED  BY <1>1, <2>3, Before DEF DecodeResult
  <2>5. /\ r.success /\ ~r.failed /\ r.transport = "None"
        /\ r.payload_offset = 0 /\ r.payload_length = 0
        /\ r.datagram_end <= frame.captured /\ r.fragment = "none"
    <3> HIDE DEF version
    <3> QED  BY <1>1, Before DEF DecodeResult
  <2> HIDE DEF r
  <2>6. CASE GoesOn("network", r)
    BY <1>1, <2>2, <2>4, <2>5, <2>6, Before, GoesOnSound
  <2>7. CASE FailsWith(r)
    BY <1>1, <2>2, <2>4, <2>5, <2>7, Before, FailsSound
  <2> QED  BY <2>1, <2>6, <2>7
<1>3. CASE ~HasBytes(0, 4)
  BY <1>1, <1>3, FailsNow, ReadsInside DEF DecodeNull
<1> QED  BY <1>2, <1>3

\* IPv4: a whole datagram with its header, or an error.
LEMMA Ipv4Sound ==
    ASSUME DecodeInv, NEW words \in HeaderWords, NEW total \in FieldLength,
           NEW fragment \in Fragment, NEW protocol \in Protocol,
           DecodeIpv4(words, total, fragment, protocol)
    PROVE  DecodeInv'
<1>1. at = "network" /\ UNCHANGED frame
  BY DEF DecodeIpv4
<1> DEFINE offset == decoded.network_offset
           r == [decoded EXCEPT !.success = TRUE, !.ip_version = "ipv4",
                   !.transport_offset = offset + 4 * words,
                   !.datagram_end = offset + total, !.fragment = fragment]
           to == IF Fragmented(fragment) \/ protocol \notin {"tcp", "udp"}
                 THEN "done" ELSE protocol
<1>2. words \in Nat /\ total \in Nat /\ offset \in Nat
  BY <1>1, Before, FieldNumbers
<1>3. CASE HasBytes(offset, 20)
  <2>1. /\ Reads(offset + 20)
        /\ IF Ipv4Fits(offset, 4 * words, total) THEN GoesOn(to, r) ELSE Fails
    BY <1>3 DEF DecodeIpv4
  <2>2. read_end' \in Nat /\ read_end' <= frame'.captured
    BY <1>1, <1>2, <1>3, <2>1, ReadsInside DEF HasBytes
  <2>3. CASE Ipv4Fits(offset, 4 * words, total)
    <3>1. 4 * words >= 20 /\ offset + total <= frame.captured
      BY <2>3 DEF Ipv4Fits, HasBytes
    <3>2. offset + 4 * words \in Nat /\ offset + total \in Nat
          /\ offset < offset + 4 * words
      BY <1>2, <3>1
    <3>3. r \in DecodeResult
      BY <1>1, <3>2, Before DEF DecodeResult
    <3>4. /\ r.success /\ ~r.failed /\ r.transport = "None"
          /\ r.payload_offset = 0 /\ r.payload_length = 0
          /\ r.datagram_end <= frame.captured
          /\ r.fragment = fragment
          /\ r.network_offset < r.transport_offset
      BY <1>1, <3>1, <3>2, Before DEF DecodeResult
    <3>5. /\ to \in {"tcp", "udp", "done"}
          /\ to # "done" => fragment = "none"
      BY DEF Fragmented
    <3> HIDE DEF r, to
    <3> QED  BY <1>1, <2>1, <2>2, <2>3, <3>3, <3>4, <3>5, Before, GoesOnSound
  <2>4. CASE ~Ipv4Fits(offset, 4 * words, total)
    BY <1>1, <2>1, <2>2, <2>4, FailsNow
  <2> QED  BY <2>3, <2>4
<1>4. CASE ~HasBytes(offset, 20)
  BY <1>1, <1>4, FailsNow, ReadsInside DEF DecodeIpv4
<1> QED  BY <1>3, <1>4

\* IPv6: a whole datagram, or an error; an extension header is one, too.
LEMMA Ipv6Sound ==
    ASSUME DecodeInv, NEW payload \in FieldLength, NEW protocol \in Protocol,
           DecodeIpv6(payload, protocol)
    PROVE  DecodeInv'
<1>1. at = "network" /\ UNCHANGED frame
  BY DEF DecodeIpv6
<1> DEFINE offset == decoded.network_offset
           r == [decoded EXCEPT !.success = TRUE, !.ip_version = "ipv6",
                   !.transport_offset = offset + 40,
                   !.datagram_end = offset + 40 + payload]
           to == IF protocol \in {"tcp", "udp"} THEN protocol ELSE "done"
<1>2. payload \in Nat /\ offset \in Nat
  BY <1>1, Before, FieldNumbers
<1>3. CASE HasBytes(offset, 40)
  <2>1. /\ Reads(offset + 40)
        /\ IF ~Ipv6Fits(offset, payload) THEN Fails
           ELSE FailsWith(r) \/ GoesOn(to, r)
    BY <1>3 DEF DecodeIpv6
  <2>2. read_end' \in Nat /\ read_end' <= frame'.captured
    BY <1>1, <1>2, <1>3, <2>1, ReadsInside DEF HasBytes
  <2>3. CASE Ipv6Fits(offset, payload)
    <3>1. /\ offset + 40 + payload <= frame.captured
          /\ offset + 40 \in Nat /\ offset + 40 + payload \in Nat
          /\ offset < offset + 40
      BY <1>1, <1>2, <2>3, Before DEF Ipv6Fits, HasBytes
    <3>2. r \in DecodeResult
      BY <1>1, <3>1, Before DEF DecodeResult
    <3>3. /\ r.success /\ ~r.failed /\ r.transport = "None"
          /\ r.payload_offset = 0 /\ r.payload_length = 0
          /\ r.datagram_end <= frame.captured
          /\ r.fragment = "none"
          /\ r.network_offset < r.transport_offset
      BY <1>1, <3>1, Before DEF DecodeResult
    <3>4. to \in {"tcp", "udp", "done"}
      OBVIOUS
    <3> HIDE DEF r, to
    <3>5. CASE FailsWith(r)
      BY <1>1, <2>2, <3>2, <3>3, <3>5, Before, FailsSound
    <3>6. CASE GoesOn(to, r)
      BY <1>1, <2>2, <3>2, <3>3, <3>4, <3>6, Before, GoesOnSound
    <3> QED  BY <2>1, <2>3, <3>5, <3>6
  <2>4. CASE ~Ipv6Fits(offset, payload)
    BY <1>1, <2>1, <2>2, <2>4, FailsNow
  <2> QED  BY <2>3, <2>4
<1>4. CASE ~HasBytes(offset, 40)
  BY <1>1, <1>4, FailsNow, ReadsInside DEF DecodeIpv6
<1> QED  BY <1>3, <1>4

\* TCP: the payload is what the datagram has behind the header.
LEMMA TcpSound ==
    ASSUME DecodeInv, NEW words \in HeaderWords, DecodeTcp(words)
    PROVE  DecodeInv'
<1>1. at = "tcp" /\ UNCHANGED frame
  BY DEF DecodeTcp
<1> DEFINE offset == decoded.transport_offset
<1>2. words \in Nat /\ offset \in Nat /\ decoded.datagram_end \in Nat
      /\ decoded.datagram_end <= frame.captured
  BY <1>1, Before, FieldNumbers
<1>3. CASE InDatagram(offset, 20)
  <2>1. /\ Reads(offset + 20)
        /\ IF 4 * words < 20 \/ ~InDatagram(offset, 4 * words) THEN Fails
           ELSE Carries("tcp", 4 * words,
                        decoded.datagram_end - (offset + 4 * words))
    BY <1>3 DEF DecodeTcp
  <2>2. read_end' \in Nat /\ read_end' <= frame'.captured
    BY <1>1, <1>2, <1>3, <2>1, ReadsInside DEF InDatagram, HasBytes
  <2>3. CASE 4 * words < 20 \/ ~InDatagram(offset, 4 * words)
    BY <1>1, <2>1, <2>2, <2>3, FailsNow
  <2>4. CASE ~(4 * words < 20 \/ ~InDatagram(offset, 4 * words))
    <3> DEFINE header == 4 * words
               payload == decoded.datagram_end - (offset + header)
    <3>1. /\ header \in Nat \ {0} /\ payload \in Nat
          /\ offset + header + payload <= decoded.datagram_end
      BY <1>2, <2>4 DEF InDatagram
    <3>2. Carries("tcp", header, payload)
      BY <2>1, <2>4
    <3> HIDE DEF header, payload
    <3> QED  BY <1>1, <2>2, <3>1, <3>2, CarriesSound
  <2> QED  BY <2>3, <2>4
<1>4. CASE ~InDatagram(offset, 20)
  BY <1>1, <1>4, FailsNow, ReadsInside DEF DecodeTcp
<1> QED  BY <1>3, <1>4

\* UDP: the payload is what the length field covers, inside the datagram.
LEMMA UdpSound ==
    ASSUME DecodeInv, NEW length \in FieldLength, DecodeUdp(length)
    PROVE  DecodeInv'
<1>1. at = "udp" /\ UNCHANGED frame
  BY DEF DecodeUdp
<1> DEFINE offset == decoded.transport_offset
<1>2. length \in Nat /\ offset \in Nat /\ decoded.datagram_end \in Nat
      /\ decoded.datagram_end <= frame.captured
  BY <1>1, Before, FieldNumbers
<1>3. CASE InDatagram(offset, 8)
  <2>1. /\ Reads(offset + 8)
        /\ IF length < 8 \/ offset + length > decoded.datagram_end
           THEN Fails ELSE Carries("udp", 8, length - 8)
    BY <1>3 DEF DecodeUdp
  <2>2. read_end' \in Nat /\ read_end' <= frame'.captured
    BY <1>1, <1>2, <1>3, <2>1, ReadsInside DEF InDatagram, HasBytes
  <2>3. CASE length < 8 \/ offset + length > decoded.datagram_end
    BY <1>1, <2>1, <2>2, <2>3, FailsNow
  <2>4. CASE ~(length < 8 \/ offset + length > decoded.datagram_end)
    <3> DEFINE payload == length - 8
    <3>1. payload \in Nat /\ offset + 8 + payload <= decoded.datagram_end
      BY <1>2, <2>4
    <3>2. Carries("udp", 8, payload)
      BY <2>1, <2>4
    <3> HIDE DEF payload
    <3> QED  BY <1>1, <2>2, <3>1, <3>2, CarriesSound
  <2> QED  BY <2>3, <2>4
<1>4. CASE ~InDatagram(offset, 8)
  BY <1>1, <1>4, FailsNow, ReadsInside DEF DecodeUdp
<1> QED  BY <1>3, <1>4

\* Every function keeps the decoder's invariant.
LEMMA DecodeStepInv == DecodeInv /\ DecodeStep => DecodeInv'
BY EthernetSound, TagSound, NonIpSound, NullSound, Ipv4Sound, Ipv6Sound,
   TcpSound, UdpSound DEF DecodeStep

-----------------------------------------------------------------------------
(* The path.                                                               *)

\* While a frame is decoded the policy waits, with room for another packet.
InHand ==
    at # "idle" =>
        /\ packet = NoPacket /\ stats.packets < PacketBound
        /\ frame \in Frame

\* The packet in hand is what the decoder said of the frame.
HandedOver ==
    packet # NoPacket => /\ packet.kind \in KindsOf(decoded)
                         /\ packet.captured = frame.captured

PathInv == DecodeInv /\ PolicyInv /\ InHand /\ HandedOver

\* What is handed over is one of the packets the policy assumes.
LEMMA HandOverSound ==
    ASSUME PathInv, HandOver
    PROVE  packet' \in Packet
<1>1. PICK kind \in KindsOf(decoded), original \in OriginalLength,
           control \in BOOLEAN :
        packet' = [captured |-> frame.captured, original |-> original,
                   kind |-> kind, offset |-> decoded.payload_offset,
                   payload |-> decoded.payload_length, control |-> control]
  BY DEF HandOver
<1>2. frame.captured \in 0 .. MaxLength /\ original \in 0 .. MaxLength
  <2>1. frame \in Frame
    BY DEF PathInv, HandOver, InHand
  <2>2. frame.captured \in FrameLength
    BY <2>1 DEF Frame
  <2> QED  BY <2>2, CapturedAssumption, OriginalAssumption
<1>3. kind \in Kind
  BY DEF KindsOf, Kind
<1>4. /\ decoded.payload_offset \in Nat /\ decoded.payload_length \in Nat
      /\ decoded.transport_offset \in Nat /\ decoded.datagram_end \in Nat
  BY DEF PathInv, DecodeInv, DecodeTypeOK, DecodeResult
<1>5. decoded.payload_offset + decoded.payload_length <= frame.captured
  <2>1. CASE decoded.transport = "None"
    BY <1>2, <1>4, <2>1, PolicyBoundAssumption DEF PathInv, DecodeInv, Result
  <2>2. CASE decoded.transport # "None"
    BY <1>2, <1>4, <2>2, PolicyBoundAssumption
       DEF PathInv, DecodeInv, Result, HeadersNest
  <2> QED  BY <2>1, <2>2
<1>6. /\ decoded.payload_offset \in 0 .. MaxLength
      /\ decoded.payload_length \in 0 .. MaxLength
  BY <1>2, <1>4, <1>5, PolicyBoundAssumption
<1> QED  BY <1>1, <1>2, <1>3, <1>5, <1>6 DEF Packet

\* A step of the path is a step of the policy, or none it sees.
LEMMA PathStepSimulation ==
    PathInv /\ [PathNext]_pathVars => [PolicyNext]_policyVars
<1> SUFFICES ASSUME PathInv, [PathNext]_pathVars
             PROVE  PolicyNext \/ UNCHANGED policyVars
  OBVIOUS
<1>1. CASE FrameArrives
  BY <1>1 DEF FrameArrives
<1>2. CASE Decode
  BY <1>2 DEF Decode
<1>3. CASE HandOver
  <2>1. at # "idle" /\ UNCHANGED <<config, decision, stats>>
    BY <1>3 DEF HandOver
  <2>2. packet = NoPacket /\ stats.packets < PacketBound
    BY <2>1 DEF PathInv, InHand
  <2>3. packet' \in Packet
    BY <1>3, HandOverSound
  <2> QED  BY <2>1, <2>2, <2>3 DEF PacketArrives, PolicyNext
<1>4. CASE Evaluate /\ UNCHANGED decodeVars
  BY <1>4 DEF PolicyNext
<1>5. CASE WriteAndCount /\ UNCHANGED decodeVars
  BY <1>5 DEF PolicyNext
<1>6. CASE UNCHANGED pathVars
  BY <1>6 DEF pathVars
<1> QED  BY <1>1, <1>2, <1>3, <1>4, <1>5, <1>6 DEF PathNext

\* No frame, no packet.
LEMMA PathInitInv == PathInit => PathInv
<1> SUFFICES ASSUME PathInit  PROVE PathInv
  OBVIOUS
<1>1. DecodeInv
  BY ArrivedInv DEF PathInit
<1>2. PolicyInv
  BY PolicyInitInv DEF PathInit
<1> QED  BY <1>1, <1>2 DEF PathInit, PolicyInit, PathInv, InHand, HandedOver

\* Where nothing of the decoder changes its invariant stays.
LEMMA DecoderIdle == DecodeInv /\ UNCHANGED decodeVars => DecodeInv'
BY DEF decodeVars, DecodeInv, DecodeTypeOK, HeadersNest, FailureTold, Passed,
       Result

\* A step of the decoder keeps the frame.
LEMMA FrameKept == DecodeStep => UNCHANGED frame /\ at # "idle"
BY DEF DecodeStep, DecodeEthernet, DecodeTag, DecodeNull, DecodeNonIp,
       DecodeIpv4, DecodeIpv6, DecodeTcp, DecodeUdp

\* Every step of the path keeps the invariant.
LEMMA PathNextInv == PathInv /\ [PathNext]_pathVars => PathInv'
<1> SUFFICES ASSUME PathInv, [PathNext]_pathVars  PROVE PathInv'
  OBVIOUS
<1>0. PolicyInv'
  BY PathStepSimulation, PolicyNextInv DEF PathInv
<1> USE DEF PathInv
<1>1. CASE FrameArrives
  <2>1. DecodeInv'
    <3>1. frame' \in Frame /\ at' = "link" /\ decoded' = NoResult
          /\ read_end' = 0
      BY <1>1 DEF FrameArrives
    <3>2. /\ frame'.captured \in Nat
      BY <3>1, FrameAssumption DEF Frame
    <3>3. NoResult \in DecodeResult
      BY DEF NoResult, DecodeResult, Version, Fragment
    <3>4. /\ NoResult.transport = "None" /\ NoResult.datagram_end = 0
          /\ NoResult.payload_offset = 0 /\ NoResult.payload_length = 0
      BY DEF NoResult
    <3> QED
      BY <3>1, <3>2, <3>3, <3>4 DEF DecodeInv, DecodeTypeOK, HeadersNest,
                                    FailureTold, Passed, Result
  <2>2. InHand' /\ HandedOver'
    BY <1>1 DEF FrameArrives, policyVars, InHand, HandedOver
  <2> QED  BY <1>0, <2>1, <2>2
<1>2. CASE Decode
  <2>1. DecodeInv'
    BY <1>2, DecodeStepInv DEF Decode
  <2>2. at # "idle" /\ UNCHANGED <<frame, packet, stats>>
    BY <1>2, FrameKept DEF Decode, policyVars
  <2>3. InHand' /\ HandedOver'
    BY <2>2 DEF InHand, HandedOver
  <2> QED  BY <1>0, <2>1, <2>3
<1>3. CASE HandOver
  <2>1. at' = "idle" /\ UNCHANGED <<frame, decoded, read_end>>
    BY <1>3 DEF HandOver
  <2>2. DecodeInv'
    BY <2>1 DEF DecodeInv, DecodeTypeOK, HeadersNest, FailureTold, Passed,
                Result
  <2>3. packet'.kind \in KindsOf(decoded) /\ packet'.captured = frame.captured
    BY <1>3 DEF HandOver
  <2>4. HandedOver'
    BY <2>1, <2>3 DEF HandedOver, KindsOf
  <2>5. InHand'
    BY <2>1 DEF InHand
  <2> QED  BY <1>0, <2>2, <2>4, <2>5
<1>4. CASE Evaluate /\ UNCHANGED decodeVars
  <2>1. UNCHANGED <<packet, stats>>
    BY <1>4 DEF Evaluate
  <2>2. InHand' /\ HandedOver'
    BY <1>4, <2>1 DEF decodeVars, InHand, HandedOver, KindsOf
  <2> QED  BY <1>0, <1>4, <2>2, DecoderIdle
<1>5. CASE WriteAndCount /\ UNCHANGED decodeVars
  <2>1. packet # NoPacket /\ packet' = NoPacket
    BY <1>5 DEF WriteAndCount, PolicyInv, PolicyTypeOK
  <2>2. at' = "idle"
    BY <1>5, <2>1 DEF InHand, decodeVars
  <2>3. InHand' /\ HandedOver'
    BY <2>1, <2>2 DEF InHand, HandedOver
  <2> QED  BY <1>0, <1>5, <2>3, DecoderIdle
<1>6. CASE UNCHANGED pathVars
  <2>1. UNCHANGED <<packet, stats>> /\ UNCHANGED decodeVars
    BY <1>6 DEF pathVars, policyVars
  <2>2. InHand' /\ HandedOver'
    BY <2>1 DEF decodeVars, InHand, HandedOver, KindsOf
  <2> QED  BY <1>0, <2>1, <2>2, DecoderIdle
<1> QED  BY <1>1, <1>2, <1>3, <1>4, <1>5, <1>6 DEF PathNext

\* The invariant holds for every frame and every configuration.
THEOREM PathAlways == PathSpec => []PathInv
BY PathInitInv, PathNextInv, PTL DEF PathSpec

-----------------------------------------------------------------------------
(* The properties.                                                         *)

\* The decoder's offsets are numbers and its state one it may be in, for every
\* length of a frame and every value of its fields.
THEOREM DecoderTypeCorrect == PathSpec => []DecodeTypeOK
<1>1. PathInv => DecodeTypeOK
  BY DEF PathInv, DecodeInv
<1> QED  BY <1>1, PathAlways, PTL

\* No byte outside the frame is read, and the headers nest: so the unsigned
\* subtraction that makes the length of a TCP payload never wraps.
THEOREM HeadersAlwaysNest == PathSpec => []HeadersNest
<1>1. PathInv => HeadersNest
  BY DEF PathInv, DecodeInv
<1> QED  BY <1>1, PathAlways, PTL

\* A failure is told in both ways, and with no transport.
THEOREM FailureAlwaysTold == PathSpec => []FailureTold
<1>1. PathInv => FailureTold
  BY DEF PathInv, DecodeInv
<1> QED  BY <1>1, PathAlways, PTL

\* Fragments and datagrams that were cut before are never shortened.
THEOREM CutsOnlyWhole == PathSpec => []CutOnlyWhole
<1>1. ASSUME PathInv, decision # NoDecision, decision.reason \in Constricted
      PROVE  /\ ~decoded.failed /\ decoded.fragment = "none"
             /\ decoded.datagram_end <= packet.captured
  <2>1. packet \in Packet /\ config \in Config /\ packet # NoPacket
    BY <1>1 DEF PathInv, PolicyInv, PolicyTypeOK
  <2>2. PICK v \in VerdictOn(packet) : decision = Decide(config, packet, v)
    BY <1>1 DEF PathInv, PolicyInv, Decided
  <2>3. AsksTls(config, packet) \/ AsksQuic(config, packet)
    <3>1. ClassOf(config, packet) \notin Constricted
      BY <2>1, <2>2, ReasonOfCut
    <3> QED  BY <1>1, <2>2, <3>1 DEF Decide
  <2>4. packet.kind \in {"tls_port", "quic_port"}
    BY <2>1, <2>3 DEF AsksTls, AsksQuic, ClassOf, Packet, Kind
  <2>5. packet.kind \in KindsOf(decoded) /\ packet.captured = frame.captured
    BY <1>1, <2>1 DEF PathInv, HandedOver
  <2>6. decoded.transport # "None"
    BY <2>4, <2>5 DEF KindsOf
  <2> QED  BY <1>1, <2>5, <2>6 DEF PathInv, DecodeInv, Result
<1>2. PathInv => CutOnlyWhole
  BY <1>1 DEF CutOnlyWhole
<1> QED  BY <1>2, PathAlways, PTL

\* The decoder with the policy behind it implements the policy alone: what the
\* theorems of LiveCapturePolicy assume of packets, the decoder keeps.
THEOREM PathImplementsPolicy == PathSpec => PolicySpec
<1>1. PathInit => PolicyInit
  BY DEF PathInit
<1>2. PathInv /\ [PathNext]_pathVars => [PolicyNext]_policyVars
  BY PathStepSimulation
<1> QED  BY <1>1, <1>2, PathAlways, PTL DEF PathSpec, PolicySpec

\* So of every frame, whatever it holds, a record is made that the writer
\* accepts; it is reported as constricted exactly when a constrictor cut it,
\* and the totals that come of it never wrap.
THEOREM PathDecisionsSound ==
    PathSpec => [](RecordSane /\ ReasonTellsCut /\ SavingsAddUp)
BY PathImplementsPolicy, RecordsSane, CutsReported, SavingsCovered, PTL
=============================================================================
