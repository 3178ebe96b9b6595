---------------------------- MODULE PacketDecode ----------------------------
(***************************************************************************)
(* DecodePacket (src/decode/PacketDecode.cpp): link header, VLAN tags, IP  *)
(* header, transport header, one step each.                                *)
(*                                                                         *)
(* A frame is its length; a field is chosen when it is read.  Addresses,   *)
(* ports, sequence numbers and flags are copied out of headers already     *)
(* found complete and are left out, as is the number of tags, which        *)
(* nothing reads.  The failures differ in name only and are one.           *)
(***************************************************************************)
EXTENDS Integers

CONSTANTS
    FrameLength,    \* the numbers of bytes a frame may have captured
    HeaderWords,    \* values of the 4-bit IHL and TCP data offset
    FieldLength     \* values of the 16-bit length fields of IP and UDP

Uint4 == 0 .. 15
Uint16 == 0 .. 65535
ASSUME FrameAssumption ==
    /\ FrameLength \subseteq Nat
    /\ HeaderWords \subseteq Uint4
    /\ FieldLength \subseteq Uint16

VARIABLES
    frame,      \* the bytes in hand
    at,         \* the function that reads next
    decoded,    \* the PacketDecodeResult, and what the functions pass on
    read_end    \* ghost: the end of the last byte read

decodeVars == <<frame, at, decoded, read_end>>

\* version: the high half of the first byte behind the link header.
Version == {"ipv4", "ipv6", "other"}
Frame == [captured : FrameLength, link : {"Ethernet", "Null"},
          version : Version]
NoFrame == [captured |-> 0, link |-> "Ethernet", version |-> "other"]

\* failed: failure_reason is not None.  network_offset and transport_offset
\* are also the offsets the functions pass on, datagram_end is transport_end;
\* fragment is a ghost.
Fragment == {"none", "first", "later"}
DecodeResult ==
    [success : BOOLEAN, failed : BOOLEAN, ethertype : Version \cup {"vlan"},
     ip_version : {"None", "ipv4", "ipv6"},
     transport : {"None", "tcp", "udp"}, network_offset : Nat,
     transport_offset : Nat, datagram_end : Nat, payload_offset : Nat,
     payload_length : Nat, fragment : Fragment]
NoResult ==
    [success |-> FALSE, failed |-> FALSE, ethertype |-> "other",
     ip_version |-> "None", transport |-> "None",
     network_offset |-> 0, transport_offset |-> 0, datagram_end |-> 0,
     payload_offset |-> 0, payload_length |-> 0, fragment |-> "none"]

HasBytes(offset, count) == offset + count <= frame.captured

-----------------------------------------------------------------------------
(* How a function ends: with an error, or at the next one.                 *)

GoesOn(to, result) == at' = to /\ decoded' = result

\* Mutant: success, which an earlier header set, is not reset.
FailsWithSuccess(result) == GoesOn("done", [result EXCEPT !.failed = TRUE])

FailsWith(result) == GoesOn("done", [result EXCEPT !.success = FALSE,
                                                   !.failed = TRUE])
Fails == FailsWith(decoded)

Reads(end) == read_end' = IF end > read_end THEN end ELSE read_end

DecodeEthernet(ethertype) ==
    /\ at = "link" /\ frame.link = "Ethernet"
    /\ IF HasBytes(0, 14)
       THEN /\ Reads(14)
            /\ GoesOn("network", [decoded EXCEPT !.success = TRUE,
                    !.ethertype = ethertype, !.network_offset = 14])
       ELSE Fails /\ UNCHANGED read_end
    /\ UNCHANGED frame

\* Mutant: a tag is taken without looking whether it is there.
TagFitsUnchecked == TRUE

TagFits == HasBytes(decoded.network_offset, 4)

\* One turn of the VLAN loop.
DecodeTag(ethertype) ==
    /\ at = "network" /\ decoded.ethertype = "vlan"
    /\ IF TagFits
       THEN /\ Reads(decoded.network_offset + 4)
            /\ GoesOn("network", [decoded EXCEPT !.ethertype = ethertype,
                    !.network_offset = @ + 4])
       ELSE Fails /\ UNCHANGED read_end
    /\ UNCHANGED frame

\* Neither a tag nor IP: a result without IP.
DecodeNonIp ==
    /\ at = "network" /\ decoded.ethertype = "other"
    /\ GoesOn("done", decoded)
    /\ UNCHANGED <<frame, read_end>>

\* The loopback header: an address family, which the version behind it may
\* confirm or stand in for, but not contradict.
DecodeNull(family) ==
    /\ at = "link" /\ frame.link = "Null"
    /\ LET nibble == IF HasBytes(4, 1) THEN frame.version ELSE "other"
           version == IF family # "other" THEN family ELSE nibble
           known == [decoded EXCEPT !.success = TRUE, !.ethertype = version,
                                    !.network_offset = 4]
       IN  IF ~HasBytes(0, 4) THEN Fails /\ UNCHANGED read_end
           ELSE /\ Reads(IF HasBytes(4, 1) THEN 5 ELSE 4)
                /\ IF /\ version # "other"
                      /\ nibble \in {version, "other"}
                   THEN GoesOn("network", known) ELSE FailsWith(known)
    /\ UNCHANGED frame

-----------------------------------------------------------------------------
(* IP.                                                                     *)

Ipv4Fits(offset, header, total) ==
    /\ frame.version = "ipv4" /\ header >= 20
    /\ HasBytes(offset, header)
    /\ total >= header /\ HasBytes(offset, total)

\* Mutant: a first fragment passes for a datagram.
FragmentedLater(fragment) == fragment = "later"

\* More fragments follow, or the offset is not 0.
Fragmented(fragment) == fragment # "none"

DecodeIpv4(words, total, fragment, protocol) ==
    /\ at = "network" /\ decoded.ethertype = "ipv4"
    /\ LET offset == decoded.network_offset IN
       IF ~HasBytes(offset, 20) THEN Fails /\ UNCHANGED read_end
       ELSE /\ Reads(offset + 20)
            /\ IF Ipv4Fits(offset, 4 * words, total)
               THEN GoesOn(
                      IF Fragmented(fragment) \/ protocol \notin {"tcp", "udp"}
                      THEN "done" ELSE protocol,
                      [decoded EXCEPT !.success = TRUE, !.ip_version = "ipv4",
                         !.transport_offset = offset + 4 * words,
                         !.datagram_end = offset + total,
                         !.fragment = fragment])
               ELSE Fails
    /\ UNCHANGED frame

\* Mutant: the fixed header is forgotten.
Ipv6FitsPayload(offset, payload) ==
    frame.version = "ipv6" /\ HasBytes(offset, payload)

Ipv6Fits(offset, payload) ==
    frame.version = "ipv6" /\ HasBytes(offset, 40 + payload)

\* Extension headers are not followed: the result keeps the IP fields and is a
\* failure.
DecodeIpv6(payload, protocol) ==
    /\ at = "network" /\ decoded.ethertype = "ipv6"
    /\ LET offset == decoded.network_offset
           ip == [decoded EXCEPT !.success = TRUE, !.ip_version = "ipv6",
                    !.transport_offset = offset + 40,
                    !.datagram_end = offset + 40 + payload]
       IN  IF ~HasBytes(offset, 40) THEN Fails /\ UNCHANGED read_end
           ELSE /\ Reads(offset + 40)
                /\ IF ~Ipv6Fits(offset, payload) THEN Fails
                   ELSE IF protocol = "extension"
                   THEN FailsWith(ip)
                   ELSE GoesOn(IF protocol \in {"tcp", "udp"} THEN protocol
                               ELSE "done", ip)
    /\ UNCHANGED frame

-----------------------------------------------------------------------------
(* Transport.                                                              *)

\* Mutant: a header is looked for in the frame, not in the datagram.
InDatagramOrFrame(offset, count) == HasBytes(offset, count)

InDatagram(offset, count) ==
    HasBytes(offset, count) /\ offset + count <= decoded.datagram_end

Carries(transport, header, payload) ==
    GoesOn("done", [decoded EXCEPT !.transport = transport,
                      !.payload_offset = decoded.transport_offset + header,
                      !.payload_length = payload])

DecodeTcp(words) ==
    /\ at = "tcp"
    /\ LET offset == decoded.transport_offset IN
       IF ~InDatagram(offset, 20) THEN Fails /\ UNCHANGED read_end
       ELSE /\ Reads(offset + 20)
            /\ IF 4 * words < 20 \/ ~InDatagram(offset, 4 * words) THEN Fails
               ELSE Carries("tcp", 4 * words,
                            decoded.datagram_end - (offset + 4 * words))
    /\ UNCHANGED frame

\* The payload ends where the UDP length says, not where the datagram ends.
DecodeUdp(length) ==
    /\ at = "udp"
    /\ LET offset == decoded.transport_offset IN
       IF ~InDatagram(offset, 8) THEN Fails /\ UNCHANGED read_end
       ELSE /\ Reads(offset + 8)
            /\ IF length < 8 \/ offset + length > decoded.datagram_end
               THEN Fails ELSE Carries("udp", 8, length - 8)
    /\ UNCHANGED frame

Protocol == {"tcp", "udp", "extension", "other"}

DecodeStep ==
    \/ \E e \in Version \cup {"vlan"} : DecodeEthernet(e) \/ DecodeTag(e)
    \/ \E v \in Version : DecodeNull(v)
    \/ DecodeNonIp
    \/ \E w \in HeaderWords, n \in FieldLength, f \in Fragment,
          p \in Protocol : DecodeIpv4(w, n, f, p)
    \/ \E n \in FieldLength, p \in Protocol : DecodeIpv6(n, p)
    \/ \E w \in HeaderWords : DecodeTcp(w)
    \/ \E n \in FieldLength : DecodeUdp(n)

-----------------------------------------------------------------------------
(* Properties.                                                             *)

DecodeTypeOK ==
    /\ frame \in Frame \cup {NoFrame}
    /\ at \in {"idle", "link", "network", "tcp", "udp", "done"}
    /\ decoded \in DecodeResult
    /\ read_end \in Nat

\* No byte outside the frame is read, and of a transport header that was found
\* the payload begins behind it and ends inside the IP datagram, whatever the
\* three length fields say (lines 31-35, 76-146).
HeadersNest ==
    /\ read_end <= frame.captured
    /\ decoded.transport # "None" =>
         /\ decoded.network_offset < decoded.transport_offset
         /\ decoded.transport_offset < decoded.payload_offset
         /\ decoded.payload_offset + decoded.payload_length
              <= decoded.datagram_end

\* The two ways the result tells of a failure agree, and a failed result names
\* no transport, though it may keep an IP version (PacketDecode.hpp:65-75).
FailureTold ==
    at = "done" => /\ decoded.failed <=> ~decoded.success
                   /\ decoded.failed => decoded.transport = "None"
=============================================================================
