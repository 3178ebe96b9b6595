--------------------------- MODULE TlsConstrictor ---------------------------
(***************************************************************************)
(* TlsConstrictor::Evaluate (src/policy/TlsConstrictor.cpp): the per       *)
(* direction TLS record tracker that decides, for one TCP packet, whether  *)
(* the tail of its payload may be left out of the output PCAP.             *)
(*                                                                         *)
(* The module is open: a call may bring any packet of any direction, with  *)
(* any sequence number and any flags, and the bytes at the scan position   *)
(* may read as any record header or as none.  Bytes are abstracted to what *)
(* ReadTlsRecordHeader makes of them, and a flow to its pair of endpoints. *)
(* One call is several steps, one per turn of the record loop (lines       *)
(* 188-247), so that its termination is a property and not an assumption.  *)
(***************************************************************************)
EXTENDS Integers, FiniteSets

CONSTANTS
    DirectionKey,       \* <<source endpoint, destination endpoint>> pairs
    HeaderSize,         \* kTlsRecordHeaderSize, 5 in the code
    KeepRecord,         \* config.app_data_keep_record_bytes
    KeepContinuation,   \* config.app_data_continuation_keep_bytes
    RecordLength,       \* the record lengths a header may carry
    MaxPayload,         \* bound on the payload of one packet
    SeqSpace            \* size of the TCP sequence space, 2^32 in the code

Reverse(k) == <<k[2], k[1]>>

ASSUME DirectionKeyAssumption ==
    \A k \in DirectionKey : /\ k = <<k[1], k[2]>>
                            /\ Reverse(k) \in DirectionKey
ASSUME HeaderSizeAssumption == HeaderSize \in Nat \ {0}
ASSUME KeepAssumption == KeepRecord \in Nat /\ KeepContinuation \in Nat
ASSUME RecordLengthAssumption == RecordLength \subseteq Nat
ASSUME BoundsAssumption == MaxPayload \in Nat /\ SeqSpace \in Nat \ {0}

VARIABLES
    directions,      \* directions_: the tracked directions and their state
    pc,              \* "idle" between calls, "scan" inside Evaluate
    packet,          \* Evaluate's argument
    scan,            \* Evaluate's locals
    result,          \* the TlsConstrictResult last returned
    handshake_seen   \* ghost: directions of connections whose handshake was
                     \* read since the last SYN or RST

vars == <<directions, pc, packet, scan, result, handshake_seen>>

-----------------------------------------------------------------------------
(* Data.                                                                   *)

\* "control" stands for ChangeCipherSpec and Alert, which the code treats alike.
ContentType == {"handshake", "app_data", "control"}

\* What ReadTlsRecordHeader returns: a content type and a length, or failure.
NotTls == [type |-> "none", length |-> 0]
Header == [type : ContentType, length : RecordLength]

Seq32 == 0 .. SeqSpace - 1
Packet == [key : DirectionKey, tcp_seq : Seq32, size : 0 .. MaxPayload,
           syn_or_rst : BOOLEAN]

DirectionState ==
    [confirmed_tls : BOOLEAN, synchronized : BOOLEAN, expected_tcp_seq : Seq32,
     has_active_record : BOOLEAN, active_record_remaining_bytes : Nat,
     active_record_constrictible : BOOLEAN]

\* The value operator[] default-constructs.
FreshState ==
    [confirmed_tls |-> FALSE, synchronized |-> FALSE, expected_tcp_seq |-> 0,
     has_active_record |-> FALSE, active_record_remaining_bytes |-> 0,
     active_record_constrictible |-> FALSE]

Disposition == {"NoRecord", "Malformed", "NoApplicationData", "AppDataPrefix"}

\* kept: how much of the payload output_len lets through.
Result == [disposition : Disposition, kept : Nat]

\* outcome: which of the mutually exclusive flags uncertain, reset_direction
\* and kept_middle_continuation is set.
Outcome == {"none", "uncertain", "reset", "middle"}
Scan == [confirmed_tls : BOOLEAN, payload_offset : Nat, candidate : Nat,
         has_candidate : BOOLEAN, outcome : Outcome]

NoPacket == <<>>
NoScan == <<>>

SmallerOf(a, b) == IF a <= b THEN a ELSE b
ClampedKeepSize(configured, available) == SmallerOf(configured, available)
\* Mutant: the sum does not wrap.
AdvanceTcpSeqWide(seq, size) == seq + size

AdvanceTcpSeq(seq, size) == (seq + size) % SeqSpace

(* directions_ as a map: operator[] for reading, assignment, erase.        *)
Entry(d, k) == IF k \in DOMAIN d THEN d[k] ELSE FreshState
Stored(d, k, s) == [j \in DOMAIN d \cup {k} |-> IF j = k THEN s ELSE d[j]]
Erased(d, ks) == [j \in DOMAIN d \ ks |-> d[j]]

\* The lambda clear_active_record.
ClearActive(s) ==
    [s EXCEPT !.has_active_record = FALSE,
              !.active_record_constrictible = FALSE,
              !.active_record_remaining_bytes = 0]

\* Mutants: the open record outlives the loss of sync; no check at all.
CheckSeqKeepsRecord(s, p) ==
    IF s.synchronized /\ p.tcp_seq # s.expected_tcp_seq
    THEN [s EXCEPT !.synchronized = FALSE, !.expected_tcp_seq = 0]
    ELSE s
CheckSeqSkipped(s, p) == s

\* A gap, a retransmission or a reordering: tracking of this direction stops.
CheckSeq(s, p) ==
    IF s.synchronized /\ p.tcp_seq # s.expected_tcp_seq
    THEN [ClearActive(s) EXCEPT !.synchronized = FALSE, !.expected_tcp_seq = 0]
    ELSE s

\* SYN and RST forget both directions of the connection.
Connection(k) == {k, Reverse(k)}
\* Mutant: only the packet's own direction is forgotten.
AfterSynOrRstOneWay(p) == IF p.syn_or_rst THEN Erased(directions, {p.key})
                                          ELSE directions

AfterSynOrRst(p) == IF p.syn_or_rst THEN Erased(directions, Connection(p.key))
                                    ELSE directions
HandshakesAfter(p) == IF p.syn_or_rst THEN handshake_seen \ Connection(p.key)
                                      ELSE handshake_seen

\* The direction's state as the record loop finds it.
Opened(p) == CheckSeq(Entry(AfterSynOrRst(p), p.key), p)

-----------------------------------------------------------------------------
Init ==
    /\ directions = [k \in {} |-> FreshState]
    /\ pc = "idle"
    /\ packet = NoPacket
    /\ scan = NoScan
    /\ result = [disposition |-> "NoRecord", kept |-> 0]
    /\ handshake_seen = {}

-----------------------------------------------------------------------------
(* Entering a call.                                                        *)

\* A segment without payload: only its flags matter.
EvaluateEmpty(p) ==
    /\ pc = "idle"
    /\ p.size = 0
    /\ directions' = AfterSynOrRst(p)
    /\ handshake_seen' = HandshakesAfter(p)
    /\ result' = [disposition |-> "NoApplicationData", kept |-> 0]
    /\ UNCHANGED <<pc, packet, scan>>

\* A segment with payload, up to the record loop: s is the direction's state
\* and scan_ the locals the loop starts from.
Enter(p, s, scan_) ==
    /\ pc = "idle"
    /\ p.size > 0
    /\ pc' = "scan"
    /\ packet' = p
    /\ directions' = Stored(AfterSynOrRst(p), p.key, s)
    /\ handshake_seen' = HandshakesAfter(p)
    /\ scan' = scan_
    /\ result' = [disposition |-> "NoRecord", kept |-> p.size]

FirstScan(p, offset) ==
    [confirmed_tls |-> Entry(AfterSynOrRst(p), p.key).confirmed_tls,
     payload_offset |-> offset, candidate |-> p.size,
     has_candidate |-> FALSE, outcome |-> "none"]

\* No record is open: records are read from the first byte on.
EnterScan(p) ==
    /\ ~Opened(p).has_active_record
    /\ Enter(p, Opened(p), FirstScan(p, 0))

\* Mutant: the bytes this packet holds are not subtracted.
EnterMiddleStuck(p) ==
    LET s == Opened(p) IN
    /\ s.has_active_record
    /\ s.active_record_remaining_bytes > p.size
    /\ Enter(p, s, [FirstScan(p, p.size) EXCEPT !.outcome = "middle"])

\* The open record goes on past this packet.
EnterMiddle(p) ==
    LET s == Opened(p) IN
    /\ s.has_active_record
    /\ s.active_record_remaining_bytes > p.size
    /\ Enter(p, [s EXCEPT !.active_record_remaining_bytes = @ - p.size],
             [FirstScan(p, p.size) EXCEPT
                !.outcome = IF s.active_record_constrictible THEN "middle"
                                                             ELSE "none"])

\* The open record ends exactly where this packet ends.
EnterFinal(p) ==
    LET s == Opened(p) IN
    /\ s.has_active_record
    /\ s.active_record_remaining_bytes = p.size
    /\ Enter(p, ClearActive(s),
             IF s.active_record_constrictible
             THEN [FirstScan(p, p.size) EXCEPT
                     !.candidate = ClampedKeepSize(KeepContinuation, p.size),
                     !.has_candidate = TRUE]
             ELSE FirstScan(p, p.size))

\* Mutant: the records after the open one are scanned instead.
EnterPastScans(p) ==
    LET s == Opened(p) IN
    /\ s.has_active_record
    /\ s.active_record_remaining_bytes < p.size
    /\ Enter(p, ClearActive(s), FirstScan(p, s.active_record_remaining_bytes))

\* The open record ends inside this packet.
EnterPast(p) ==
    LET s == Opened(p) IN
    /\ s.has_active_record
    /\ s.active_record_remaining_bytes < p.size
    /\ Enter(p, ClearActive(s),
             [FirstScan(p, s.active_record_remaining_bytes) EXCEPT
                !.outcome = IF s.active_record_constrictible THEN "reset"
                                                             ELSE "none"])

-----------------------------------------------------------------------------
(* The record loop: one turn reads the header at payload_offset.           *)

State == directions[packet.key]

InLoop ==
    /\ pc = "scan"
    /\ scan.outcome = "none"
    /\ scan.payload_offset < packet.size

\* h can be the outcome of reading the header at payload_offset.
Readable(h) ==
    h # NotTls => scan.payload_offset + HeaderSize <= packet.size

Return(disposition, kept) ==
    /\ pc' = "idle"
    /\ packet' = NoPacket
    /\ scan' = NoScan
    /\ result' = [disposition |-> disposition, kept |-> kept]

\* Mutant: the entry line 134 created is left behind.
GiveUpLeaky(h) ==
    /\ InLoop
    /\ Readable(h)
    /\ ~State.synchronized
    /\ \/ h = NotTls
       \/ h.type # "handshake" /\ ~scan.confirmed_tls
    /\ Return("NoRecord", packet.size)
    /\ UNCHANGED <<directions, handshake_seen>>

\* Not in sync and no header here: the call gives the direction up, and
\* forgets it if no handshake was known when the call began.
GiveUp(h) ==
    /\ InLoop
    /\ Readable(h)
    /\ ~State.synchronized
    /\ \/ h = NotTls
       \/ h.type # "handshake" /\ ~scan.confirmed_tls
    /\ directions' = IF scan.confirmed_tls THEN directions
                     ELSE Erased(directions, {packet.key})
    /\ Return("NoRecord", packet.size)
    /\ UNCHANGED handshake_seen

\* In sync, but no header where the next record should start.
LoseTrack(h) ==
    /\ InLoop
    /\ h = NotTls
    /\ State.synchronized
    /\ scan' = [scan EXCEPT !.outcome = "uncertain"]
    /\ UNCHANGED <<directions, pc, packet, result, handshake_seen>>

Accepted(h) ==
    /\ InLoop
    /\ Readable(h)
    /\ h # NotTls
    /\ State.synchronized \/ h.type = "handshake" \/ scan.confirmed_tls

\* Mutant: a handshake confirms its own direction only.
ConfirmedOneWay(h) ==
    Stored(directions, packet.key,
           [State EXCEPT !.synchronized = TRUE,
                         !.confirmed_tls = @ \/ h.type = "handshake"])

\* directions_ once header h is accepted: this direction is in sync, and a
\* handshake confirms it and its reverse.
Confirmed(h) ==
    LET k == packet.key
        s == [State EXCEPT !.synchronized = TRUE,
                           !.confirmed_tls = @ \/ h.type = "handshake"]
        d == Stored(directions, k, s)
        r == [Entry(d, Reverse(k)) EXCEPT !.confirmed_tls = TRUE]
    IN  IF h.type = "handshake" THEN Stored(d, Reverse(k), r) ELSE d

HandshakesWith(h) ==
    IF h.type = "handshake" THEN handshake_seen \cup Connection(packet.key)
                            ELSE handshake_seen

\* Mutant: an empty record takes no room.
RecordTotalSizeOfBody(h) == IF h.length = 0 THEN 0 ELSE HeaderSize + h.length
RecordTotalSize(h) == HeaderSize + h.length
RemainingPayload == packet.size - scan.payload_offset

\* Mutants: the cut is counted from the payload's start; any record is cut.
ScanAfterFromStart(h, here) ==
    IF h.type = "app_data"
    THEN [scan EXCEPT !.payload_offset = @ + here,
                      !.candidate = ClampedKeepSize(KeepRecord, here),
                      !.has_candidate = TRUE]
    ELSE [scan EXCEPT !.payload_offset = @ + here]
ScanAfterAnyType(h, here) ==
    [scan EXCEPT
       !.payload_offset = @ + here,
       !.candidate = scan.payload_offset + ClampedKeepSize(KeepRecord, here),
       !.has_candidate = TRUE]

\* The locals after a record of which this packet holds `here` bytes.
ScanAfter(h, here) ==
    IF h.type = "app_data"
    THEN [scan EXCEPT
            !.payload_offset = @ + here,
            !.candidate = scan.payload_offset + ClampedKeepSize(KeepRecord, here),
            !.has_candidate = TRUE]
    ELSE [scan EXCEPT !.payload_offset = @ + here]

\* The record goes on past this packet and becomes the open record.
OpenRecord(h) ==
    /\ Accepted(h)
    /\ RecordTotalSize(h) > RemainingPayload
    /\ directions' =
         LET d == Confirmed(h) IN
         [d EXCEPT ![packet.key] =
            [@ EXCEPT !.has_active_record = TRUE,
                      !.active_record_remaining_bytes =
                          RecordTotalSize(h) - RemainingPayload,
                      !.active_record_constrictible = (h.type = "app_data")]]
    /\ scan' = ScanAfter(h, RemainingPayload)
    /\ handshake_seen' = HandshakesWith(h)
    /\ UNCHANGED <<pc, packet, result>>

\* The record lies whole in this packet.
SkipRecord(h) ==
    /\ Accepted(h)
    /\ RecordTotalSize(h) <= RemainingPayload
    /\ directions' = Confirmed(h)
    /\ scan' = ScanAfter(h, RecordTotalSize(h))
    /\ handshake_seen' = HandshakesWith(h)
    /\ UNCHANGED <<pc, packet, result>>

-----------------------------------------------------------------------------
(* After the loop: expected_tcp_seq advances and the flags decide.         *)

LoopDone == pc = "scan" /\ ~InLoop

Advanced == [State EXCEPT !.expected_tcp_seq =
                            AdvanceTcpSeq(packet.tcp_seq, packet.size)]

\* Lines 251-261: the direction starts over, keeping only its confirmation.
FinishReset ==
    /\ LoopDone
    /\ scan.outcome = "reset"
    /\ directions' =
         IF State.confirmed_tls
         THEN Stored(directions, packet.key,
                     [FreshState EXCEPT !.confirmed_tls = TRUE])
         ELSE Erased(directions, {packet.key})
    /\ Return("NoApplicationData", packet.size)
    /\ UNCHANGED handshake_seen

Finish(disposition, kept) ==
    /\ directions' = Stored(directions, packet.key, Advanced)
    /\ Return(disposition, kept)
    /\ UNCHANGED handshake_seen

FinishUncertain ==
    /\ LoopDone
    /\ scan.outcome = "uncertain"
    /\ Finish("Malformed", packet.size)

FinishMiddle ==
    /\ LoopDone
    /\ scan.outcome = "middle"
    /\ Finish("NoApplicationData", packet.size)

\* A candidate cut shorter than the payload.
Cuttable ==
    State.synchronized /\ scan.has_candidate /\ scan.candidate < packet.size

FinishWhole ==
    /\ LoopDone
    /\ scan.outcome = "none"
    /\ ~Cuttable
    /\ Finish(IF State.synchronized THEN "NoApplicationData" ELSE "NoRecord",
              packet.size)

FinishPrefix ==
    /\ LoopDone
    /\ scan.outcome = "none"
    /\ Cuttable
    /\ Finish("AppDataPrefix", scan.candidate)

-----------------------------------------------------------------------------
(* A call begins; a turn of the loop reads h; the call ends.               *)

Begin(p) ==
    EvaluateEmpty(p) \/ EnterScan(p) \/ EnterMiddle(p) \/ EnterFinal(p)
                     \/ EnterPast(p)

ReadRecord(h) == GiveUp(h) \/ LoseTrack(h) \/ OpenRecord(h) \/ SkipRecord(h)

End == FinishReset \/ FinishUncertain \/ FinishMiddle \/ FinishWhole
                   \/ FinishPrefix

Next ==
    \/ \E p \in Packet : Begin(p)
    \/ \E h \in Header \cup {NotTls} : ReadRecord(h)
    \/ End

Spec == Init /\ [][Next]_vars

-----------------------------------------------------------------------------
(* Properties.                                                             *)

\* The variables have the types the code declares, locals while a call runs;
\* the direction a call works on is tracked until the call ends.
TypeOK ==
    /\ DOMAIN directions \subseteq DirectionKey
    /\ \A k \in DOMAIN directions : directions[k] \in DirectionState
    /\ pc \in {"idle", "scan"}
    /\ result \in Result
    /\ handshake_seen \subseteq DirectionKey
    /\ IF pc = "scan"
       THEN /\ packet \in Packet
            /\ packet.key \in DOMAIN directions
            /\ scan \in Scan
       ELSE packet = NoPacket /\ scan = NoScan

\* Between calls every tracked direction is confirmed TLS and its reverse is
\* tracked too: directions_ holds no leftovers of traffic that is not TLS
\* (operator[] of line 134 against the erases of lines 120-121, 194, 204, 254).
DirectionsPaired ==
    pc = "idle" =>
        \A k \in DOMAIN directions :
            /\ directions[k].confirmed_tls
            /\ Reverse(k) \in DOMAIN directions

\* An open record always has bytes left and belongs to a direction in sync, so
\* no branch of lines 159-186 subtracts below zero or resumes a lost stream.
ActiveRecordSound ==
    \A k \in DOMAIN directions :
        directions[k].has_active_record =>
            /\ directions[k].synchronized
            /\ directions[k].active_record_remaining_bytes > 0

\* The call that ends in this step decides to cut.
Cuts == pc = "scan" /\ pc' = "idle" /\ result'.disposition = "AppDataPrefix"

\* A payload is cut only on a connection whose handshake was read, in one of
\* its directions, since the last SYN or RST (lines 119-122 and 203-213).
CutNeedsHandshake == [][Cuts => packet.key \in handshake_seen]_vars

\* Confirmation is lost to a SYN or RST of the connection only: no loss,
\* reordering, garbage or reset of a direction (lines 251-261) forgets it.
Forgets(k) ==
    /\ k \in DOMAIN directions
    /\ directions[k].confirmed_tls
    /\ ~Entry(directions', k).confirmed_tls
ConfirmationDurable ==
    [][\A k \in DirectionKey : Forgets(k) =>
         \E p \in Packet : p.syn_or_rst /\ k \in Connection(p.key) /\ Begin(p)]_vars

\* Each turn of the record loop leaves it, sets the flag that stops it, or
\* moves the scan position on, and never behind the payload: a call reads at
\* most as many headers as it has bytes (lines 188-247).
LoopAdvances ==
    [][InLoop => \/ pc' = "idle"
                 \/ scan'.outcome # "none"
                 \/ /\ scan'.payload_offset > scan.payload_offset
                    /\ scan'.payload_offset <= packet.size]_vars

\* The constrictor keeps what TlsContract promises: the confirmed directions
\* are those of connections with a handshake since their last SYN or RST, both
\* or none of them, and a cut of one of these keeps what is configured, or a
\* whole record that is shorter (lines 60-62, 168-176, 203-246).
Contract == INSTANCE TlsContract WITH
    known <- {k \in DOMAIN directions : directions[k].confirmed_tls},
    verdict <- [cut |-> result.disposition = "AppDataPrefix",
                kept |-> result.kept]
ImplementsContract == Contract!ContractSpec
=============================================================================
