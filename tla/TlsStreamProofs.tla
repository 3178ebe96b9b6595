--------------------------- MODULE TlsStreamProofs ---------------------------
(***************************************************************************)
(* TlsConstrictor against true record streams, for every set of            *)
(* connections, stream, initial sequence number, keep size and payload     *)
(* bound, and for any loss, repetition and reordering of segments.         *)
(*                                                                         *)
(* ActiveRecordAligned speaks of the state between calls only.  StreamInv  *)
(* adds what the locals of a running call mean in the stream: where the    *)
(* scan stands, which records the candidate cut covers, and that the       *)
(* record of the direction's state is the one that goes on behind the      *)
(* packet.  It rests on two facts: a position of the stream has one        *)
(* sequence number (SeqOfInjective), and one record (OneRecord).           *)
(***************************************************************************)
EXTENDS TlsStream, TlsConstrictorProofs

AppData(r) == r.type = "app_data"

\* The position where the bytes of the open record in state s go on.
ResumesAt(r, s) == End_(r) - s.active_record_remaining_bytes

\* r is the open record of state s, with its next byte at position i.
OpenAt(r, s, i) ==
    /\ ResumesAt(r, s) = i
    /\ r.at + HeaderSize <= i /\ i < End_(r)
    /\ s.active_record_constrictible <=> AppData(r)

\* The running call works on a segment of the stream.
SegmentCall ==
    /\ from \in Nat /\ PacketEnd <= StreamLength(Stream(packet.key))
    /\ packet.tcp_seq = SeqOf(packet.key, from)
    /\ scan.payload_offset <= packet.size

\* A record opened or resumed in this packet goes on behind it.
OpenBehind ==
    State.has_active_record =>
        /\ scan.payload_offset = packet.size
        /\ \E r \in Stream(packet.key) : OpenAt(r, State, PacketEnd)

\* What the cut of the call must keep of the records read so far.
StartsCovered ==
    \A r \in Stream(packet.key) :
        (AppData(r) /\ from <= r.at /\ r.at < from + scan.payload_offset) =>
           scan.candidate >= (r.at - from) +
              ClampedKeepSize(KeepRecord, SmallerOf(r.total, PacketEnd - r.at))

Straddles(r) == r.at < from /\ from < End_(r)

\* A cut of a packet that begins inside a record of Application Data.
StraddlerFinal ==
    \A r \in Stream(packet.key) :
        (AppData(r) /\ Straddles(r)) =>
            /\ PacketEnd = End_(r)
            /\ scan.candidate = ClampedKeepSize(KeepContinuation, packet.size)
            /\ scan.payload_offset = packet.size

CandidateSound ==
    (scan.outcome = "none" /\ scan.has_candidate) =>
        /\ StartsCovered
        /\ \E r \in Stream(packet.key) : AppData(r) /\ InPacket(r)
        /\ StraddlerFinal

\* Past the first record, no Application Data record straddles the packet's start.
NoStraddler ==
    (/\ scan.outcome = "none"
     /\ 0 < scan.payload_offset /\ scan.payload_offset < packet.size) =>
        \A r \in Stream(packet.key) : ~(AppData(r) /\ Straddles(r))

\* The packet starts with r, and holds nothing else.
Whole(r) ==
    /\ AppData(r) /\ r.at = from /\ PacketEnd <= End_(r)
    /\ HeaderSize <= packet.size /\ KeepRecord < packet.size

WholeCut ==
    (scan.confirmed_tls /\ \E r \in Stream(packet.key) : Whole(r)) =>
        /\ scan.outcome = "none"
        /\ \/ scan.payload_offset = 0 /\ ~scan.has_candidate
           \/ /\ scan.payload_offset = packet.size
              /\ scan.has_candidate /\ scan.candidate = KeepRecord
              /\ State.synchronized

CallAligned ==
    /\ SegmentCall /\ OpenBehind /\ CandidateSound /\ NoStraddler /\ WholeCut

SidesSound ==
    /\ connection \in [DirectionKey -> Side]
    /\ \A k \in DirectionKey : WellFormed(connection[k])

\* Every open record but the one of the running call is aligned.
OthersAligned ==
    \A k \in DOMAIN directions :
        (pc = "idle" \/ k # packet.key) => Aligned(k, directions[k])

StreamInv ==
    /\ SidesSound
    /\ OthersAligned
    /\ pc = "scan" => CallAligned

-----------------------------------------------------------------------------
(* Sequence numbers.                                                       *)

\* What division by the size of the sequence space returns.
LEMMA DivisionFacts ==
    ASSUME NEW a \in Int
    PROVE  /\ a \div SeqSpace \in Int
           /\ a % SeqSpace \in 0 .. SeqSpace - 1
           /\ a = SeqSpace * (a \div SeqSpace) + (a % SeqSpace)
BY BoundsAssumption

\* Numbers closer than SeqSpace that differ by a multiple of it are equal.
LEMMA CloseMultiple ==
    ASSUME NEW d \in Int, NEW x \in 0 .. SeqSpace - 1,
           NEW y \in 0 .. SeqSpace - 1, x - y = SeqSpace * d
    PROVE  x = y
<1>1. d > 0 => SeqSpace * d >= SeqSpace
  BY BoundsAssumption
<1>2. d < 0 => SeqSpace * d <= -SeqSpace
  BY BoundsAssumption
<1>3. d = 0 => SeqSpace * d = 0
  BY BoundsAssumption
<1>4. SeqSpace * d \in Int /\ (d > 0 \/ d < 0 \/ d = 0)
  BY BoundsAssumption
<1> QED  BY <1>1, <1>2, <1>3, <1>4, BoundsAssumption

\* Reducing first and adding then is adding first.
LEMMA ReducedSum ==
    ASSUME NEW a \in Int, NEW n \in Int
    PROVE  ((a % SeqSpace) + n) % SeqSpace = (a + n) % SeqSpace
<1> DEFINE c == a % SeqSpace
           m1 == (c + n) % SeqSpace
           m2 == (a + n) % SeqSpace
<1>1. c \in Int
  BY DivisionFacts
<1>2. PICK q \in Int : a = SeqSpace * q + c
  BY DivisionFacts
<1>3. c + n \in Int /\ a + n \in Int
  BY <1>1
<1>4. /\ m1 \in 0 .. SeqSpace - 1
      /\ \E q1 \in Int : c + n = SeqSpace * q1 + m1
  BY <1>3, DivisionFacts
<1>5. /\ m2 \in 0 .. SeqSpace - 1
      /\ \E q2 \in Int : a + n = SeqSpace * q2 + m2
  BY <1>3, DivisionFacts
<1> HIDE DEF c, m1, m2
<1>6. PICK q1 \in Int : c + n = SeqSpace * q1 + m1
  BY <1>4
<1>7. PICK q2 \in Int : a + n = SeqSpace * q2 + m2
  BY <1>5
<1>8. m1 - m2 = SeqSpace * (q2 - q1 - q)
  BY <1>1, <1>2, <1>4, <1>5, <1>6, <1>7, BoundsAssumption
<1>9. m1 = m2
  BY <1>4, <1>5, <1>8, CloseMultiple
<1> QED  BY <1>9 DEF c, m1, m2

\* A position of the stream has one sequence number: AdvanceTcpSeq moves along
\* the stream, across the wrap too.
LEMMA SeqOfAdvances ==
    ASSUME NEW k, connection[k].isn \in Seq32, NEW i \in Nat, NEW n \in Nat
    PROVE  /\ SeqOf(k, i) \in Seq32
           /\ AdvanceTcpSeq(SeqOf(k, i), n) = SeqOf(k, i + n)
<1> DEFINE a == connection[k].isn + 1 + i
<1>1. a \in Int /\ connection[k].isn + 1 + (i + n) = a + n
  BY DEF Seq32
<1>2. SeqOf(k, i) = a % SeqSpace /\ SeqOf(k, i + n) = (a + n) % SeqSpace
  BY <1>1 DEF SeqOf
<1> HIDE DEF a
<1>3. a % SeqSpace \in Seq32
  BY <1>1, DivisionFacts DEF Seq32
<1> QED  BY <1>1, <1>2, <1>3, ReducedSum DEF AdvanceTcpSeq

\* And a sequence number has one position in the stream.
LEMMA SeqOfInjective ==
    ASSUME NEW k, connection[k].isn \in Seq32,
           NEW i \in 0 .. SeqSpace - 1, NEW j \in 0 .. SeqSpace - 1,
           SeqOf(k, i) = SeqOf(k, j)
    PROVE  i = j
<1> DEFINE a == connection[k].isn + 1
<1>1. a \in Int /\ a + i \in Int /\ a + j \in Int
  BY DEF Seq32
<1>2. (a + i) % SeqSpace = (a + j) % SeqSpace
  BY DEF SeqOf
<1> HIDE DEF a
<1>3. PICK q1 \in Int : a + i = SeqSpace * q1 + ((a + i) % SeqSpace)
  BY <1>1, DivisionFacts
<1>4. PICK q2 \in Int : a + j = SeqSpace * q2 + ((a + i) % SeqSpace)
  BY <1>1, <1>2, DivisionFacts
<1>5. (a + i) % SeqSpace \in Int
  BY <1>1, DivisionFacts
<1>6. i - j = SeqSpace * (q1 - q2)
  BY <1>1, <1>3, <1>4, <1>5, BoundsAssumption
<1> QED  BY <1>6, CloseMultiple

-----------------------------------------------------------------------------
(* Streams.                                                                *)

\* The records of a stream are not empty and lie inside it.
LEMMA RecordFacts ==
    ASSUME SidesSound, NEW k \in DirectionKey
    PROVE  /\ connection[k].isn \in Seq32
           /\ StreamLength(Stream(k)) \in Nat
           /\ StreamLength(Stream(k)) + 1 < SeqSpace
           /\ \A r \in Stream(k) :
                /\ r.type \in ContentType /\ r.at \in Nat /\ r.total \in Nat
                /\ r.total - HeaderSize \in RecordLength
                /\ r.total >= HeaderSize
                /\ End_(r) \in Nat /\ r.at < End_(r)
                /\ End_(r) <= StreamLength(Stream(k))
<1> DEFINE S == Stream(k)
<1>1. /\ S \subseteq RecordSet /\ connection[k].isn \in Seq32
      /\ WellFormed(connection[k])
  BY DEF SidesSound, Side, Stream
<1>2. ASSUME NEW r \in S
      PROVE  /\ r.type \in ContentType /\ r.at \in Nat /\ r.total \in Nat
             /\ r.total - HeaderSize \in RecordLength
             /\ r.total >= HeaderSize
             /\ End_(r) \in Nat /\ r.at < End_(r)
  <2>1. /\ r.type \in ContentType /\ r.at \in Nat /\ r.total \in Nat
        /\ r.total - HeaderSize \in RecordLength
    BY <1>1 DEF RecordSet
  <2> QED  BY <2>1, RecordLengthAssumption, HeaderSizeAssumption DEF End_
<1>3. \E n \in {0} \cup {End_(r) : r \in S} : EndsAt(S, n)
  BY <1>1 DEF WellFormed, Stream
<1>4. /\ StreamLength(S) \in {0} \cup {End_(r) : r \in S}
      /\ EndsAt(S, StreamLength(S))
  BY <1>3 DEF StreamLength
<1>5. StreamLength(S) + 1 < SeqSpace
  BY <1>1 DEF WellFormed, Stream
<1> QED  BY <1>1, <1>2, <1>4, <1>5 DEF EndsAt

\* A position of the stream lies in one record.
LEMMA OneRecord ==
    ASSUME SidesSound, NEW k \in DirectionKey, NEW r \in Stream(k),
           NEW q \in Stream(k), NEW i \in Int, Covers(r, i), Covers(q, i)
    PROVE  r = q
<1>1. i \in 0 .. StreamLength(Stream(k)) - 1
  BY RecordFacts DEF Covers
<1>2. Tiles(Stream(k))
  BY DEF SidesSound, WellFormed, Stream
<1>3. PICK w \in Stream(k) : \A x \in Stream(k) \ {w} : ~Covers(x, i)
  BY <1>1, <1>2 DEF Tiles
<1> QED  BY <1>3

\* Records do not overlap: of two, one ends before the other starts.
LEMMA Disjoint ==
    ASSUME SidesSound, NEW k \in DirectionKey, NEW r \in Stream(k),
           NEW q \in Stream(k)
    PROVE  \/ r = q
           \/ End_(r) <= q.at
           \/ End_(q) <= r.at
<1>1. /\ r.at \in Nat /\ End_(r) \in Nat /\ r.at < End_(r)
      /\ q.at \in Nat /\ End_(q) \in Nat /\ q.at < End_(q)
  BY RecordFacts
<1>2. Covers(r, r.at) /\ Covers(q, q.at)
  BY <1>1 DEF Covers
<1>3. Covers(q, r.at) \/ Covers(r, q.at) \/ End_(r) <= q.at \/ End_(q) <= r.at
  BY <1>1 DEF Covers
<1> QED  BY <1>1, <1>2, <1>3, OneRecord

-----------------------------------------------------------------------------
(* Entering a call.                                                        *)

Segment(k, f, n) ==
    [key |-> k, tcp_seq |-> SeqOf(k, f), size |-> n, syn_or_rst |-> FALSE]

\* A state without an open record is aligned, and only the fields of the open
\* record matter.
LEMMA AlignedFields ==
    ASSUME NEW k, NEW s, NEW t, Aligned(k, s),
           t.has_active_record =>
              /\ s.has_active_record
              /\ t.active_record_remaining_bytes = s.active_record_remaining_bytes
              /\ t.active_record_constrictible = s.active_record_constrictible
              /\ t.expected_tcp_seq = s.expected_tcp_seq
    PROVE  Aligned(k, t)
BY DEF Aligned

\* If the direction's record is still open after the sequence check of lines
\* 146-150, the segment goes on inside it.
LEMMA OpenedAligned ==
    ASSUME Inv, StreamInv, pc = "idle", NEW k \in DirectionKey,
           NEW f \in 0 .. StreamLength(Stream(k)), NEW n,
           Opened(Segment(k, f, n)).has_active_record
    PROVE  \E r \in Stream(k) : OpenAt(r, Opened(Segment(k, f, n)), f)
<1> DEFINE p == Segment(k, f, n)
           s == Entry(directions, k)
<1>1. AfterSynOrRst(p) = directions /\ p.key = k /\ p.tcp_seq = SeqOf(k, f)
  BY DEF AfterSynOrRst, Segment
<1>2. TypedMap(directions) /\ StatesSound(directions)
  BY TypeOKMap DEF Inv
<1>3. s \in DirectionState /\ StateSound(s)
  BY <1>2, EntryFacts
<1>4. Opened(p) = CheckSeq(s, p)
  BY <1>1 DEF Opened
<1> HIDE DEF p, s
<1>5. ~(s.synchronized /\ p.tcp_seq # s.expected_tcp_seq)
  <2>1. SUFFICES ASSUME s.synchronized /\ p.tcp_seq # s.expected_tcp_seq
                 PROVE  ~Opened(p).has_active_record
    BY DEF p
  <2> DEFINE c == ClearActive(s)
  <2>2. c \in DirectionState /\ ~c.has_active_record
    BY <1>3, ClearActiveFacts
  <2>3. Opened(p) = [c EXCEPT !.synchronized = FALSE, !.expected_tcp_seq = 0]
    BY <1>4, <2>1 DEF CheckSeq
  <2> HIDE DEF c
  <2> QED  BY <2>2, <2>3 DEF DirectionState
<1>6. Opened(p) = s
  BY <1>4, <1>5 DEF CheckSeq
<1>7. s.has_active_record /\ p.tcp_seq = s.expected_tcp_seq
  BY <1>3, <1>5, <1>6 DEF StateSound, p
<1>8. k \in DOMAIN directions /\ s = directions[k]
  BY <1>7 DEF s, Entry, FreshState
<1>9. Aligned(k, s)
  BY <1>8 DEF StreamInv, OthersAligned
<1>10. SidesSound
  BY DEF StreamInv
<1>11. PICK r \in Stream(k) :
         /\ r.at + HeaderSize <= ResumesAt(r, s) /\ ResumesAt(r, s) < End_(r)
         /\ s.expected_tcp_seq = SeqOf(k, ResumesAt(r, s))
         /\ s.active_record_constrictible <=> AppData(r)
  BY <1>7, <1>9 DEF Aligned, ResumesAt, AppData
<1>12. s.active_record_remaining_bytes \in Nat
  BY <1>3 DEF DirectionState
<1>13. ResumesAt(r, s) \in 0 .. StreamLength(Stream(k))
  BY <1>10, <1>11, <1>12, RecordFacts, HeaderSizeAssumption DEF ResumesAt
<1>14. /\ ResumesAt(r, s) \in 0 .. SeqSpace - 1 /\ f \in 0 .. SeqSpace - 1
       /\ connection[k].isn \in Seq32
  <2>1. /\ StreamLength(Stream(k)) \in Nat
        /\ StreamLength(Stream(k)) + 1 < SeqSpace
        /\ connection[k].isn \in Seq32
    BY <1>10, RecordFacts
  <2> QED  BY <1>13, <2>1, BoundsAssumption
<1>15. SeqOf(k, f) = SeqOf(k, ResumesAt(r, s))
  BY <1>1, <1>7, <1>11
<1>16. ResumesAt(r, s) = f
  BY <1>14, <1>15, SeqOfInjective
<1>17. OpenAt(r, s, f)
  BY <1>11, <1>16 DEF OpenAt
<1> QED  BY <1>6, <1>17 DEF p

\* What entering the loop leaves to the branch taken: the call's own facts.
LEMMA EnterAligned ==
    ASSUME Inv, StreamInv, NEW k \in DirectionKey, NEW f, NEW n,
           NEW s, NEW sc, Enter(Segment(k, f, n), s, sc),
           from' = f, UNCHANGED connection, CallAligned'
    PROVE  StreamInv'
<1> DEFINE p == Segment(k, f, n)
<1>1. /\ pc = "idle" /\ pc' = "scan" /\ packet' = p /\ p.key = k
      /\ directions' = Stored(directions, k, s)
  BY DEF Enter, AfterSynOrRst, Segment
<1>2. SidesSound'
  BY DEF StreamInv, SidesSound
<1>3. ASSUME NEW j \in DOMAIN directions', j # k
      PROVE  /\ j \in DOMAIN directions /\ directions'[j] = directions[j]
             /\ Aligned(j, directions[j])
  BY <1>1, <1>3 DEF Stored, StreamInv, OthersAligned
<1>4. OthersAligned'
  <2> SUFFICES ASSUME NEW j \in DOMAIN directions',
                      ~(pc' = "idle") => j # packet'.key
               PROVE  Aligned(j, directions[j])'
    BY DEF OthersAligned
  <2>1. /\ directions'[j] = directions[j] /\ Aligned(j, directions[j])
    BY <1>1, <1>3
  <2> QED  BY <2>1 DEF Aligned, Stream, SeqOf
<1> QED  BY <1>2, <1>4 DEF StreamInv

\* The record that goes on from the packet's start straddles it, and no other
\* record does, nor does one start there.
LEMMA OpenIsStraddler ==
    ASSUME SidesSound, NEW k \in DirectionKey, NEW s, NEW f \in Nat,
           NEW q \in Stream(k), OpenAt(q, s, f)
    PROVE  /\ q.at < f /\ f < End_(q)
           /\ \A r \in Stream(k) : Covers(r, f) => r = q
           /\ \A r \in Stream(k) : r.at = f => FALSE
<1>1. q.at < f /\ f < End_(q) /\ Covers(q, f)
  BY RecordFacts, HeaderSizeAssumption DEF OpenAt, Covers
<1>2. \A r \in Stream(k) : Covers(r, f) => r = q
  BY <1>1, OneRecord
<1>3. \A r \in Stream(k) : r.at = f => Covers(r, f)
  BY RecordFacts DEF Covers
<1> QED  BY <1>1, <1>2, <1>3

\* Facts that all four branches share.
LEMMA SegmentFacts ==
    ASSUME StreamInv, NEW k \in DirectionKey,
           NEW f \in 0 .. StreamLength(Stream(k)),
           NEW n \in 0 .. SmallerOf(MaxPayload, StreamLength(Stream(k)) - f),
           NEW s, NEW sc, Enter(Segment(k, f, n), s, sc),
           from' = f, UNCHANGED connection, sc.payload_offset \in 0 .. n
    PROVE  /\ packet' = Segment(k, f, n) /\ scan' = sc
           /\ (packet.key)' = k /\ (packet.size)' = n /\ PacketEnd' = f + n
           /\ State' = s /\ n > 0
           /\ Stream(packet.key)' = Stream(k)
           /\ SegmentCall'
<1>1. StreamLength(Stream(k)) \in Nat
  BY RecordFacts DEF StreamInv
<1>2. n \in Nat /\ f \in Nat /\ f + n <= StreamLength(Stream(k))
  BY <1>1, BoundsAssumption DEF SmallerOf
<1>3. /\ packet' = Segment(k, f, n) /\ scan' = sc /\ n > 0
      /\ directions' = Stored(AfterSynOrRst(Segment(k, f, n)), k, s)
  BY DEF Enter, Segment
<1>4. State' = s
  BY <1>3 DEF State, Stored, Segment
<1>5. (packet.key)' = k /\ (packet.size)' = n /\ (packet.tcp_seq)' = SeqOf(k, f)
  BY <1>3 DEF Segment
<1>6. PacketEnd' = f + n /\ Stream(packet.key)' = Stream(k)
  BY <1>5 DEF PacketEnd, Stream
<1>7. SeqOf(packet.key, from)' = SeqOf(k, f)
  BY <1>5 DEF SeqOf
<1>8. SegmentCall'
  BY <1>2, <1>3, <1>5, <1>6, <1>7 DEF SegmentCall
<1> QED  BY <1>3, <1>4, <1>5, <1>6, <1>8

\* No record is open: the scan starts with the packet.
LEMMA EnterScanAligned ==
    ASSUME Inv, StreamInv, NEW k \in DirectionKey,
           NEW f \in 0 .. StreamLength(Stream(k)),
           NEW n \in 0 .. SmallerOf(MaxPayload, StreamLength(Stream(k)) - f),
           EnterScan(Segment(k, f, n)), from' = f, UNCHANGED connection
    PROVE  StreamInv'
<1> DEFINE p == Segment(k, f, n)
           s == Opened(p)
           sc == FirstScan(p, 0)
<1>1. ~s.has_active_record /\ Enter(Segment(k, f, n), s, sc)
  BY DEF EnterScan
<1>2. sc.payload_offset = 0 /\ sc.has_candidate = FALSE /\ sc.outcome = "none"
  BY DEF FirstScan
<1> HIDE DEF s, sc
<1>3. 0 \in 0 .. n
  BY BoundsAssumption, RecordFacts DEF SmallerOf, StreamInv
<1>4. scan' = sc /\ State' = s /\ SegmentCall'
  BY <1>1, <1>2, <1>3, SegmentFacts
<1>5. CallAligned'
  BY <1>1, <1>2, <1>4
     DEF CallAligned, OpenBehind, CandidateSound, NoStraddler, WholeCut
<1> QED  BY <1>1, <1>5, EnterAligned

\* The open record goes on past the packet.
LEMMA EnterMiddleAligned ==
    ASSUME Inv, StreamInv, NEW k \in DirectionKey,
           NEW f \in 0 .. StreamLength(Stream(k)),
           NEW n \in 0 .. SmallerOf(MaxPayload, StreamLength(Stream(k)) - f),
           EnterMiddle(Segment(k, f, n)), from' = f, UNCHANGED connection
    PROVE  StreamInv'
<1> DEFINE p == Segment(k, f, n)
           s == Opened(p)
           w == IF s.active_record_constrictible THEN "middle" ELSE "none"
           t == [s EXCEPT !.active_record_remaining_bytes = @ - n]
           sc == [FirstScan(p, n) EXCEPT !.outcome = w]
<1>1. /\ pc = "idle" /\ s.has_active_record
      /\ s.active_record_remaining_bytes > n
      /\ Enter(Segment(k, f, n), t, sc)
  BY DEF EnterMiddle, Enter, Segment
<1>2. sc.payload_offset = n /\ sc.has_candidate = FALSE
  BY DEF FirstScan
<1>3. PICK q \in Stream(k) : OpenAt(q, s, f)
  BY <1>1, OpenedAligned
<1>4. StreamLength(Stream(k)) \in Nat /\ SidesSound
  BY RecordFacts DEF StreamInv
<1>5. f \in Nat /\ n \in Nat /\ n \in 0 .. n
  BY <1>4, BoundsAssumption DEF SmallerOf
<1>6. s \in DirectionState
  <2>1. p \in Packet
    BY <1>1, <1>4, <1>5, RecordFacts, SeqOfAdvances, BoundsAssumption
       DEF Packet, Segment, SmallerOf
  <2> QED  BY <2>1, OpenedFacts, TypeOKMap DEF Inv
<1> HIDE DEF s, sc
<1>7. OpenAt(q, t, f + n)
  BY <1>1, <1>3, <1>4, <1>5, <1>6, RecordFacts, HeaderSizeAssumption
     DEF OpenAt, ResumesAt, DirectionState
<1> HIDE DEF t
<1>8. /\ scan' = sc /\ State' = t /\ SegmentCall'
      /\ PacketEnd' = f + n /\ Stream(packet.key)' = Stream(k)
      /\ packet'.size = n
  BY <1>1, <1>2, <1>5, SegmentFacts
<1>9. ~\E r \in Stream(k) : r.at = f
  BY <1>3, <1>4, <1>5, OpenIsStraddler
<1>10. OpenBehind'
  BY <1>2, <1>7, <1>8 DEF OpenBehind, OpenAt, ResumesAt, AppData, End_
<1>11. WholeCut'
  BY <1>8, <1>9 DEF WholeCut, Whole
<1>12. CandidateSound' /\ NoStraddler'
  BY <1>2, <1>5, <1>8 DEF CandidateSound, NoStraddler
<1>13. CallAligned'
  BY <1>8, <1>10, <1>11, <1>12 DEF CallAligned
<1> QED  BY <1>1, <1>13, EnterAligned

\* The open record ends with the packet.
LEMMA EnterFinalAligned ==
    ASSUME Inv, StreamInv, NEW k \in DirectionKey,
           NEW f \in 0 .. StreamLength(Stream(k)),
           NEW n \in 0 .. SmallerOf(MaxPayload, StreamLength(Stream(k)) - f),
           EnterFinal(Segment(k, f, n)), from' = f, UNCHANGED connection
    PROVE  StreamInv'
<1> DEFINE p == Segment(k, f, n)
           s == Opened(p)
           t == ClearActive(s)
           sc == IF s.active_record_constrictible
                 THEN [FirstScan(p, n) EXCEPT
                         !.candidate = ClampedKeepSize(KeepContinuation, n),
                         !.has_candidate = TRUE]
                 ELSE FirstScan(p, n)
<1>1. /\ pc = "idle" /\ s.has_active_record
      /\ s.active_record_remaining_bytes = n
      /\ Enter(Segment(k, f, n), t, sc)
  BY DEF EnterFinal, Enter, Segment
<1>2. /\ sc.payload_offset = n
      /\ sc.has_candidate =>
           /\ s.active_record_constrictible
           /\ sc.candidate = ClampedKeepSize(KeepContinuation, n)
  BY DEF FirstScan
<1>3. PICK q \in Stream(k) : OpenAt(q, s, f)
  BY <1>1, OpenedAligned
<1>4. StreamLength(Stream(k)) \in Nat /\ SidesSound
  BY RecordFacts DEF StreamInv
<1>5. f \in Nat /\ n \in Nat /\ n \in 0 .. n
  BY <1>4, BoundsAssumption DEF SmallerOf
<1>6. s \in DirectionState /\ StateSound(s)
  <2>1. p \in Packet
    BY <1>1, <1>4, <1>5, RecordFacts, SeqOfAdvances, BoundsAssumption
       DEF Packet, Segment, SmallerOf
  <2> QED  BY <2>1, OpenedFacts, TypeOKMap DEF Inv
<1> HIDE DEF s, sc
<1>7. ~t.has_active_record
  BY <1>6, ClearActiveFacts
<1> HIDE DEF t
<1>8. /\ scan' = sc /\ State' = t /\ SegmentCall' /\ n > 0
      /\ PacketEnd' = f + n /\ Stream(packet.key)' = Stream(k)
      /\ packet'.size = n
  BY <1>1, <1>2, <1>5, SegmentFacts
<1>9. /\ q.at < f /\ End_(q) = f + n
      /\ q.at \in Nat /\ q.total \in Nat
      /\ s.active_record_constrictible <=> AppData(q)
  BY <1>1, <1>3, <1>4, <1>5, RecordFacts, HeaderSizeAssumption
     DEF OpenAt, ResumesAt
<1>10. ASSUME NEW r \in Stream(k)
       PROVE  /\ r.at = f => FALSE
              /\ r.at < f /\ f < End_(r) => r = q
              /\ ~(f <= r.at /\ r.at < f + n)
  <2>1. r.at \in Nat /\ r.at < End_(r) /\ End_(r) \in Nat
    BY <1>4, RecordFacts
  <2>2. r = q \/ End_(r) <= q.at \/ End_(q) <= r.at
    BY <1>4, Disjoint
  <2> QED  BY <1>5, <1>8, <1>9, <2>1, <2>2
<1>11. OpenBehind' /\ NoStraddler' /\ WholeCut'
  BY <1>2, <1>5, <1>7, <1>8, <1>10 DEF OpenBehind, NoStraddler, WholeCut, Whole
<1>12. CandidateSound'
  <2> SUFFICES ASSUME sc.has_candidate
               PROVE  CandidateSound'
    BY <1>8 DEF CandidateSound
  <2>1. StartsCovered'
    BY <1>2, <1>8, <1>10 DEF StartsCovered
  <2>2. (\E r \in Stream(packet.key) : AppData(r) /\ InPacket(r))'
    <3>1. AppData(q) /\ q.at < f + n /\ f < End_(q)
      BY <1>2, <1>5, <1>8, <1>9
    <3> QED  BY <1>8, <3>1 DEF InPacket, AppData, End_
  <2>3. StraddlerFinal'
    <3> SUFFICES ASSUME NEW r \in Stream(k), r.at < f /\ f < End_(r)
                 PROVE  /\ f + n = End_(r)
                        /\ sc.candidate = ClampedKeepSize(KeepContinuation, n)
                        /\ sc.payload_offset = n
      BY <1>8 DEF StraddlerFinal, Straddles, End_, ClampedKeepSize, SmallerOf
    <3> QED  BY <1>2, <1>9, <1>10
  <2> QED  BY <2>1, <2>2, <2>3 DEF CandidateSound
<1>13. CallAligned'
  BY <1>8, <1>11, <1>12 DEF CallAligned
<1> QED  BY <1>1, <1>13, EnterAligned

\* The open record ends inside the packet.
LEMMA EnterPastAligned ==
    ASSUME Inv, StreamInv, NEW k \in DirectionKey,
           NEW f \in 0 .. StreamLength(Stream(k)),
           NEW n \in 0 .. SmallerOf(MaxPayload, StreamLength(Stream(k)) - f),
           EnterPast(Segment(k, f, n)), from' = f, UNCHANGED connection
    PROVE  StreamInv'
<1> DEFINE p == Segment(k, f, n)
           s == Opened(p)
           t == ClearActive(s)
           o == s.active_record_remaining_bytes
           w == IF s.active_record_constrictible THEN "reset" ELSE "none"
           sc == [FirstScan(p, o) EXCEPT !.outcome = w]
<1>1. /\ pc = "idle" /\ s.has_active_record /\ o < n
      /\ Enter(Segment(k, f, n), t, sc)
  BY DEF EnterPast, Enter, Segment
<1>2. sc.payload_offset = o /\ sc.has_candidate = FALSE /\ sc.outcome = w
  BY DEF FirstScan
<1>3. PICK q \in Stream(k) : OpenAt(q, s, f)
  BY <1>1, OpenedAligned
<1>4. StreamLength(Stream(k)) \in Nat /\ SidesSound
  BY RecordFacts DEF StreamInv
<1>5. f \in Nat /\ n \in Nat
  BY <1>4, BoundsAssumption DEF SmallerOf
<1>6. s \in DirectionState /\ StateSound(s)
  <2>1. p \in Packet
    BY <1>1, <1>4, <1>5, RecordFacts, SeqOfAdvances, BoundsAssumption
       DEF Packet, Segment, SmallerOf
  <2> QED  BY <2>1, OpenedFacts, TypeOKMap DEF Inv
<1> HIDE DEF s, sc
<1>7. ~t.has_active_record /\ o \in 0 .. n
  BY <1>1, <1>5, <1>6, ClearActiveFacts DEF DirectionState
<1>8. /\ scan' = sc /\ State' = t /\ SegmentCall'
      /\ Stream(packet.key)' = Stream(k)
  BY <1>1, <1>2, <1>7, SegmentFacts
<1>9. /\ \A r \in Stream(k) : Covers(r, f) => r = q
      /\ \A r \in Stream(k) : r.at = f => FALSE
      /\ s.active_record_constrictible <=> AppData(q)
  BY <1>3, <1>4, <1>5, OpenIsStraddler DEF OpenAt
<1> HIDE DEF t
<1>10. OpenBehind' /\ CandidateSound' /\ WholeCut'
  BY <1>2, <1>7, <1>8, <1>9 DEF OpenBehind, CandidateSound, WholeCut, Whole
<1>11. NoStraddler'
  <2> SUFFICES ASSUME sc.outcome = "none", NEW r \in Stream(k),
                      AppData(r), r.at < f /\ f < End_(r)
               PROVE  FALSE
    BY <1>8 DEF NoStraddler, Straddles, AppData, End_
  <2>1. r = q
    <3>1. r.at \in Nat
      BY <1>4, RecordFacts
    <3> QED  BY <1>5, <1>9, <3>1 DEF Covers
  <2> QED  BY <1>2, <1>9, <2>1
<1>12. CallAligned'
  BY <1>8, <1>10, <1>11 DEF CallAligned
<1> QED  BY <1>1, <1>12, EnterAligned

\* A segment without payload, a SYN and a RST only take entries away.
LEMMA EmptyAligned ==
    ASSUME Inv, StreamInv, NEW p \in Packet, EvaluateEmpty(p), SidesSound',
           \A j \in DirectionKey \ (IF p.syn_or_rst THEN Connection(p.key) ELSE {}) :
              connection'[j] = connection[j]
    PROVE  StreamInv'
<1>1. /\ pc = "idle" /\ pc' = "idle" /\ directions' = AfterSynOrRst(p)
      /\ TypedMap(directions) /\ StatesSound(directions)
  BY TypeOKMap DEF EvaluateEmpty, Inv
<1>2. OthersAligned'
  <2> SUFFICES ASSUME NEW j \in DOMAIN directions'
               PROVE  Aligned(j, directions[j])'
    BY DEF OthersAligned
  <2>1. /\ j \in DOMAIN directions /\ directions'[j] = directions[j]
        /\ j \notin (IF p.syn_or_rst THEN Connection(p.key) ELSE {})
    BY <1>1, AfterSynOrRstFacts
  <2>2. connection'[j] = connection[j]
    BY <1>1, <2>1 DEF TypedMap
  <2>3. Aligned(j, directions[j])
    BY <1>1, <2>1 DEF StreamInv, OthersAligned
  <2> QED  BY <2>1, <2>2, <2>3 DEF Aligned, Stream, SeqOf
<1> QED  BY <1>1, <1>2 DEF StreamInv

\* Only EvaluateEmpty takes a packet without payload.
LEMMA EmptyOnly ==
    ASSUME NEW p, p.size = 0, Begin(p)
    PROVE  EvaluateEmpty(p)
BY DEF Begin, EnterScan, EnterMiddle, EnterFinal, EnterPast, Enter

\* The packets the environment makes are packets.
LEMMA SegmentIsPacket ==
    ASSUME SidesSound, NEW k \in DirectionKey,
           NEW f \in 0 .. StreamLength(Stream(k)),
           NEW n \in 0 .. SmallerOf(MaxPayload, StreamLength(Stream(k)) - f)
    PROVE  Segment(k, f, n) \in Packet
<1>1. StreamLength(Stream(k)) \in Nat /\ connection[k].isn \in Seq32
  BY RecordFacts
<1>2. n \in 0 .. MaxPayload /\ f \in Nat
  BY <1>1, BoundsAssumption DEF SmallerOf
<1> QED  BY <1>1, <1>2, SeqOfAdvances DEF Segment, Packet

\* A segment of the stream keeps the invariant.
LEMMA SegmentAligned ==
    ASSUME Inv, StreamInv, SegmentArrives
    PROVE  StreamInv' /\ \E p \in Packet : Begin(p)
<1>1. PICK k \in DirectionKey :
        \E f \in 0 .. StreamLength(Stream(k)) :
        \E n \in 0 .. SmallerOf(MaxPayload, StreamLength(Stream(k)) - f) :
           Begin(Segment(k, f, n)) /\ from' = f /\ UNCHANGED connection
  BY DEF SegmentArrives, Segment
<1>2. PICK f \in 0 .. StreamLength(Stream(k)) :
        \E n \in 0 .. SmallerOf(MaxPayload, StreamLength(Stream(k)) - f) :
           Begin(Segment(k, f, n)) /\ from' = f /\ UNCHANGED connection
  BY <1>1
<1>3. PICK n \in 0 .. SmallerOf(MaxPayload, StreamLength(Stream(k)) - f) :
           Begin(Segment(k, f, n)) /\ from' = f /\ UNCHANGED connection
  BY <1>2
<1>4. Segment(k, f, n) \in Packet
  BY SegmentIsPacket DEF StreamInv
<1>5. CASE EvaluateEmpty(Segment(k, f, n))
  <2>1. SidesSound'
    BY <1>3 DEF StreamInv, SidesSound
  <2> QED  BY <1>3, <1>4, <1>5, <2>1, EmptyAligned
<1>6. CASE EnterScan(Segment(k, f, n))
  BY <1>3, <1>4, <1>6, EnterScanAligned
<1>7. CASE EnterMiddle(Segment(k, f, n))
  BY <1>3, <1>4, <1>7, EnterMiddleAligned
<1>8. CASE EnterFinal(Segment(k, f, n))
  BY <1>3, <1>4, <1>8, EnterFinalAligned
<1>9. CASE EnterPast(Segment(k, f, n))
  BY <1>3, <1>4, <1>9, EnterPastAligned
<1> QED  BY <1>3, <1>5, <1>6, <1>7, <1>8, <1>9 DEF Begin

\* So does a SYN: the sides it replaces are those of the entries it erases.
LEMMA SynAligned ==
    ASSUME Inv, StreamInv, SynArrives
    PROVE  StreamInv' /\ \E p \in Packet : Begin(p)
<1>1. PICK k \in DirectionKey, c \in ConnectionSet :
        /\ Begin([key |-> k, tcp_seq |-> c[k].isn, size |-> 0,
                  syn_or_rst |-> TRUE])
        /\ connection' = [j \in DirectionKey |->
                            IF j \in Connection(k) THEN c[j] ELSE connection[j]]
  BY DEF SynArrives
<1> DEFINE p == [key |-> k, tcp_seq |-> c[k].isn, size |-> 0,
                 syn_or_rst |-> TRUE]
<1>2. c \in [DirectionKey -> Side] /\ \A j \in DirectionKey : WellFormed(c[j])
  BY ConnectionAssumption
<1>3. p \in Packet
  BY <1>2, BoundsAssumption DEF Packet, Side
<1>4. EvaluateEmpty(p) /\ p.syn_or_rst /\ p.key = k
  BY <1>1, EmptyOnly
<1>5. SidesSound'
  BY <1>1, <1>2 DEF StreamInv, SidesSound
<1>6. \A j \in DirectionKey \ Connection(p.key) : connection'[j] = connection[j]
  BY <1>1, <1>4
<1> HIDE DEF p
<1>7. StreamInv'
  BY <1>3, <1>4, <1>5, <1>6, EmptyAligned
<1> QED  BY <1>1, <1>3, <1>7 DEF p

\* And a RST.
LEMMA RstAligned ==
    ASSUME Inv, StreamInv, RstArrives
    PROVE  StreamInv' /\ \E p \in Packet : Begin(p)
<1>1. PICK k \in DirectionKey :
        /\ Begin([key |-> k, tcp_seq |-> SeqOf(k, 0), size |-> 0,
                  syn_or_rst |-> TRUE])
        /\ UNCHANGED connection
  BY DEF RstArrives
<1> DEFINE p == [key |-> k, tcp_seq |-> SeqOf(k, 0), size |-> 0,
                 syn_or_rst |-> TRUE]
<1>2. connection[k].isn \in Seq32
  BY RecordFacts DEF StreamInv
<1>3. p \in Packet
  BY <1>2, SeqOfAdvances, BoundsAssumption DEF Packet
<1>4. EvaluateEmpty(p)
  BY <1>1, EmptyOnly
<1>5. SidesSound'
  BY <1>1 DEF StreamInv, SidesSound
<1> HIDE DEF p
<1>6. StreamInv'
  BY <1>1, <1>3, <1>4, <1>5, EmptyAligned
<1> QED  BY <1>1, <1>3, <1>6 DEF p

-----------------------------------------------------------------------------
(* The record loop.                                                        *)

\* Inside the loop no record is open: the one a packet starts in is closed
\* before, and the one it ends in ends the loop.
LEMMA LoopFacts ==
    ASSUME Inv, StreamInv, InLoop
    PROVE  /\ pc = "scan" /\ packet.key \in DirectionKey /\ SidesSound
           /\ scan \in Scan /\ scan.outcome = "none"
           /\ scan.payload_offset \in Nat /\ packet.size \in Nat
           /\ scan.payload_offset < packet.size
           /\ from \in Nat /\ PacketEnd <= StreamLength(Stream(packet.key))
           /\ PacketEnd = from + packet.size
           /\ StreamLength(Stream(packet.key)) \in Nat
           /\ packet.key \in DOMAIN directions
           /\ ~State.has_active_record
           /\ CallAligned
<1>1. pc = "scan" /\ CallAligned /\ SidesSound
  BY DEF InLoop, StreamInv
<1>2. /\ packet.key \in DirectionKey /\ packet.size \in Nat /\ scan \in Scan
      /\ packet.key \in DOMAIN directions
  BY <1>1, CallFacts
<1>3. scan.payload_offset \in Nat
  BY <1>2 DEF Scan
<1>4. scan.payload_offset # packet.size
  BY <1>2, <1>3 DEF InLoop
<1>5. ~State.has_active_record
  BY <1>1, <1>4 DEF CallAligned, OpenBehind
<1>6. StreamLength(Stream(packet.key)) \in Nat
  BY <1>1, <1>2, RecordFacts
<1> QED
  BY <1>1, <1>2, <1>3, <1>5, <1>6 DEF InLoop, CallAligned, SegmentCall, PacketEnd

\* The header at the scan position is that of the record that starts there.
LEMMA TrueHeaderFacts ==
    ASSUME Inv, StreamInv, InLoop
    PROVE  /\ TrueHeader \in Header \cup {NotTls}
           /\ TrueHeader # NotTls =>
                \E r \in Stream(packet.key) :
                   /\ r.at = from + scan.payload_offset
                   /\ scan.payload_offset + HeaderSize <= packet.size
                   /\ TrueHeader.type = r.type
                   /\ RecordTotalSize(TrueHeader) = r.total
           /\ \A r \in Stream(packet.key) :
                (/\ r.at = from + scan.payload_offset
                 /\ scan.payload_offset + HeaderSize <= packet.size) =>
                   TrueHeader # NotTls
<1> DEFINE starts == {r \in Stream(packet.key) :
                        /\ r.at = from + scan.payload_offset
                        /\ scan.payload_offset + HeaderSize <= packet.size}
           x == CHOOSE r \in starts : TRUE
<1>1. CASE starts = {}
  BY <1>1 DEF TrueHeader
<1>2. CASE starts # {}
  <2>1. TrueHeader = [type |-> x.type, length |-> x.total - HeaderSize]
    BY <1>2 DEF TrueHeader
  <2>2. x \in starts
    BY <1>2
  <2> HIDE DEF x
  <2>3. /\ x.type \in ContentType /\ x.total \in Nat
        /\ x.total - HeaderSize \in RecordLength
    BY <2>2, LoopFacts, RecordFacts
  <2>4. TrueHeader \in Header /\ TrueHeader.type = x.type
    BY <2>1, <2>3 DEF Header
  <2>5. TrueHeader # NotTls
    BY <2>1, <2>3 DEF ContentType, NotTls
  <2>6. RecordTotalSize(TrueHeader) = x.total
    BY <2>1, <2>3, HeaderSizeAssumption DEF RecordTotalSize
  <2> QED  BY <2>2, <2>4, <2>5, <2>6
<1> QED  BY <1>1, <1>2

\* A packet that starts with an Application Data record of a confirmed
\* connection, and holds nothing else, has that record's header read first.
LEMMA WholeHeader ==
    ASSUME Inv, StreamInv, InLoop, scan.confirmed_tls,
           NEW r \in Stream(packet.key), Whole(r)
    PROVE  /\ scan.payload_offset = 0 /\ ~scan.has_candidate
           /\ TrueHeader # NotTls
<1>1. scan.payload_offset = 0 /\ ~scan.has_candidate
  BY LoopFacts DEF CallAligned, WholeCut
<1>2. r.at = from + scan.payload_offset /\ HeaderSize <= packet.size
  BY <1>1, LoopFacts DEF Whole
<1>3. scan.payload_offset + HeaderSize <= packet.size
  BY <1>1, <1>2, HeaderSizeAssumption
<1> QED  BY <1>1, <1>2, <1>3, TrueHeaderFacts

\* Accepting a header leaves open records as they are, and none is opened for
\* the direction itself.
LEMMA ConfirmedAligned ==
    ASSUME Inv, StreamInv, NEW h, Accepted(h)
    PROVE  /\ packet.key \in DOMAIN Confirmed(h)
           /\ TypedMap(Confirmed(h))
           /\ Confirmed(h)[packet.key].synchronized
           /\ ~Confirmed(h)[packet.key].has_active_record
           /\ \A j \in DOMAIN Confirmed(h) \ {packet.key} :
                Aligned(j, Confirmed(h)[j])
<1> DEFINE k == packet.key
           s == [State EXCEPT !.synchronized = TRUE,
                              !.confirmed_tls = @ \/ h.type = "handshake"]
           d == Stored(directions, k, s)
           r == [Entry(d, Reverse(k)) EXCEPT !.confirmed_tls = TRUE]
           e == Stored(d, Reverse(k), r)
<1>1. /\ TypedMap(directions) /\ StatesSound(directions)
      /\ State \in DirectionState /\ State = directions[k]
      /\ k \in DirectionKey /\ k \in DOMAIN directions
      /\ ~State.has_active_record
  BY CallFacts, LoopFacts DEF Accepted, State
<1>2. /\ Confirmed(h)[k].synchronized /\ k \in DOMAIN Confirmed(h)
      /\ TypedMap(Confirmed(h))
  BY ConfirmedFacts
<1>3. Confirmed(h) = IF h.type = "handshake" THEN e ELSE d
  BY DEF Confirmed
<1>4. s \in DirectionState /\ ~s.has_active_record
  <2>1. h.type = "handshake" \/ State.confirmed_tls
    BY <1>1, CallFacts DEF Accepted, InLoop, CallSound, StateSound
  <2> QED  BY <1>1, <2>1 DEF DirectionState
<1> HIDE DEF s
<1>5. /\ TypedMap(d) /\ DOMAIN d = DOMAIN directions /\ d[k] = s
      /\ \A j \in DOMAIN directions \ {k} : d[j] = directions[j]
  BY <1>1, <1>4, StoredFacts
<1>6. ~FreshState.has_active_record
  BY DEF FreshState
<1> HIDE DEF d
<1>7. \A j \in DOMAIN d \ {k} : Aligned(j, d[j])
  BY <1>5 DEF StreamInv, OthersAligned
<1>8. CASE h.type = "handshake"
  <2> DEFINE t == Entry(d, Reverse(k))
  <2>1. t = FreshState \/ (Reverse(k) \in DOMAIN d /\ t = d[Reverse(k)])
    BY DEF Entry
  <2>2. t \in DirectionState
    BY <1>5, <2>1, FreshFacts DEF TypedMap
  <2>3. /\ r.has_active_record = t.has_active_record
        /\ r.active_record_remaining_bytes = t.active_record_remaining_bytes
        /\ r.active_record_constrictible = t.active_record_constrictible
        /\ r.expected_tcp_seq = t.expected_tcp_seq
    BY <2>2 DEF DirectionState
  <2> HIDE DEF t, r
  <2>4. /\ DOMAIN e = DOMAIN d \cup {Reverse(k)} /\ e[Reverse(k)] = r
        /\ \A j \in DOMAIN d \ {Reverse(k)} : e[j] = d[j]
    BY DEF Stored
  <2> HIDE DEF e
  <2>5. Reverse(k) # k => Aligned(Reverse(k), r)
    <3>1. Reverse(k) # k => Aligned(Reverse(k), t)
      BY <1>6, <1>7, <2>1 DEF Aligned
    <3> QED  BY <2>3, <3>1, AlignedFields
  <2>6. ASSUME NEW j \in DOMAIN e \ {k}
        PROVE  Aligned(j, e[j])
    BY <1>7, <2>4, <2>5
  <2>7. ~e[k].has_active_record
    BY <1>1, <1>4, <1>5, <1>6, <2>1, <2>3, <2>4
  <2> QED  BY <1>2, <1>3, <1>8, <2>6, <2>7
<1>9. CASE h.type # "handshake"
  BY <1>2, <1>3, <1>4, <1>5, <1>7, <1>9
<1> QED  BY <1>8, <1>9

\* What a turn of the loop makes of the locals is sound again, whether the
\* record r at the scan position ends in this packet or goes on behind it.
LEMMA ScanAfterSound ==
    ASSUME Inv, StreamInv, InLoop, NEW r \in Stream(packet.key),
           r.at = from + scan.payload_offset, NEW h, h.type = r.type,
           NEW here, here = SmallerOf(r.total, RemainingPayload),
           scan' = ScanAfter(h, here), State'.synchronized,
           UNCHANGED <<packet, connection, from>>
    PROVE  SegmentCall' /\ CandidateSound' /\ NoStraddler' /\ WholeCut'
<1> DEFINE k == packet.key
           o == scan.payload_offset
           n == packet.size
<1>1. /\ k \in DirectionKey /\ SidesSound /\ scan \in Scan
      /\ scan.outcome = "none" /\ o \in Nat /\ n \in Nat /\ o < n
      /\ from \in Nat /\ PacketEnd = from + n
      /\ PacketEnd <= StreamLength(Stream(k))
      /\ CallAligned
  BY LoopFacts
<1>2. /\ r.at \in Nat /\ r.total \in Nat /\ r.total > 0
      /\ End_(r) = r.at + r.total
  BY <1>1, RecordFacts, HeaderSizeAssumption DEF End_
<1>3. here \in Nat /\ here > 0 /\ here <= r.total /\ o + here <= n
  BY <1>1, <1>2 DEF SmallerOf, RemainingPayload
<1>4. /\ scan'.payload_offset = o + here
      /\ scan'.outcome = "none" /\ scan'.confirmed_tls = scan.confirmed_tls
      /\ h.type = "app_data" =>
           /\ scan'.candidate = o + ClampedKeepSize(KeepRecord, here)
           /\ scan'.has_candidate = TRUE
      /\ h.type # "app_data" =>
           /\ scan'.candidate = scan.candidate
           /\ scan'.has_candidate = scan.has_candidate
  BY <1>1 DEF ScanAfter, Scan
<1>5. /\ packet' = packet /\ from' = from /\ PacketEnd' = PacketEnd
      /\ Stream(packet.key)' = Stream(k)
      /\ SeqOf(packet.key, from)' = SeqOf(k, from)
  BY DEF PacketEnd, Stream, SeqOf
<1> HIDE DEF o, n, k
<1>6. ASSUME NEW x \in Stream(k)
      PROVE  /\ x.at \in Nat /\ x.total \in Nat /\ End_(x) = x.at + x.total
             /\ x.total > 0
             /\ x = r \/ End_(x) <= from + o \/ from + o + here <= x.at
  <2>1. x = r \/ End_(x) <= r.at \/ End_(r) <= x.at
    BY <1>1, Disjoint DEF k
  <2>2. /\ x.at \in Nat /\ x.total \in Nat /\ x.total > 0
        /\ End_(x) = x.at + x.total
    BY <1>1, RecordFacts, HeaderSizeAssumption DEF End_
  <2> QED  BY <1>1, <1>2, <1>3, <2>1, <2>2 DEF o
<1>7. SegmentCall'
  BY <1>1, <1>3, <1>4, <1>5 DEF SegmentCall, CallAligned, k, n
<1>8. ASSUME NEW x \in Stream(k), AppData(x), Straddles(x)
      PROVE  o > 0 /\ o < n => FALSE
  BY <1>1, <1>8 DEF CallAligned, NoStraddler, o, n, k
<1>9. ASSUME NEW x \in Stream(k), AppData(x), Straddles(x)
      PROVE  FALSE
  <2>1. o = 0
    BY <1>1, <1>8, <1>9
  <2>2. x.at < from /\ from < End_(x)
    BY <1>9 DEF Straddles
  <2> QED  BY <1>1, <1>2, <1>3, <1>6, <2>1, <2>2 DEF o
<1>10. \A x \in Stream(k) : ~(AppData(x) /\ Straddles(x))
  BY <1>9
<1>11. NoStraddler'
  BY <1>5, <1>10 DEF NoStraddler, AppData, Straddles, End_, k
<1>12. StraddlerFinal'
  BY <1>5, <1>10 DEF StraddlerFinal, AppData, Straddles, End_, k
<1>13. CASE h.type = "app_data"
  <2>1. \A m \in Nat : /\ ClampedKeepSize(KeepRecord, m) \in Nat
                       /\ ClampedKeepSize(KeepRecord, m) <= m
    BY KeepAssumption DEF ClampedKeepSize, SmallerOf
  <2>2. ASSUME NEW x \in Stream(k), from <= x.at, x.at < from + (o + here)
        PROVE  o + ClampedKeepSize(KeepRecord, here) >= (x.at - from) +
                  ClampedKeepSize(KeepRecord, SmallerOf(x.total, PacketEnd - x.at))
    <3>1. CASE x = r
      <4>1. PacketEnd - x.at = RemainingPayload /\ x.at - from = o
        BY <1>1, <1>2, <3>1 DEF RemainingPayload, o, n
      <4> QED  BY <1>1, <1>3, <2>1, <3>1, <4>1
    <3>2. CASE x # r
      <4>1. x.at + x.total <= from + o
        BY <1>1, <1>3, <1>6, <2>2, <3>2
      <4> DEFINE m == SmallerOf(x.total, PacketEnd - x.at)
      <4>2. m \in Nat /\ m <= x.total
        BY <1>1, <1>6, <4>1 DEF SmallerOf
      <4> HIDE DEF m
      <4>3. ClampedKeepSize(KeepRecord, m) \in Nat
            /\ ClampedKeepSize(KeepRecord, m) <= x.total
        BY <1>6, <2>1, <4>2
      <4>4. ClampedKeepSize(KeepRecord, here) \in Nat
        BY <1>3, <2>1
      <4>5. o + ClampedKeepSize(KeepRecord, here)
              >= (x.at - from) + ClampedKeepSize(KeepRecord, m)
        BY <1>1, <1>6, <4>1, <4>3, <4>4
      <4> QED  BY <4>5 DEF m
    <3> QED  BY <3>1, <3>2
  <2>3. StartsCovered'
    BY <1>4, <1>5, <1>13, <2>2
       DEF StartsCovered, ClampedKeepSize, SmallerOf, AppData, k
  <2>4. (\E x \in Stream(packet.key) : AppData(x) /\ InPacket(x))'
    <3>1. AppData(r) /\ r.at < PacketEnd /\ from < End_(r)
      BY <1>1, <1>2, <1>13 DEF AppData, o, n
    <3> QED  BY <1>5, <3>1 DEF AppData, InPacket, End_, k
  <2>5. WholeCut'
    <3> SUFFICES ASSUME scan.confirmed_tls, NEW x \in Stream(k), Whole(x)
                 PROVE  /\ scan'.payload_offset = n
                        /\ scan'.candidate = KeepRecord
      BY <1>4, <1>5, <1>13 DEF WholeCut, Whole, AppData, End_, k, n
    <3>1. o = 0
      BY WholeHeader DEF o, k
    <3>2. x = r
      BY <1>1, <1>2, <1>3, <1>6, <3>1 DEF Whole, o
    <3>3. PacketEnd <= End_(r) /\ KeepRecord < n
      BY <3>2 DEF Whole, n
    <3>4. here = n
      BY <1>1, <1>2, <3>1, <3>3 DEF SmallerOf, RemainingPayload, o, n
    <3> QED
      BY <1>1, <1>4, <1>13, <3>1, <3>3, <3>4, KeepAssumption
         DEF ClampedKeepSize, SmallerOf
  <2> QED  BY <1>7, <1>11, <1>12, <2>3, <2>4, <2>5 DEF CandidateSound
<1>14. CASE h.type # "app_data"
  <2>1. ASSUME NEW x \in Stream(k), AppData(x)
        PROVE  x # r
    BY <1>14, <2>1 DEF AppData
  <2>2. ASSUME scan.has_candidate
        PROVE  StartsCovered' /\
               (\E x \in Stream(packet.key) : AppData(x) /\ InPacket(x))'
    <3>1. StartsCovered /\ \E x \in Stream(k) : AppData(x) /\ InPacket(x)
      BY <1>1, <2>2 DEF CallAligned, CandidateSound, k
    <3>2. ASSUME NEW x \in Stream(k), AppData(x), from <= x.at,
                 x.at < from + (o + here)
          PROVE  x.at < from + o
      BY <1>1, <1>3, <1>6, <2>1, <3>2
    <3>3. ASSUME NEW x \in Stream(k), AppData(x), from <= x.at,
                 x.at < from + (o + here)
          PROVE  scan.candidate >= (x.at - from) +
                   ClampedKeepSize(KeepRecord, SmallerOf(x.total, PacketEnd - x.at))
      BY <3>1, <3>2, <3>3 DEF StartsCovered, o, k
    <3>4. StartsCovered'
      BY <1>4, <1>5, <1>14, <3>3
         DEF StartsCovered, ClampedKeepSize, SmallerOf, AppData, k
    <3> QED  BY <1>5, <3>1, <3>4 DEF AppData, InPacket, End_, k
  <2>3. WholeCut'
    <3> SUFFICES ASSUME scan.confirmed_tls, NEW x \in Stream(k), Whole(x)
                 PROVE  FALSE
      BY <1>4, <1>5 DEF WholeCut, Whole, AppData, End_, k
    <3>1. o = 0
      BY WholeHeader DEF o, k
    <3> QED  BY <1>1, <1>3, <1>6, <2>1, <3>1 DEF Whole
  <2> QED  BY <1>4, <1>7, <1>11, <1>12, <1>14, <2>2, <2>3 DEF CandidateSound
<1> QED  BY <1>13, <1>14

\* Steps that leave the stream and the position alone keep other directions
\* aligned if they keep their entries so.
LEMMA OthersKept ==
    ASSUME StreamInv, UNCHANGED connection,
           \A j \in DOMAIN directions' :
              (pc' = "idle" \/ j # packet'.key) => Aligned(j, directions'[j]),
           pc' = "scan" => CallAligned'
    PROVE  StreamInv'
<1>1. SidesSound'
  BY DEF StreamInv, SidesSound
<1>2. OthersAligned'
  <2> SUFFICES ASSUME NEW j \in DOMAIN directions',
                      pc' = "idle" \/ j # packet'.key
               PROVE  Aligned(j, directions[j])'
    BY DEF OthersAligned
  <2>1. Aligned(j, directions'[j])
    OBVIOUS
  <2> QED  BY <2>1 DEF Aligned, Stream, SeqOf
<1> QED  BY <1>1, <1>2 DEF StreamInv

\* While the loop runs, every entry is aligned: the direction's own has no
\* open record.
LEMMA LoopAligned ==
    ASSUME Inv, StreamInv, InLoop
    PROVE  \A j \in DOMAIN directions : Aligned(j, directions[j])
<1>1. Aligned(packet.key, directions[packet.key])
  BY LoopFacts DEF Aligned, State
<1> QED  BY <1>1 DEF StreamInv, OthersAligned

\* A turn of the record loop keeps the invariant.
LEMMA ReadsAligned ==
    ASSUME Inv, StreamInv, EvaluateReads
    PROVE  StreamInv'
<1> DEFINE h == TrueHeader
           k == packet.key
<1>0. InLoop /\ ReadRecord(h) /\ UNCHANGED <<connection, from>>
  BY DEF EvaluateReads
<1>1. /\ h # NotTls =>
           \E r \in Stream(k) :
              /\ r.at = from + scan.payload_offset
              /\ scan.payload_offset + HeaderSize <= packet.size
              /\ h.type = r.type /\ RecordTotalSize(h) = r.total
  BY <1>0, TrueHeaderFacts
<1>2. CASE GiveUp(h)
  <2>1. pc' = "idle"
    BY <1>2 DEF GiveUp, Return
  <2>2. \A j \in DOMAIN directions' :
          j \in DOMAIN directions /\ directions'[j] = directions[j]
    BY <1>2 DEF GiveUp, Erased
  <2>3. \A j \in DOMAIN directions' : Aligned(j, directions'[j])
    BY <1>0, <2>2, LoopAligned
  <2> QED  BY <1>0, <2>1, <2>3, OthersKept
<1>3. CASE LoseTrack(h)
  <2>1. /\ h = NotTls /\ UNCHANGED <<directions, pc, packet>>
        /\ scan' = [scan EXCEPT !.outcome = "uncertain"]
    BY <1>3 DEF LoseTrack
  <2>2. /\ scan'.outcome = "uncertain"
        /\ scan'.payload_offset = scan.payload_offset
        /\ scan'.confirmed_tls = scan.confirmed_tls
    BY <1>0, <2>1, LoopFacts DEF Scan
  <2>3. ~(scan.confirmed_tls /\ \E r \in Stream(k) : Whole(r))
    BY <1>0, <2>1, WholeHeader
  <2>4. SegmentCall' /\ OpenBehind' /\ CandidateSound' /\ NoStraddler'
    BY <1>0, <2>1, <2>2, LoopFacts
       DEF CallAligned, SegmentCall, OpenBehind, CandidateSound, NoStraddler,
           State, PacketEnd, Stream, SeqOf
  <2>5. WholeCut'
    BY <1>0, <2>1, <2>2, <2>3
       DEF WholeCut, Whole, AppData, PacketEnd, End_, Stream
  <2>6. CallAligned'
    BY <2>4, <2>5 DEF CallAligned
  <2> QED  BY <1>0, <2>1, <2>6, LoopAligned, OthersKept
<1>4. ASSUME Accepted(h)
      PROVE  /\ h # NotTls
             /\ packet.key \in DOMAIN Confirmed(h)
             /\ TypedMap(Confirmed(h))
             /\ Confirmed(h)[packet.key].synchronized
             /\ ~Confirmed(h)[packet.key].has_active_record
             /\ \A j \in DOMAIN Confirmed(h) \ {packet.key} :
                  Aligned(j, Confirmed(h)[j])
  BY <1>4, ConfirmedAligned DEF Accepted
<1>5. /\ scan.payload_offset \in Nat /\ packet.size \in Nat
      /\ from \in Nat /\ PacketEnd = from + packet.size
      /\ k \in DirectionKey /\ SidesSound /\ pc = "scan"
  BY <1>0, LoopFacts
<1>6. \A r \in Stream(k) : /\ r.at \in Nat /\ r.total \in Nat
                           /\ End_(r) = r.at + r.total
  BY <1>5, RecordFacts DEF End_
<1>7. CASE OpenRecord(h)
  <2> DEFINE d == Confirmed(h)
             n == RecordTotalSize(h) - RemainingPayload
             s == [d[packet.key] EXCEPT
                     !.has_active_record = TRUE,
                     !.active_record_remaining_bytes = n,
                     !.active_record_constrictible = (h.type = "app_data")]
  <2>1. /\ Accepted(h) /\ RecordTotalSize(h) > RemainingPayload
        /\ directions' = [d EXCEPT ![packet.key] = s]
        /\ scan' = ScanAfter(h, RemainingPayload)
        /\ UNCHANGED <<pc, packet>>
    BY <1>7 DEF OpenRecord
  <2>2. PICK r \in Stream(k) :
          /\ r.at = from + scan.payload_offset
          /\ scan.payload_offset + HeaderSize <= packet.size
          /\ h.type = r.type /\ RecordTotalSize(h) = r.total
    BY <1>1, <1>4, <2>1
  <2>3. RemainingPayload \in Nat
        /\ RemainingPayload = packet.size - scan.payload_offset
    BY <1>0, <1>5 DEF RemainingPayload, InLoop
  <2>4. RemainingPayload = SmallerOf(r.total, RemainingPayload)
    BY <1>6, <2>1, <2>2, <2>3 DEF SmallerOf
  <2>5. d[packet.key] \in DirectionState /\ packet.key \in DOMAIN d
    BY <1>4, <2>1 DEF TypedMap
  <2>6. /\ s.has_active_record /\ s.active_record_remaining_bytes = n
        /\ s.active_record_constrictible = (h.type = "app_data")
        /\ s.synchronized = d[packet.key].synchronized
    BY <2>5 DEF DirectionState
  <2>7. OpenAt(r, s, PacketEnd)
    <3>1. ResumesAt(r, s) = PacketEnd /\ PacketEnd < End_(r)
      BY <1>5, <1>6, <2>1, <2>2, <2>3, <2>6 DEF ResumesAt
    <3>2. r.at + HeaderSize <= PacketEnd
      BY <1>5, <1>6, <2>2, HeaderSizeAssumption
    <3>3. s.active_record_constrictible <=> AppData(r)
      BY <2>2, <2>6 DEF AppData
    <3> QED  BY <3>1, <3>2, <3>3 DEF OpenAt
  <2>8. \A j \in DOMAIN d \ {packet.key} : Aligned(j, d[j])
    BY <1>4, <2>1
  <2>9. d[packet.key].synchronized
    BY <1>4, <2>1
  <2> HIDE DEF d, n, s
  <2>10. State' = s
    BY <2>1, <2>5 DEF State
  <2>11. SegmentCall' /\ CandidateSound' /\ NoStraddler' /\ WholeCut'
    <3>1. State'.synchronized
      BY <2>6, <2>9, <2>10
    <3> QED  BY <1>0, <2>1, <2>2, <2>4, <3>1, ScanAfterSound
  <2>12. scan'.payload_offset = packet.size
    <3>1. scan'.payload_offset = scan.payload_offset + RemainingPayload
      BY <1>0, <2>1, LoopFacts DEF ScanAfter, Scan
    <3> QED  BY <1>5, <2>3, <3>1
  <2>13. OpenBehind'
    BY <1>0, <2>1, <2>7, <2>10, <2>12
       DEF OpenBehind, OpenAt, ResumesAt, AppData, PacketEnd, Stream, End_
  <2>14. CallAligned'
    BY <2>11, <2>13 DEF CallAligned
  <2>15. \A j \in DOMAIN directions' :
           j # packet.key => Aligned(j, directions'[j])
    BY <2>1, <2>5, <2>8
  <2> QED  BY <1>0, <1>5, <2>1, <2>14, <2>15, OthersKept
<1>8. CASE SkipRecord(h)
  <2> DEFINE d == Confirmed(h)
  <2>1. /\ Accepted(h) /\ RecordTotalSize(h) <= RemainingPayload
        /\ directions' = d
        /\ scan' = ScanAfter(h, RecordTotalSize(h))
        /\ UNCHANGED <<pc, packet>>
    BY <1>8 DEF SkipRecord
  <2>2. PICK r \in Stream(k) :
          /\ r.at = from + scan.payload_offset
          /\ scan.payload_offset + HeaderSize <= packet.size
          /\ h.type = r.type /\ RecordTotalSize(h) = r.total
    BY <1>1, <1>4, <2>1
  <2>3. RecordTotalSize(h) = SmallerOf(r.total, RemainingPayload)
    BY <2>1, <2>2 DEF SmallerOf
  <2>4. State' = d[packet.key]
    BY <2>1 DEF State
  <2>5. SegmentCall' /\ CandidateSound' /\ NoStraddler' /\ WholeCut'
    <3>1. State'.synchronized
      BY <1>4, <2>1, <2>4
    <3> QED  BY <1>0, <2>1, <2>2, <2>3, <3>1, ScanAfterSound
  <2>6. OpenBehind'
    BY <1>4, <2>1, <2>4 DEF OpenBehind
  <2>7. CallAligned'
    BY <2>5, <2>6 DEF CallAligned
  <2> QED  BY <1>0, <1>4, <1>5, <2>1, <2>7, OthersKept
<1> QED  BY <1>0, <1>2, <1>3, <1>7, <1>8 DEF ReadRecord

\* The end of a call stores the state in which the open record goes on at the
\* packet's end (line 249), or none.
LEMMA EndsAligned ==
    ASSUME Inv, StreamInv, EvaluateEnds
    PROVE  StreamInv'
<1> DEFINE k == packet.key
<1>0. End /\ UNCHANGED connection
  BY DEF EvaluateEnds
<1>1. pc = "scan" /\ pc' = "idle"
  BY <1>0 DEF End, FinishReset, FinishUncertain, FinishMiddle, FinishWhole,
              FinishPrefix, Finish, LoopDone, Return
<1>2. /\ CallAligned /\ SidesSound
      /\ \A j \in DOMAIN directions \ {k} : Aligned(j, directions[j])
  BY <1>1 DEF StreamInv, OthersAligned
<1>3. /\ k \in DirectionKey /\ k \in DOMAIN directions
      /\ State \in DirectionState /\ packet.size \in Nat
  BY <1>1, CallFacts
<1>4. SUFFICES \A j \in DOMAIN directions' : Aligned(j, directions'[j])
  BY <1>0, <1>1, OthersKept
<1>5. CASE FinishReset
  <2> DEFINE t == [FreshState EXCEPT !.confirmed_tls = TRUE]
  <2>1. ~t.has_active_record
    BY DEF FreshState
  <2>2. \/ directions' = Stored(directions, k, t)
        \/ directions' = Erased(directions, {k})
    BY <1>5 DEF FinishReset
  <2> HIDE DEF t
  <2>3. Aligned(k, t)
    BY <2>1 DEF Aligned
  <2> QED  BY <1>2, <1>3, <2>2, <2>3 DEF Stored, Erased
<1>6. CASE ~FinishReset
  <2>1. directions' = Stored(directions, k, Advanced)
    BY <1>0, <1>6 DEF End, FinishUncertain, FinishMiddle, FinishWhole,
                      FinishPrefix, Finish
  <2>2. /\ Advanced.has_active_record = State.has_active_record
        /\ Advanced.active_record_remaining_bytes
             = State.active_record_remaining_bytes
        /\ Advanced.active_record_constrictible
             = State.active_record_constrictible
        /\ Advanced.expected_tcp_seq
             = AdvanceTcpSeq(packet.tcp_seq, packet.size)
    BY <1>3 DEF Advanced, DirectionState
  <2>3. Advanced.expected_tcp_seq = SeqOf(k, PacketEnd)
    <3>1. connection[k].isn \in Seq32 /\ from \in Nat
          /\ packet.tcp_seq = SeqOf(k, from)
      BY <1>2, <1>3, RecordFacts DEF CallAligned, SegmentCall
    <3> QED  BY <1>3, <2>2, <3>1, SeqOfAdvances DEF PacketEnd
  <2>4. Aligned(k, Advanced)
    <3> SUFFICES ASSUME Advanced.has_active_record
                 PROVE  Aligned(k, Advanced)
      BY DEF Aligned
    <3>1. PICK r \in Stream(k) : OpenAt(r, State, PacketEnd)
      BY <1>2, <2>2 DEF CallAligned, OpenBehind
    <3>2. OpenAt(r, Advanced, PacketEnd)
      BY <2>2, <3>1 DEF OpenAt, ResumesAt
    <3> QED  BY <2>3, <3>2 DEF Aligned, OpenAt, ResumesAt, AppData
  <2> HIDE DEF k
  <2> QED  BY <1>2, <2>1, <2>4 DEF Stored
<1> QED  BY <1>5, <1>6

-----------------------------------------------------------------------------
(* The invariant and the refinement.                                       *)

\* No call runs and nothing is tracked at the start.
LEMMA StreamInitInv == StreamInit => Inv /\ StreamInv
<1> SUFFICES ASSUME StreamInit
             PROVE  Inv /\ StreamInv
  OBVIOUS
<1>1. Inv
  BY InitInv DEF StreamInit
<1>2. SidesSound
  BY ConnectionAssumption DEF StreamInit, SidesSound
<1>3. DOMAIN directions = {} /\ pc = "idle"
  BY DEF StreamInit, Init
<1> QED  BY <1>1, <1>2, <1>3 DEF StreamInv, OthersAligned

\* A step of the stream is a step of the open module: the packets and headers
\* of a real connection are among those TlsConstrictor allows for.
LEMMA StreamNextIsNext ==
    ASSUME Inv, StreamInv, StreamNext
    PROVE  Next
<1>1. CASE EvaluateReads
  BY <1>1, TrueHeaderFacts DEF EvaluateReads, Next
<1>2. CASE EvaluateEnds
  BY <1>2 DEF EvaluateEnds, Next
<1> QED
  BY <1>1, <1>2, SegmentAligned, SynAligned, RstAligned DEF StreamNext, Next

\* Every step keeps the invariant and is a step of the open module.
LEMMA StreamStep ==
    Inv /\ StreamInv /\ [StreamNext]_streamVars
      => Inv' /\ StreamInv' /\ [Next]_vars
<1> SUFFICES ASSUME Inv, StreamInv, [StreamNext]_streamVars
             PROVE  Inv' /\ StreamInv' /\ [Next]_vars
  OBVIOUS
<1>1. CASE StreamNext
  <2>1. StreamInv'
    BY <1>1, SegmentAligned, SynAligned, RstAligned, ReadsAligned, EndsAligned
       DEF StreamNext
  <2> QED  BY <1>1, <2>1, StreamNextIsNext, InvStep
<1>2. CASE UNCHANGED streamVars
  <2>1. UNCHANGED vars /\ UNCHANGED <<connection, from>>
    BY <1>2 DEF streamVars
  <2>2. UNCHANGED <<directions, pc, packet, scan>>
    BY <2>1 DEF vars
  <2>3. pc = "scan" => CallAligned'
    BY <2>1, <2>2
       DEF StreamInv, CallAligned, SegmentCall, OpenBehind, OpenAt, ResumesAt,
           CandidateSound, StartsCovered, StraddlerFinal, NoStraddler, WholeCut,
           Whole, Straddles, InPacket, AppData, State, PacketEnd, Stream, SeqOf,
           End_, ClampedKeepSize, SmallerOf
  <2>4. \A j \in DOMAIN directions' :
          (pc' = "idle" \/ j # packet'.key) => Aligned(j, directions'[j])
    BY <2>2 DEF StreamInv, OthersAligned
  <2>5. StreamInv'
    BY <2>1, <2>2, <2>3, <2>4, OthersKept
  <2> QED  BY <2>1, <2>5, InvStep
<1> QED  BY <1>1, <1>2

\* The invariant, for every stream and every loss, repetition and reordering.
THEOREM StreamAlways == StreamSpec => [](Inv /\ StreamInv)
BY StreamInitInv, StreamStep, PTL DEF StreamSpec

\* The tracker on real streams implements the open module, so all that is
\* proved of that one holds here: types, paired directions, cuts after a
\* handshake only, confirmation that lasts.
THEOREM StreamImplements == StreamSpec => Spec
<1>1. StreamInit => Init
  BY DEF StreamInit
<1> QED  BY <1>1, StreamStep, StreamAlways, PTL DEF StreamSpec, Spec

\* So the tracker keeps its contract on real streams: it cuts connections known
\* from a handshake to the next SYN or RST only, to no less than configured.
THEOREM StreamsKeepContract == StreamSpec => ImplementsContract
BY StreamImplements, ContractImplemented

\* Between calls, every open record is a record of the stream, entered at the
\* position of expected_tcp_seq, with its own bytes left (lines 159-186, 220-249).
THEOREM RecordsAlwaysAligned == StreamSpec => []ActiveRecordAligned
<1>1. StreamInv => ActiveRecordAligned
  BY DEF StreamInv, OthersAligned, ActiveRecordAligned
<1> QED  BY <1>1, StreamAlways, PTL

-----------------------------------------------------------------------------
(* What a cut keeps.                                                       *)

\* The call that cuts has read the packet to its end and cuts at its candidate.
LEMMA CutFacts ==
    ASSUME Inv, StreamInv, StreamNext, Cuts
    PROVE  /\ StartsCovered /\ StraddlerFinal
           /\ \E r \in Stream(packet.key) : AppData(r) /\ InPacket(r)
           /\ scan.payload_offset = packet.size
           /\ result'.kept = scan.candidate
<1>1. FinishPrefix
  BY StreamNextIsNext, CutsIsFinishPrefix
<1>2. /\ pc = "scan" /\ scan.outcome = "none" /\ scan.has_candidate
      /\ ~InLoop /\ result'.kept = scan.candidate
  BY <1>1 DEF FinishPrefix, LoopDone, Cuttable, Finish, Return
<1>3. CallAligned
  BY <1>2 DEF StreamInv
<1>4. scan.payload_offset \in Nat /\ packet.size \in Nat
  BY <1>2, CallFacts DEF Scan
<1>5. scan.payload_offset = packet.size
  BY <1>2, <1>3, <1>4 DEF InLoop, CallAligned, SegmentCall
<1> QED  BY <1>2, <1>3, <1>5 DEF CallAligned, CandidateSound

\* A cut never reaches into the start of an Application Data record, nor into
\* anything before it.
THEOREM RecordStartsAlwaysKept == StreamSpec => RecordStartsKept
<1>1. ASSUME Inv, StreamInv, StreamNext, Cuts, NEW r \in Stream(packet.key),
             r.type = "app_data", InPacket(r), from <= r.at
      PROVE  result'.kept >= (r.at - from) +
               ClampedKeepSize(KeepRecord,
                               SmallerOf(r.total, PacketEnd - r.at))
  BY <1>1, CutFacts DEF StartsCovered, InPacket, AppData, PacketEnd
<1> DEFINE Kept == Cuts => \A r \in Stream(packet.key) :
             (r.type = "app_data" /\ InPacket(r) /\ from <= r.at) =>
                result'.kept >= (r.at - from) +
                   ClampedKeepSize(KeepRecord,
                                   SmallerOf(r.total, PacketEnd - r.at))
<1>2. Inv /\ StreamInv /\ [StreamNext]_streamVars => [Kept]_streamVars
  BY <1>1
<1> QED  BY <1>2, StreamAlways, PTL DEF StreamSpec, RecordStartsKept

\* A packet that begins inside an Application Data record is cut only if that
\* record ends with it.
THEOREM CutsFinalOnly == StreamSpec => FinalOnly
<1>1. ASSUME Inv, StreamInv, StreamNext, Cuts, NEW r \in Stream(packet.key),
             r.type = "app_data", InPacket(r), r.at < from
      PROVE  /\ PacketEnd = End_(r)
             /\ result'.kept = ClampedKeepSize(KeepContinuation, packet.size)
  BY <1>1, CutFacts DEF StraddlerFinal, Straddles, InPacket, AppData
<1> DEFINE Final == Cuts => \A r \in Stream(packet.key) :
             (r.type = "app_data" /\ InPacket(r) /\ r.at < from) =>
                /\ PacketEnd = End_(r)
                /\ result'.kept = ClampedKeepSize(KeepContinuation, packet.size)
<1>2. Inv /\ StreamInv /\ [StreamNext]_streamVars => [Final]_streamVars
  BY <1>1
<1> QED  BY <1>2, StreamAlways, PTL DEF StreamSpec, FinalOnly

\* A packet without a byte of Application Data is never cut.
THEOREM ControlAlwaysKept == StreamSpec => ControlOnlyKept
<1>1. ASSUME Inv, StreamInv, StreamNext, Cuts
      PROVE  \E r \in Stream(packet.key) : r.type = "app_data" /\ InPacket(r)
  BY <1>1, CutFacts DEF AppData
<1> DEFINE Holds == Cuts => \E r \in Stream(packet.key) :
                               r.type = "app_data" /\ InPacket(r)
<1>2. Inv /\ StreamInv /\ [StreamNext]_streamVars => [Holds]_streamVars
  BY <1>1
<1> QED  BY <1>2, StreamAlways, PTL DEF StreamSpec, ControlOnlyKept

\* The call on a packet that starts with an Application Data record and holds
\* nothing else ends with the cut, if a handshake of the connection was read.
LEMMA WholeIsCut ==
    ASSUME Inv, StreamInv, StreamNext, Returns, scan.confirmed_tls,
           NEW r \in Stream(packet.key), Whole(r)
    PROVE  result' = [disposition |-> "AppDataPrefix", kept |-> KeepRecord]
<1>1. pc = "scan" /\ pc' = "idle" /\ CallAligned
  BY DEF Returns, StreamInv
<1>2. ~(SegmentArrives \/ SynArrives \/ RstArrives)
  BY <1>1 DEF SegmentArrives, SynArrives, RstArrives, Begin, EvaluateEmpty,
              EnterScan, EnterMiddle, EnterFinal, EnterPast, Enter
<1>3. ~EvaluateReads
  <2> SUFFICES ASSUME EvaluateReads
               PROVE  FALSE
    OBVIOUS
  <2>1. InLoop /\ GiveUp(TrueHeader)
    BY <1>1 DEF EvaluateReads, ReadRecord, LoseTrack, OpenRecord, SkipRecord
  <2>2. TrueHeader # NotTls
    BY <2>1, WholeHeader
  <2> QED  BY <2>1, <2>2 DEF GiveUp
<1>4. End
  BY <1>2, <1>3 DEF StreamNext, EvaluateEnds
<1>5. ~InLoop
  BY <1>4 DEF End, FinishReset, FinishUncertain, FinishMiddle, FinishWhole,
              FinishPrefix, LoopDone
<1>6. packet.size \in Nat \ {0}
  BY <1>1, CallFacts
<1>7. /\ scan.outcome = "none"
      /\ \/ scan.payload_offset = 0 /\ ~scan.has_candidate
         \/ /\ scan.payload_offset = packet.size
            /\ scan.has_candidate /\ scan.candidate = KeepRecord
            /\ State.synchronized
  BY <1>1 DEF CallAligned, WholeCut
<1>8. Cuttable /\ scan.candidate = KeepRecord
  BY <1>1, <1>5, <1>6, <1>7 DEF InLoop, Cuttable, Whole
<1>9. FinishPrefix
  BY <1>4, <1>7, <1>8 DEF End, FinishReset, FinishUncertain, FinishMiddle,
                          FinishWhole
<1> QED  BY <1>8, <1>9 DEF FinishPrefix, Finish, Return

\* So a confirmed direction recovers by itself, whatever came before.
THEOREM RecordStartsConstricted == StreamSpec => RecordStartConstricted
<1>1. ASSUME Inv, StreamInv, StreamNext, Returns, scan.confirmed_tls,
             NEW r \in Stream(packet.key),
             r.type = "app_data" /\ r.at = from /\ PacketEnd <= End_(r),
             HeaderSize <= packet.size /\ KeepRecord < packet.size
      PROVE  result' = [disposition |-> "AppDataPrefix", kept |-> KeepRecord]
  BY <1>1, WholeIsCut DEF Whole, AppData
<1> DEFINE Cut == (Returns /\ scan.confirmed_tls) =>
             \A r \in Stream(packet.key) :
                (/\ r.type = "app_data" /\ r.at = from /\ PacketEnd <= End_(r)
                 /\ HeaderSize <= packet.size /\ KeepRecord < packet.size) =>
                    result' = [disposition |-> "AppDataPrefix",
                               kept |-> KeepRecord]
<1>2. Inv /\ StreamInv /\ [StreamNext]_streamVars => [Cut]_streamVars
  BY <1>1
<1> QED  BY <1>2, StreamAlways, PTL DEF StreamSpec, RecordStartConstricted
=============================================================================
