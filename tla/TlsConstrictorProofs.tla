------------------------ MODULE TlsConstrictorProofs ------------------------
(***************************************************************************)
(* Proofs about TlsConstrictor for every set of directions, header size,   *)
(* keep sizes, record lengths, payload bound and sequence space.           *)
(*                                                                         *)
(* The invariant is not inductive between calls only, because a call may   *)
(* create an entry (line 134) that it erases or confirms later: Inv says   *)
(* what that entry may look like while the call runs.                      *)
(***************************************************************************)
EXTENDS TlsConstrictor, TLAPS

\* directions_ holds tracked directions with well-typed states.
TypedMap(d) ==
    /\ DOMAIN d \subseteq DirectionKey
    /\ \A k \in DOMAIN d : d[k] \in DirectionState

\* Tracking in sync, and having an open record, follow from each other's
\* preconditions: an open record needs sync, sync needs confirmation.
StateSound(s) ==
    /\ s.has_active_record => s.synchronized /\ s.active_record_remaining_bytes > 0
    /\ s.synchronized => s.confirmed_tls

StatesSound(d) == \A k \in DOMAIN d : StateSound(d[k])

\* The directions of S are confirmed, and tracked together with their reverse.
PairedOn(d, S) ==
    \A k \in S : d[k].confirmed_tls /\ Reverse(k) \in DOMAIN d

\* Confirmation has a witness: a handshake that was read.
ConfirmationWitnessed(d, seen) ==
    \A k \in DOMAIN d : d[k].confirmed_tls => k \in seen

\* The entry the running call works on.
CallSound ==
    /\ packet.size > 0
    /\ scan.payload_offset > 0 \/ scan.outcome # "none" => State.synchronized
    /\ scan.confirmed_tls => State.confirmed_tls
    /\ State.confirmed_tls => State.synchronized \/ scan.confirmed_tls
    /\ State.confirmed_tls => Reverse(packet.key) \in DOMAIN directions
    /\ ~State.confirmed_tls =>
           Reverse(packet.key) \notin DOMAIN directions \ {packet.key}

Inv ==
    /\ TypeOK
    /\ StatesSound(directions)
    /\ ConfirmationWitnessed(directions, handshake_seen)
    /\ IF pc = "scan"
       THEN /\ CallSound
            /\ PairedOn(directions, DOMAIN directions \ {packet.key})
       ELSE PairedOn(directions, DOMAIN directions)

-----------------------------------------------------------------------------
(* Data lemmas.                                                            *)

LEMMA ReverseFacts ==
    ASSUME NEW k \in DirectionKey
    PROVE  Reverse(k) \in DirectionKey /\ Reverse(Reverse(k)) = k
BY DirectionKeyAssumption DEF Reverse

\* What operator[] default-constructs is well typed, sound and unconfirmed.
LEMMA FreshFacts ==
    /\ FreshState \in DirectionState
    /\ StateSound(FreshState)
    /\ ~FreshState.confirmed_tls
    /\ ~FreshState.synchronized
BY BoundsAssumption DEF FreshState, DirectionState, StateSound, Seq32

\* Assigning to an entry changes that entry only.
LEMMA StoredFacts ==
    ASSUME NEW d, TypedMap(d), NEW k \in DirectionKey,
           NEW s \in DirectionState
    PROVE  /\ TypedMap(Stored(d, k, s))
           /\ DOMAIN Stored(d, k, s) = DOMAIN d \cup {k}
           /\ Stored(d, k, s)[k] = s
           /\ \A j \in DOMAIN d \ {k} : Stored(d, k, s)[j] = d[j]
BY DEF TypedMap, Stored

\* Erasing leaves the other entries as they are.
LEMMA ErasedFacts ==
    ASSUME NEW d, TypedMap(d), NEW S
    PROVE  /\ TypedMap(Erased(d, S))
           /\ DOMAIN Erased(d, S) = DOMAIN d \ S
           /\ \A j \in DOMAIN d \ S : Erased(d, S)[j] = d[j]
BY DEF TypedMap, Erased

\* Reading an entry yields a well-typed, sound state.
LEMMA EntryFacts ==
    ASSUME NEW d, TypedMap(d), StatesSound(d), NEW k
    PROVE  /\ Entry(d, k) \in DirectionState
           /\ StateSound(Entry(d, k))
           /\ k \in DOMAIN d => Entry(d, k) = d[k]
           /\ k \notin DOMAIN d => ~Entry(d, k).confirmed_tls
BY FreshFacts DEF Entry, TypedMap, StatesSound

\* Dropping the open record keeps a state well typed and sound.
LEMMA ClearActiveFacts ==
    ASSUME NEW s \in DirectionState, StateSound(s)
    PROVE  /\ ClearActive(s) \in DirectionState
           /\ StateSound(ClearActive(s))
           /\ ~ClearActive(s).has_active_record
           /\ ClearActive(s).synchronized = s.synchronized
           /\ ClearActive(s).confirmed_tls = s.confirmed_tls
BY DEF ClearActive, DirectionState, StateSound

\* So does giving up the sequence, as lines 146-150 do after ClearActive.
LEMMA DesyncFacts ==
    ASSUME NEW c \in DirectionState, ~c.has_active_record,
           NEW r, r = [c EXCEPT !.synchronized = FALSE, !.expected_tcp_seq = 0]
    PROVE  /\ r \in DirectionState
           /\ StateSound(r)
           /\ r.confirmed_tls = c.confirmed_tls
<1>1. 0 \in Seq32
  BY BoundsAssumption DEF Seq32
<1>2. r \in DirectionState
  BY <1>1 DEF DirectionState
<1>3. /\ r.has_active_record = c.has_active_record
      /\ r.confirmed_tls = c.confirmed_tls
      /\ r.synchronized = FALSE
  BY DEF DirectionState
<1>4. QED BY <1>2, <1>3 DEF StateSound

\* So does the sequence check of lines 146-150.
LEMMA CheckSeqFacts ==
    ASSUME NEW s \in DirectionState, StateSound(s), NEW p
    PROVE  /\ CheckSeq(s, p) \in DirectionState
           /\ StateSound(CheckSeq(s, p))
           /\ CheckSeq(s, p).confirmed_tls = s.confirmed_tls
<1>1. CASE s.synchronized /\ p.tcp_seq # s.expected_tcp_seq
  <2>1. CheckSeq(s, p) =
          [ClearActive(s) EXCEPT !.synchronized = FALSE, !.expected_tcp_seq = 0]
    BY <1>1 DEF CheckSeq
  <2>2. QED BY <2>1, ClearActiveFacts, DesyncFacts, Zenon
<1>2. CASE ~(s.synchronized /\ p.tcp_seq # s.expected_tcp_seq)
  BY <1>2 DEF CheckSeq
<1>3. QED BY <1>1, <1>2

-----------------------------------------------------------------------------
(* Entering a call.                                                        *)

\* What a SYN or RST erases leaves a well-typed, sound map.
LEMMA AfterSynOrRstFacts ==
    ASSUME TypedMap(directions), StatesSound(directions), NEW p \in Packet
    PROVE  /\ TypedMap(AfterSynOrRst(p))
           /\ StatesSound(AfterSynOrRst(p))
           /\ DOMAIN AfterSynOrRst(p) =
                DOMAIN directions \
                  (IF p.syn_or_rst THEN Connection(p.key) ELSE {})
           /\ \A k \in DOMAIN AfterSynOrRst(p) :
                AfterSynOrRst(p)[k] = directions[k]
<1>1. CASE p.syn_or_rst
  <2>1. AfterSynOrRst(p) = Erased(directions, Connection(p.key))
    BY <1>1 DEF AfterSynOrRst
  <2>2. QED BY <1>1, <2>1, ErasedFacts DEF StatesSound
<1>2. CASE ~p.syn_or_rst
  BY <1>2 DEF AfterSynOrRst
<1>3. QED BY <1>1, <1>2

\* A SYN or RST takes a connection's directions away together.
LEMMA AfterSynOrRstPaired ==
    ASSUME TypedMap(directions), StatesSound(directions),
           PairedOn(directions, DOMAIN directions),
           ConfirmationWitnessed(directions, handshake_seen),
           handshake_seen \subseteq DirectionKey, NEW p \in Packet
    PROVE  /\ PairedOn(AfterSynOrRst(p), DOMAIN AfterSynOrRst(p))
           /\ ConfirmationWitnessed(AfterSynOrRst(p), HandshakesAfter(p))
           /\ HandshakesAfter(p) \subseteq DirectionKey
<1> DEFINE d == AfterSynOrRst(p)
           gone == IF p.syn_or_rst THEN Connection(p.key) ELSE {}
<1>1. /\ DOMAIN d = DOMAIN directions \ gone
      /\ \A k \in DOMAIN d : d[k] = directions[k]
  BY AfterSynOrRstFacts
<1>2. HandshakesAfter(p) = handshake_seen \ gone
  BY DEF HandshakesAfter
<1>3. p.key \in DirectionKey
  BY DEF Packet
<1> HIDE DEF d
<1>4. \A k \in DirectionKey : Reverse(k) \in gone => k \in gone
  BY <1>3, ReverseFacts DEF Connection
<1>5. PairedOn(d, DOMAIN d)
  BY <1>1, <1>4 DEF PairedOn, TypedMap
<1>6. ConfirmationWitnessed(d, HandshakesAfter(p))
  BY <1>1, <1>2 DEF ConfirmationWitnessed
<1>7. QED BY <1>2, <1>5, <1>6 DEF d

\* The state the record loop starts from.
LEMMA OpenedFacts ==
    ASSUME TypedMap(directions), StatesSound(directions), NEW p \in Packet
    PROVE  /\ Opened(p) \in DirectionState
           /\ StateSound(Opened(p))
           /\ Opened(p).confirmed_tls
                = Entry(AfterSynOrRst(p), p.key).confirmed_tls
<1>1. /\ Entry(AfterSynOrRst(p), p.key) \in DirectionState
      /\ StateSound(Entry(AfterSynOrRst(p), p.key))
  BY AfterSynOrRstFacts, EntryFacts
<1>2. QED BY <1>1, CheckSeqFacts DEF Opened

\* TypeOK, cut into the map and the rest.
LEMMA TypeOKMap == TypeOK <=>
    /\ TypedMap(directions)
    /\ pc \in {"idle", "scan"}
    /\ result \in Result
    /\ handshake_seen \subseteq DirectionKey
    /\ IF pc = "scan" THEN /\ packet \in Packet
                           /\ packet.key \in DOMAIN directions
                           /\ scan \in Scan
                      ELSE packet = NoPacket /\ scan = NoScan
BY DEF TypeOK, TypedMap

\* Lines 134-186 keep the invariant, whatever branch they take: s is a sound
\* state with the confirmation of the entry read at line 134, and a branch
\* that skips bytes or sets a flag leaves the direction in sync.
LEMMA EnterInv ==
    ASSUME Inv, NEW p \in Packet, NEW s \in DirectionState, StateSound(s),
           s.confirmed_tls = Entry(AfterSynOrRst(p), p.key).confirmed_tls,
           NEW sc \in Scan, sc.confirmed_tls = s.confirmed_tls,
           sc.payload_offset > 0 \/ sc.outcome # "none" => s.synchronized,
           Enter(p, s, sc)
    PROVE  Inv'
<1> DEFINE d == AfterSynOrRst(p)
<1>1. /\ pc = "idle" /\ pc' = "scan"
      /\ packet' = p /\ p.size > 0 /\ scan' = sc
      /\ directions' = Stored(d, p.key, s)
      /\ handshake_seen' = HandshakesAfter(p)
      /\ result' = [disposition |-> "NoRecord", kept |-> p.size]
  BY DEF Enter
<1>2. /\ TypedMap(d) /\ StatesSound(d)
      /\ PairedOn(d, DOMAIN d)
      /\ ConfirmationWitnessed(d, HandshakesAfter(p))
      /\ HandshakesAfter(p) \subseteq DirectionKey
  BY <1>1, AfterSynOrRstFacts, AfterSynOrRstPaired, TypeOKMap DEF Inv
<1>3. p.key \in DirectionKey /\ p.size \in Nat
  BY BoundsAssumption DEF Packet
<1>4. /\ p.key \in DOMAIN d => s.confirmed_tls = d[p.key].confirmed_tls
      /\ p.key \notin DOMAIN d => ~s.confirmed_tls
  BY <1>2, EntryFacts
<1> HIDE DEF d
<1>5. /\ TypedMap(directions')
      /\ DOMAIN directions' = DOMAIN d \cup {p.key}
      /\ directions'[p.key] = s
      /\ \A j \in DOMAIN d \ {p.key} : directions'[j] = d[j]
  BY <1>1, <1>2, <1>3, StoredFacts
<1>6. TypeOK'
  <2>1. result' \in Result
    BY <1>1, <1>3 DEF Result, Disposition
  <2>2. QED BY <1>1, <1>2, <1>5, <2>1 DEF TypeOK, TypedMap
<1>7. StatesSound(directions')
  BY <1>2, <1>5 DEF StatesSound
<1>8. ConfirmationWitnessed(directions', handshake_seen')
  BY <1>1, <1>2, <1>4, <1>5 DEF ConfirmationWitnessed
<1>9. PairedOn(directions', DOMAIN directions' \ {p.key})
  BY <1>2, <1>5 DEF PairedOn
<1>10. CallSound'
  <2>1. State' = s
    BY <1>1, <1>5 DEF State
  <2>2. s.confirmed_tls => Reverse(p.key) \in DOMAIN directions'
    BY <1>2, <1>4, <1>5 DEF PairedOn
  <2>3. ~s.confirmed_tls => Reverse(p.key) \notin DOMAIN directions' \ {p.key}
    <3>1. SUFFICES ASSUME Reverse(p.key) \in DOMAIN d
                   PROVE  s.confirmed_tls
      BY <1>5
    <3>2. p.key \in DOMAIN d
      BY <1>2, <1>3, <3>1, ReverseFacts DEF PairedOn
    <3>3. QED BY <1>2, <1>4, <3>2 DEF PairedOn
  <2>4. QED BY <1>1, <2>1, <2>2, <2>3 DEF CallSound
<1>11. QED BY <1>1, <1>6, <1>7, <1>8, <1>9, <1>10 DEF Inv

\* Each way into a call with payload stores a sound state with the
\* confirmation of the entry read at line 134, skips bytes or sets a flag in
\* sync only, and starts from a candidate only if the open record ends with
\* the packet.
EntersWith(p, s, sc) ==
    /\ Enter(p, s, sc)
    /\ StateSound(s)
    /\ s.confirmed_tls = Entry(AfterSynOrRst(p), p.key).confirmed_tls
    /\ sc.confirmed_tls = s.confirmed_tls
    /\ sc.payload_offset > 0 \/ sc.outcome # "none" => s.synchronized
    /\ sc.has_candidate =>
          sc.candidate = ClampedKeepSize(KeepContinuation, p.size)

LEMMA BeginShape ==
    ASSUME TypedMap(directions), StatesSound(directions),
           NEW p \in Packet, Begin(p), ~EvaluateEmpty(p)
    PROVE  \E s \in DirectionState, sc \in Scan : EntersWith(p, s, sc)
<1> DEFINE s == Opened(p)
<1>0. p.size \in Nat
  BY BoundsAssumption DEF Packet
<1>1. /\ s \in DirectionState /\ StateSound(s)
      /\ s.confirmed_tls = Entry(AfterSynOrRst(p), p.key).confirmed_tls
  BY OpenedFacts
<1>2. /\ ClearActive(s) \in DirectionState
      /\ StateSound(ClearActive(s))
      /\ ClearActive(s).synchronized = s.synchronized
      /\ ClearActive(s).confirmed_tls = s.confirmed_tls
  BY <1>1, ClearActiveFacts
<1>3. /\ s.active_record_remaining_bytes \in Nat
      /\ s.confirmed_tls \in BOOLEAN
      /\ s.has_active_record => s.synchronized
  BY <1>1 DEF DirectionState, StateSound
<1>4. \A n \in Nat : /\ FirstScan(p, n) \in Scan
                     /\ FirstScan(p, n).confirmed_tls = s.confirmed_tls
                     /\ FirstScan(p, n).payload_offset = n
                     /\ FirstScan(p, n).outcome = "none"
                     /\ ~FirstScan(p, n).has_candidate
  BY <1>0, <1>1, <1>3 DEF FirstScan, Scan, Outcome
<1>5. CASE EnterScan(p)
  <2>1. Enter(p, s, FirstScan(p, 0))
    BY <1>5 DEF EnterScan
  <2> HIDE DEF s
  <2>2. EntersWith(p, s, FirstScan(p, 0))
    BY <1>1, <1>4, <2>1 DEF EntersWith
  <2> QED
    BY <1>1, <1>4, <2>2
<1>6. CASE EnterMiddle(p)
  <2> DEFINE t == [s EXCEPT !.active_record_remaining_bytes = @ - p.size]
             sc == [FirstScan(p, p.size) EXCEPT
                      !.outcome = IF s.active_record_constrictible
                                  THEN "middle" ELSE "none"]
  <2>1. /\ s.has_active_record
        /\ s.active_record_remaining_bytes > p.size
        /\ Enter(p, t, sc)
    BY <1>6 DEF EnterMiddle
  <2> HIDE DEF s
  <2>2. /\ t \in DirectionState
        /\ t.confirmed_tls = s.confirmed_tls
        /\ t.synchronized = s.synchronized
        /\ t.active_record_remaining_bytes > 0
    BY <1>0, <1>1, <1>3, <2>1 DEF DirectionState
  <2>3. StateSound(t)
    BY <1>1, <1>3, <2>1, <2>2 DEF StateSound
  <2>4. /\ sc \in Scan /\ sc.confirmed_tls = s.confirmed_tls
        /\ ~sc.has_candidate
    BY <1>0, <1>4 DEF Scan, Outcome
  <2> HIDE DEF t, sc
  <2>5. EntersWith(p, t, sc)
    BY <1>1, <1>3, <2>1, <2>2, <2>3, <2>4 DEF EntersWith
  <2> QED
    BY <2>2, <2>4, <2>5
<1>7. CASE EnterFinal(p)
  <2> DEFINE sc == IF s.active_record_constrictible
                   THEN [FirstScan(p, p.size) EXCEPT
                           !.candidate = ClampedKeepSize(KeepContinuation, p.size),
                           !.has_candidate = TRUE]
                   ELSE FirstScan(p, p.size)
  <2>1. s.has_active_record /\ Enter(p, ClearActive(s), sc)
    BY <1>7 DEF EnterFinal
  <2>2. ClampedKeepSize(KeepContinuation, p.size) \in Nat
    BY <1>0, KeepAssumption DEF ClampedKeepSize, SmallerOf
  <2> HIDE DEF s
  <2>3. /\ sc \in Scan /\ sc.confirmed_tls = s.confirmed_tls
        /\ sc.has_candidate =>
              sc.candidate = ClampedKeepSize(KeepContinuation, p.size)
    BY <1>0, <1>4, <2>2 DEF Scan
  <2> HIDE DEF sc
  <2>4. EntersWith(p, ClearActive(s), sc)
    BY <1>1, <1>2, <1>3, <2>1, <2>3 DEF EntersWith
  <2> QED
    BY <1>2, <2>3, <2>4
<1>8. CASE EnterPast(p)
  <2> DEFINE sc == [FirstScan(p, s.active_record_remaining_bytes) EXCEPT
                      !.outcome = IF s.active_record_constrictible
                                  THEN "reset" ELSE "none"]
  <2>1. s.has_active_record /\ Enter(p, ClearActive(s), sc)
    BY <1>8 DEF EnterPast
  <2> HIDE DEF s
  <2>2. /\ sc \in Scan /\ sc.confirmed_tls = s.confirmed_tls
        /\ ~sc.has_candidate
    BY <1>3, <1>4 DEF Scan, Outcome
  <2> HIDE DEF sc
  <2>3. EntersWith(p, ClearActive(s), sc)
    BY <1>1, <1>2, <1>3, <2>1, <2>2 DEF EntersWith
  <2> QED
    BY <1>2, <2>2, <2>3
<1> QED
  BY <1>5, <1>6, <1>7, <1>8 DEF Begin

\* Each way into the record loop keeps the invariant.
LEMMA BeginInv ==
    ASSUME Inv, NEW p \in Packet, Begin(p)
    PROVE  Inv'
<1>1. CASE EvaluateEmpty(p)
  <2>1. /\ pc = "idle" /\ pc' = pc /\ packet' = packet /\ scan' = scan
        /\ directions' = AfterSynOrRst(p)
        /\ handshake_seen' = HandshakesAfter(p)
        /\ result' = [disposition |-> "NoApplicationData", kept |-> 0]
    BY <1>1 DEF EvaluateEmpty
  <2>2. /\ TypedMap(directions') /\ StatesSound(directions')
        /\ PairedOn(directions', DOMAIN directions')
        /\ ConfirmationWitnessed(directions', handshake_seen')
        /\ handshake_seen' \subseteq DirectionKey
    BY <2>1, AfterSynOrRstFacts, AfterSynOrRstPaired, TypeOKMap DEF Inv
  <2>3. result' \in Result
    BY <2>1 DEF Result, Disposition
  <2>4. TypeOK'
    BY <2>1, <2>2, <2>3 DEF TypeOK, TypedMap, Inv
  <2> QED
    BY <2>1, <2>2, <2>4 DEF Inv
<1>2. CASE ~EvaluateEmpty(p)
  <2>1. TypedMap(directions) /\ StatesSound(directions)
    BY TypeOKMap DEF Inv
  <2>2. PICK s \in DirectionState, sc \in Scan : EntersWith(p, s, sc)
    BY <1>2, <2>1, BeginShape
  <2> QED
    BY <2>2, EnterInv DEF EntersWith
<1> QED
  BY <1>1, <1>2

-----------------------------------------------------------------------------
(* The record loop.                                                        *)

\* What the invariant says of the running call.
LEMMA CallFacts ==
    ASSUME Inv, pc = "scan"
    PROVE  /\ TypedMap(directions) /\ StatesSound(directions)
           /\ ConfirmationWitnessed(directions, handshake_seen)
           /\ handshake_seen \subseteq DirectionKey
           /\ PairedOn(directions, DOMAIN directions \ {packet.key})
           /\ CallSound
           /\ packet \in Packet /\ packet.key \in DirectionKey
           /\ packet.size \in Nat \ {0} /\ packet.tcp_seq \in Nat
           /\ packet.key \in DOMAIN directions
           /\ scan \in Scan /\ result \in Result
           /\ State \in DirectionState /\ StateSound(State)
<1>1. /\ packet \in Packet
      /\ packet.key \in DOMAIN directions
      /\ TypedMap(directions) /\ StatesSound(directions)
  BY TypeOKMap DEF Inv
<1>2. /\ packet.key \in DirectionKey
      /\ packet.size \in Nat /\ packet.tcp_seq \in Nat
  BY <1>1, BoundsAssumption DEF Packet, Seq32
<1>3. State \in DirectionState /\ StateSound(State)
  BY <1>1 DEF State, TypedMap, StatesSound
<1>4. packet.size # 0
  BY <1>2 DEF Inv, CallSound
<1>5. QED BY <1>1, <1>2, <1>3, <1>4, TypeOKMap DEF Inv

\* A step of the loop that keeps the entry in sync keeps the invariant.
LEMMA ScanStepInv ==
    ASSUME Inv, pc = "scan", pc' = pc, packet' = packet, result' = result,
           scan' \in Scan, scan'.confirmed_tls = scan.confirmed_tls,
           TypedMap(directions'), StatesSound(directions'),
           ConfirmationWitnessed(directions', handshake_seen'),
           handshake_seen' \subseteq DirectionKey,
           PairedOn(directions', DOMAIN directions'),
           packet.key \in DOMAIN directions',
           directions'[packet.key].synchronized
    PROVE  Inv'
<1>1. TypeOK'
  BY CallFacts DEF TypeOK, TypedMap
<1>2. State' = directions'[packet.key]
  BY DEF State
<1>3. State'.confirmed_tls /\ Reverse(packet.key) \in DOMAIN directions'
  BY <1>2 DEF PairedOn
<1>4. CallSound'
  BY <1>2, <1>3, CallFacts DEF CallSound
<1>5. PairedOn(directions', DOMAIN directions' \ {packet.key})
  BY DEF PairedOn
<1>6. QED BY <1>1, <1>4, <1>5 DEF Inv

\* Accepting a header (lines 203-213) leaves a sound map in which the
\* direction is in sync and every direction is paired.
LEMMA ConfirmedFacts ==
    ASSUME Inv, NEW h, Accepted(h)
    PROVE  /\ TypedMap(Confirmed(h)) /\ StatesSound(Confirmed(h))
           /\ packet.key \in DOMAIN Confirmed(h)
           /\ Confirmed(h)[packet.key].synchronized
           /\ Confirmed(h)[packet.key].confirmed_tls
           /\ PairedOn(Confirmed(h), DOMAIN Confirmed(h))
           /\ ConfirmationWitnessed(Confirmed(h), HandshakesWith(h))
           /\ HandshakesWith(h) \subseteq DirectionKey
<1> DEFINE k == packet.key
           s == [State EXCEPT !.synchronized = TRUE,
                              !.confirmed_tls = @ \/ h.type = "handshake"]
           d == Stored(directions, k, s)
           r == [Entry(d, Reverse(k)) EXCEPT !.confirmed_tls = TRUE]
           e == Stored(d, Reverse(k), r)
<1>0. pc = "scan"
  BY DEF Accepted, InLoop
<1>1. /\ TypedMap(directions) /\ StatesSound(directions)
      /\ ConfirmationWitnessed(directions, handshake_seen)
      /\ handshake_seen \subseteq DirectionKey
      /\ PairedOn(directions, DOMAIN directions \ {k})
      /\ CallSound
      /\ k \in DirectionKey /\ k \in DOMAIN directions
      /\ State \in DirectionState /\ StateSound(State)
      /\ State = directions[k]
  BY <1>0, CallFacts DEF State
<1>2. Reverse(k) \in DirectionKey /\ Reverse(Reverse(k)) = k
  BY <1>1, ReverseFacts
<1>3. h.type = "handshake" \/ State.confirmed_tls
  BY <1>1 DEF Accepted, CallSound, StateSound
<1>4. /\ s \in DirectionState
      /\ s.synchronized = TRUE
      /\ s.confirmed_tls
      /\ s.has_active_record = State.has_active_record
      /\ s.active_record_remaining_bytes = State.active_record_remaining_bytes
  BY <1>1, <1>3 DEF DirectionState
<1>5. StateSound(s)
  BY <1>1, <1>4 DEF StateSound
<1>6. Confirmed(h) = IF h.type = "handshake" THEN e ELSE d
  BY DEF Confirmed
<1> HIDE DEF s
<1>7. /\ TypedMap(d) /\ DOMAIN d = DOMAIN directions
      /\ d[k] = s
      /\ \A j \in DOMAIN directions \ {k} : d[j] = directions[j]
  BY <1>1, <1>4, StoredFacts
<1> HIDE DEF d
<1>8. StatesSound(d)
  BY <1>1, <1>5, <1>7 DEF StatesSound
<1>9. CASE h.type = "handshake"
  <2>1. /\ Entry(d, Reverse(k)) \in DirectionState
        /\ StateSound(Entry(d, Reverse(k)))
        /\ Reverse(k) \in DOMAIN d => Entry(d, Reverse(k)) = d[Reverse(k)]
    BY <1>7, <1>8, EntryFacts
  <2>2. /\ r \in DirectionState
        /\ r.confirmed_tls = TRUE
        /\ r.synchronized = Entry(d, Reverse(k)).synchronized
        /\ r.has_active_record = Entry(d, Reverse(k)).has_active_record
        /\ r.active_record_remaining_bytes
             = Entry(d, Reverse(k)).active_record_remaining_bytes
    BY <2>1 DEF DirectionState
  <2>3. StateSound(r)
    BY <2>1, <2>2 DEF StateSound
  <2> HIDE DEF r
  <2>4. /\ TypedMap(e) /\ DOMAIN e = DOMAIN directions \cup {Reverse(k)}
        /\ e[Reverse(k)] = r
        /\ \A j \in DOMAIN d \ {Reverse(k)} : e[j] = d[j]
    <3>1. TypedMap(d) /\ DOMAIN d = DOMAIN directions
      BY <1>7
    <3>2. Reverse(k) \in DirectionKey /\ r \in DirectionState
      BY <1>2, <2>2
    <3>3. e = Stored(d, Reverse(k), r)
      OBVIOUS
    <3> HIDE DEF e, k
    <3>4. /\ TypedMap(Stored(d, Reverse(k), r))
          /\ DOMAIN Stored(d, Reverse(k), r) = DOMAIN d \cup {Reverse(k)}
          /\ Stored(d, Reverse(k), r)[Reverse(k)] = r
          /\ \A j \in DOMAIN d \ {Reverse(k)} :
                Stored(d, Reverse(k), r)[j] = d[j]
      BY <3>1, <3>2, StoredFacts, Zenon
    <3>5. QED BY <3>1, <3>3, <3>4
  <2>5. e[k].synchronized /\ e[k].confirmed_tls
    BY <1>1, <1>4, <1>7, <2>1, <2>2, <2>4
  <2> HIDE DEF e
  <2>6. StatesSound(e)
    BY <1>7, <1>8, <2>3, <2>4 DEF StatesSound
  <2>7. PairedOn(e, DOMAIN e)
    BY <1>1, <1>2, <1>7, <2>2, <2>4, <2>5 DEF PairedOn
  <2>8. /\ ConfirmationWitnessed(e, HandshakesWith(h))
        /\ HandshakesWith(h) \subseteq DirectionKey
    BY <1>1, <1>2, <1>7, <1>9, <2>4
       DEF ConfirmationWitnessed, HandshakesWith, Connection
  <2>9. QED BY <1>1, <1>6, <1>9, <2>4, <2>5, <2>6, <2>7, <2>8
<1>10. CASE h.type # "handshake"
  <2>1. PairedOn(d, DOMAIN d)
    BY <1>1, <1>3, <1>4, <1>7, <1>10 DEF PairedOn, CallSound
  <2>2. ConfirmationWitnessed(d, HandshakesWith(h))
    BY <1>1, <1>3, <1>7, <1>10 DEF ConfirmationWitnessed, HandshakesWith
  <2>3. HandshakesWith(h) \subseteq DirectionKey
    BY <1>1, <1>10 DEF HandshakesWith
  <2>4. QED BY <1>1, <1>4, <1>6, <1>7, <1>8, <1>10, <2>1, <2>2, <2>3
<1>11. QED BY <1>9, <1>10

\* The locals after a record stay well typed.
LEMMA ScanAfterFacts ==
    ASSUME scan \in Scan, NEW h, NEW here \in Nat
    PROVE  /\ ScanAfter(h, here) \in Scan
           /\ ScanAfter(h, here).confirmed_tls = scan.confirmed_tls
<1>1. ClampedKeepSize(KeepRecord, here) \in Nat
  BY KeepAssumption DEF ClampedKeepSize, SmallerOf
<1>2. /\ scan.payload_offset + here \in Nat
      /\ scan.payload_offset + ClampedKeepSize(KeepRecord, here) \in Nat
  BY <1>1 DEF Scan
<1>3. CASE h.type = "app_data"
  BY <1>2, <1>3 DEF ScanAfter, Scan
<1>4. CASE h.type # "app_data"
  BY <1>2, <1>4 DEF ScanAfter, Scan
<1>5. QED BY <1>3, <1>4

\* Each return leaves the invariant to the map it leaves behind.
LEMMA ReturnInv ==
    ASSUME Inv, pc = "scan", NEW disposition \in Disposition, NEW kept \in Nat,
           Return(disposition, kept), UNCHANGED handshake_seen,
           TypedMap(directions'), StatesSound(directions'),
           ConfirmationWitnessed(directions', handshake_seen),
           PairedOn(directions', DOMAIN directions')
    PROVE  Inv'
<1>1. result' \in Result
  BY DEF Return, Result
<1>2. TypeOK'
  BY <1>1, CallFacts DEF Return, TypeOK, TypedMap
<1>3. QED BY <1>2 DEF Inv, Return

\* Erasing the entry of an unconfirmed direction leaves the others paired.
LEMMA EraseInv ==
    ASSUME Inv, pc = "scan", ~State.confirmed_tls
    PROVE  /\ TypedMap(Erased(directions, {packet.key}))
           /\ StatesSound(Erased(directions, {packet.key}))
           /\ ConfirmationWitnessed(Erased(directions, {packet.key}),
                                    handshake_seen)
           /\ PairedOn(Erased(directions, {packet.key}),
                       DOMAIN Erased(directions, {packet.key}))
<1> DEFINE k == packet.key
           d == Erased(directions, {k})
<1>1. /\ TypedMap(d)
      /\ DOMAIN d = DOMAIN directions \ {k}
      /\ \A j \in DOMAIN directions \ {k} : d[j] = directions[j]
  BY CallFacts, ErasedFacts
<1> HIDE DEF d
<1>2. StatesSound(d) /\ ConfirmationWitnessed(d, handshake_seen)
  BY <1>1, CallFacts DEF StatesSound, ConfirmationWitnessed
<1>3. ASSUME NEW j \in DOMAIN d
      PROVE  d[j].confirmed_tls /\ Reverse(j) \in DOMAIN d
  <2>1. /\ directions[j].confirmed_tls /\ Reverse(j) \in DOMAIN directions
        /\ j \in DirectionKey
    BY <1>1, CallFacts DEF PairedOn, TypedMap
  <2>2. Reverse(j) # k
    <3>1. SUFFICES ASSUME Reverse(j) = k
                   PROVE  FALSE
      OBVIOUS
    <3>2. Reverse(k) = j
      BY <2>1, <3>1, ReverseFacts
    <3>3. QED BY <1>1, <3>2, CallFacts DEF CallSound
  <2>3. QED BY <1>1, <2>1, <2>2
<1>4. PairedOn(d, DOMAIN d)
  BY <1>3 DEF PairedOn
<1>5. QED BY <1>1, <1>2, <1>4 DEF d

\* Replacing the entry of a confirmed direction by a sound, confirmed state
\* leaves every direction paired.
LEMMA ReplaceInv ==
    ASSUME Inv, pc = "scan", State.confirmed_tls,
           NEW s \in DirectionState, StateSound(s), s.confirmed_tls
    PROVE  /\ TypedMap(Stored(directions, packet.key, s))
           /\ StatesSound(Stored(directions, packet.key, s))
           /\ ConfirmationWitnessed(Stored(directions, packet.key, s),
                                    handshake_seen)
           /\ PairedOn(Stored(directions, packet.key, s),
                       DOMAIN Stored(directions, packet.key, s))
<1> DEFINE d == Stored(directions, packet.key, s)
<1>1. /\ TypedMap(d) /\ DOMAIN d = DOMAIN directions
      /\ d[packet.key] = s
      /\ \A j \in DOMAIN directions \ {packet.key} : d[j] = directions[j]
  <2>1. /\ TypedMap(directions) /\ packet.key \in DirectionKey
        /\ packet.key \in DOMAIN directions
    BY CallFacts
  <2>2. /\ TypedMap(d) /\ DOMAIN d = DOMAIN directions \cup {packet.key}
        /\ d[packet.key] = s
        /\ \A j \in DOMAIN directions \ {packet.key} : d[j] = directions[j]
    BY <2>1 DEF TypedMap, Stored
  <2> HIDE DEF d
  <2>3. QED BY <2>1, <2>2
<1> HIDE DEF d
<1>2. StatesSound(d)
  BY <1>1, CallFacts DEF StatesSound
<1>3. ConfirmationWitnessed(d, handshake_seen)
  BY <1>1, CallFacts DEF ConfirmationWitnessed, State
<1>4. PairedOn(d, DOMAIN d)
  BY <1>1, CallFacts DEF PairedOn, CallSound
<1>5. QED BY <1>1, <1>2, <1>3, <1>4 DEF d

\* A turn of the record loop keeps the invariant.
LEMMA ReadRecordInv ==
    ASSUME Inv, NEW h \in Header \cup {NotTls}, ReadRecord(h)
    PROVE  Inv'
<1>0. pc = "scan"
  BY DEF ReadRecord, GiveUp, LoseTrack, OpenRecord, SkipRecord, Accepted, InLoop
<1>1. CASE GiveUp(h)
  <2>1. /\ ~State.synchronized
        /\ directions' = IF scan.confirmed_tls THEN directions
                         ELSE Erased(directions, {packet.key})
        /\ Return("NoRecord", packet.size)
        /\ UNCHANGED handshake_seen
    BY <1>1 DEF GiveUp
  <2>2. "NoRecord" \in Disposition /\ packet.size \in Nat
    BY <1>0, CallFacts DEF Disposition
  <2>3. CASE scan.confirmed_tls
    <3>1. State.confirmed_tls
      BY <1>0, <2>3, CallFacts DEF CallSound
    <3>2. PairedOn(directions, DOMAIN directions)
      BY <1>0, <3>1, CallFacts DEF PairedOn, CallSound, State
    <3>3. QED BY <1>0, <2>1, <2>2, <2>3, <3>2, CallFacts, ReturnInv
  <2>4. CASE ~scan.confirmed_tls
    <3>1. ~State.confirmed_tls
      BY <1>0, <2>1, <2>4, CallFacts DEF CallSound
    <3>2. QED BY <1>0, <2>1, <2>2, <2>4, <3>1, EraseInv, ReturnInv
  <2>5. QED BY <2>3, <2>4
<1>2. CASE LoseTrack(h)
  <2> DEFINE sc == [scan EXCEPT !.outcome = "uncertain"]
  <2>1. /\ State.synchronized
        /\ scan' = sc
        /\ UNCHANGED <<directions, pc, packet, result, handshake_seen>>
    BY <1>2 DEF LoseTrack
  <2>2. sc \in Scan /\ sc.confirmed_tls = scan.confirmed_tls
    BY <1>0, CallFacts DEF Scan, Outcome
  <2> HIDE DEF sc
  <2>3. State.confirmed_tls
    BY <1>0, <2>1, CallFacts DEF StateSound
  <2>4. PairedOn(directions, DOMAIN directions)
    BY <1>0, <2>3, CallFacts DEF PairedOn, CallSound, State
  <2>5. QED
    BY <1>0, <2>1, <2>2, <2>4, CallFacts, ScanStepInv DEF State
<1>3. CASE OpenRecord(h)
  <2> DEFINE d == Confirmed(h)
             n == RecordTotalSize(h) - RemainingPayload
             s == [d[packet.key] EXCEPT
                     !.has_active_record = TRUE,
                     !.active_record_remaining_bytes = n,
                     !.active_record_constrictible = (h.type = "app_data")]
  <2>1. /\ Accepted(h)
        /\ RecordTotalSize(h) > RemainingPayload
        /\ directions' = [d EXCEPT ![packet.key] = s]
        /\ scan' = ScanAfter(h, RemainingPayload)
        /\ handshake_seen' = HandshakesWith(h)
        /\ UNCHANGED <<pc, packet, result>>
    BY <1>3 DEF OpenRecord
  <2>2. /\ TypedMap(d) /\ StatesSound(d) /\ packet.key \in DOMAIN d
        /\ d[packet.key].synchronized /\ d[packet.key].confirmed_tls
        /\ PairedOn(d, DOMAIN d)
        /\ ConfirmationWitnessed(d, HandshakesWith(h))
        /\ HandshakesWith(h) \subseteq DirectionKey
    BY <2>1, ConfirmedFacts
  <2>3. /\ RemainingPayload \in Nat
        /\ RecordTotalSize(h) \in Nat
    <3>1. h \in Header
      BY <2>1 DEF Accepted
    <3>2. h.length \in Nat
      BY <3>1, RecordLengthAssumption DEF Header
    <3>3. scan.payload_offset \in Nat /\ scan.payload_offset < packet.size
      BY <1>0, <2>1, CallFacts DEF Accepted, InLoop, Scan
    <3>4. QED
      BY <1>0, <3>2, <3>3, CallFacts, HeaderSizeAssumption
         DEF RemainingPayload, RecordTotalSize
  <2>4. n \in Nat /\ n > 0
    BY <2>1, <2>3
  <2> HIDE DEF d, n
  <2>5. /\ s \in DirectionState
        /\ s.confirmed_tls = d[packet.key].confirmed_tls
        /\ s.synchronized = d[packet.key].synchronized
        /\ s.active_record_remaining_bytes = n
    BY <2>2, <2>4 DEF TypedMap, DirectionState
  <2> HIDE DEF s
  <2>6. /\ TypedMap(directions') /\ DOMAIN directions' = DOMAIN d
        /\ directions'[packet.key] = s
        /\ \A j \in DOMAIN d \ {packet.key} : directions'[j] = d[j]
    BY <2>1, <2>2, <2>5 DEF TypedMap
  <2>7. StatesSound(directions')
    BY <2>2, <2>4, <2>5, <2>6 DEF StatesSound, StateSound
  <2>8. ConfirmationWitnessed(directions', handshake_seen')
    BY <2>1, <2>2, <2>5, <2>6 DEF ConfirmationWitnessed
  <2>9. PairedOn(directions', DOMAIN directions')
    BY <2>2, <2>5, <2>6 DEF PairedOn
  <2>10. scan' \in Scan /\ scan'.confirmed_tls = scan.confirmed_tls
    BY <1>0, <2>1, <2>3, CallFacts, ScanAfterFacts
  <2>11. QED
    BY <1>0, <2>1, <2>2, <2>5, <2>6, <2>7, <2>8, <2>9, <2>10, ScanStepInv
<1>4. CASE SkipRecord(h)
  <2>1. /\ Accepted(h)
        /\ directions' = Confirmed(h)
        /\ scan' = ScanAfter(h, RecordTotalSize(h))
        /\ handshake_seen' = HandshakesWith(h)
        /\ UNCHANGED <<pc, packet, result>>
    BY <1>4 DEF SkipRecord
  <2>2. RecordTotalSize(h) \in Nat
    <3>1. h \in Header
      BY <2>1 DEF Accepted
    <3>2. h.length \in Nat
      BY <3>1, RecordLengthAssumption DEF Header
    <3>3. QED BY <3>2, HeaderSizeAssumption DEF RecordTotalSize
  <2>3. scan' \in Scan /\ scan'.confirmed_tls = scan.confirmed_tls
    BY <1>0, <2>1, <2>2, CallFacts, ScanAfterFacts
  <2>4. QED
    BY <1>0, <2>1, <2>3, ConfirmedFacts, ScanStepInv
<1>5. QED BY <1>1, <1>2, <1>3, <1>4 DEF ReadRecord

-----------------------------------------------------------------------------
(* The end of a call.                                                      *)

\* Every call ends with the entry in sync or reset, hence confirmed.
LEMMA EndInv ==
    ASSUME Inv, End
    PROVE  Inv'
<1>0. pc = "scan" /\ ~InLoop
  BY DEF End, FinishReset, FinishUncertain, FinishMiddle, FinishWhole,
         FinishPrefix, LoopDone
<1>1. State.synchronized /\ State.confirmed_tls
  <2>1. scan.outcome # "none" \/ scan.payload_offset > 0
    BY <1>0, CallFacts DEF InLoop, Scan
  <2>2. QED BY <1>0, <2>1, CallFacts DEF CallSound, StateSound
<1>2. /\ Advanced \in DirectionState
      /\ Advanced.confirmed_tls = State.confirmed_tls
      /\ Advanced.synchronized = State.synchronized
      /\ Advanced.has_active_record = State.has_active_record
      /\ Advanced.active_record_remaining_bytes
           = State.active_record_remaining_bytes
  <2>1. AdvanceTcpSeq(packet.tcp_seq, packet.size) \in Seq32
    BY <1>0, CallFacts, BoundsAssumption DEF AdvanceTcpSeq, Seq32
  <2>2. State \in DirectionState
    BY <1>0, CallFacts
  <2>3. QED BY <2>1, <2>2 DEF Advanced, DirectionState
<1>3. StateSound(Advanced)
  BY <1>0, <1>2, CallFacts DEF StateSound
<1>4. ASSUME NEW disposition \in Disposition, NEW kept \in Nat,
             Finish(disposition, kept)
      PROVE  Inv'
  <2>1. /\ directions' = Stored(directions, packet.key, Advanced)
        /\ Return(disposition, kept)
        /\ UNCHANGED handshake_seen
    BY <1>4 DEF Finish
  <2>2. QED BY <1>0, <1>1, <1>2, <1>3, <2>1, ReplaceInv, ReturnInv
<1>5. packet.size \in Nat /\ scan.candidate \in Nat
  BY <1>0, CallFacts DEF Scan
<1>6. CASE FinishReset
  <2> DEFINE s == [FreshState EXCEPT !.confirmed_tls = TRUE]
  <2>1. /\ directions' = Stored(directions, packet.key, s)
        /\ Return("NoApplicationData", packet.size)
        /\ UNCHANGED handshake_seen
    BY <1>1, <1>6 DEF FinishReset
  <2>2. s \in DirectionState /\ s.confirmed_tls /\ StateSound(s)
    BY FreshFacts DEF FreshState, DirectionState, StateSound
  <2> HIDE DEF s
  <2>3. QED
    BY <1>0, <1>1, <1>5, <2>1, <2>2, ReplaceInv, ReturnInv DEF Disposition
<1>7. CASE FinishUncertain
  BY <1>4, <1>5, <1>7 DEF FinishUncertain, Disposition
<1>8. CASE FinishMiddle
  BY <1>4, <1>5, <1>8 DEF FinishMiddle, Disposition
<1>9. CASE FinishWhole
  BY <1>1, <1>4, <1>5, <1>9 DEF FinishWhole, Disposition
<1>10. CASE FinishPrefix
  BY <1>4, <1>5, <1>10 DEF FinishPrefix, Disposition
<1>11. QED BY <1>6, <1>7, <1>8, <1>9, <1>10 DEF End

\* Every step keeps the invariant.
LEMMA InvStep == Inv /\ [Next]_vars => Inv'
<1>1. SUFFICES ASSUME Inv, [Next]_vars
               PROVE  Inv'
  OBVIOUS
<1>2. CASE Next
  BY <1>1, <1>2, BeginInv, ReadRecordInv, EndInv DEF Next
<1>3. CASE UNCHANGED vars
  BY <1>1, <1>3 DEF vars, Inv, TypeOK, StatesSound, ConfirmationWitnessed,
                    PairedOn, CallSound, State
<1>4. QED BY <1>1, <1>2, <1>3

\* Nothing is tracked at the start.
LEMMA InitInv == Init => Inv
BY DEF Init, Inv, TypeOK, Result, Disposition, StatesSound,
       ConfirmationWitnessed, PairedOn

\* Inv holds in every reachable state.
THEOREM InvHolds == Spec => []Inv
BY InitInv, InvStep, PTL DEF Spec

\* The variables keep the types the code declares, in every reachable state.
THEOREM TypeCorrect == Spec => []TypeOK
<1>1. Inv => TypeOK
  BY DEF Inv
<1>2. QED BY <1>1, InvHolds, PTL

\* Between calls, directions_ tracks confirmed connections only, and both of
\* their directions: the erases of lines 120-121, 194, 204 and 254 take back
\* whatever operator[] of line 134 created for traffic that is not TLS.
THEOREM NoLeftovers == Spec => []DirectionsPaired
<1>1. Inv => DirectionsPaired
  BY DEF Inv, DirectionsPaired, PairedOn
<1>2. QED BY <1>1, InvHolds, PTL

\* An open record belongs to a direction in sync and has bytes left (lines
\* 159-186 and 229-233).
THEOREM OpenRecordsSound == Spec => []ActiveRecordSound
<1>1. Inv => ActiveRecordSound
  BY DEF Inv, ActiveRecordSound, StatesSound, StateSound
<1>2. QED BY <1>1, InvHolds, PTL

\* A step that ends a call with a cut is FinishPrefix.
LEMMA CutsIsFinishPrefix ==
    ASSUME Next, Cuts
    PROVE  FinishPrefix
<1>1. /\ pc = "scan" /\ pc' = "idle"
      /\ result'.disposition = "AppDataPrefix"
  BY DEF Cuts
<1>2. ASSUME NEW p \in Packet, Begin(p)
      PROVE  FALSE
  BY <1>1, <1>2 DEF Begin, EvaluateEmpty, EnterScan, EnterMiddle, EnterFinal,
                    EnterPast, Enter
<1>3. ASSUME NEW h \in Header \cup {NotTls}, ReadRecord(h)
      PROVE  FALSE
  BY <1>1, <1>3 DEF ReadRecord, GiveUp, LoseTrack, OpenRecord, SkipRecord, Return
<1>4. CASE End
  BY <1>1, <1>4 DEF End, FinishReset, FinishUncertain, FinishMiddle, FinishWhole,
                    Finish, Return
<1>5. QED BY <1>2, <1>3, <1>4 DEF Next

\* A payload is cut only on a connection whose handshake was read, in one of
\* its directions, since the last SYN or RST of it.
THEOREM CutsAreConfirmed == Spec => CutNeedsHandshake
<1>1. Inv /\ [Next]_vars => [Cuts => packet.key \in handshake_seen]_vars
  <2>1. SUFFICES ASSUME Inv, Next, Cuts
                 PROVE  packet.key \in handshake_seen
    OBVIOUS
  <2>2. pc = "scan" /\ State.synchronized
    BY <2>1, CutsIsFinishPrefix DEF FinishPrefix, LoopDone, Cuttable
  <2>3. State.confirmed_tls
    BY <2>1, <2>2, CallFacts DEF StateSound
  <2>4. QED BY <2>1, <2>2, <2>3, CallFacts DEF ConfirmationWitnessed, State
<1>2. QED BY <1>1, InvHolds, PTL DEF Spec, CutNeedsHandshake

-----------------------------------------------------------------------------
(* What a step may do to a direction's confirmation.                       *)

\* d still confirms k.
StillConfirmed(d, k) == Entry(d, k).confirmed_tls

\* Beginning a call takes a confirmation away only through a SYN or RST.
LEMMA BeginForgets ==
    ASSUME Inv, NEW p \in Packet, Begin(p), NEW k \in DirectionKey, Forgets(k)
    PROVE  p.syn_or_rst /\ k \in Connection(p.key)
<1> DEFINE d == AfterSynOrRst(p)
<1>1. /\ k \in DOMAIN directions /\ directions[k].confirmed_tls
      /\ ~StillConfirmed(directions', k)
  BY DEF Forgets, StillConfirmed
<1>2. /\ TypedMap(directions) /\ StatesSound(directions)
      /\ p.key \in DirectionKey
  BY TypeOKMap DEF Inv, Packet
<1>3. SUFFICES ASSUME k \in DOMAIN d, d[k].confirmed_tls
               PROVE  FALSE
  BY <1>1, <1>2, AfterSynOrRstFacts
<1>4. CASE EvaluateEmpty(p)
  BY <1>1, <1>3, <1>4 DEF EvaluateEmpty, StillConfirmed, Entry
<1>5. CASE ~EvaluateEmpty(p)
  <2>1. PICK s \in DirectionState, sc \in Scan : EntersWith(p, s, sc)
    BY <1>2, <1>5, BeginShape
  <2>2. /\ directions' = Stored(d, p.key, s)
        /\ s.confirmed_tls = Entry(d, p.key).confirmed_tls
    BY <2>1 DEF EntersWith, Enter
  <2>3. CASE k = p.key
    BY <1>1, <1>3, <2>2, <2>3 DEF Stored, StillConfirmed, Entry
  <2>4. CASE k # p.key
    BY <1>1, <1>3, <2>2, <2>4 DEF Stored, StillConfirmed, Entry
  <2> QED
    BY <2>3, <2>4
<1> QED
  BY <1>4, <1>5

\* The record loop forgets no confirmed direction: it erases an entry only
\* when no handshake confirmed it, before or in this call.
LEMMA ReadRecordKeeps ==
    ASSUME Inv, NEW h \in Header \cup {NotTls}, ReadRecord(h),
           NEW k \in DOMAIN directions, directions[k].confirmed_tls
    PROVE  StillConfirmed(directions', k)
<1>0. pc = "scan"
  BY DEF ReadRecord, GiveUp, LoseTrack, OpenRecord, SkipRecord, Accepted, InLoop
<1>1. CASE GiveUp(h)
  <2>1. CASE scan.confirmed_tls
    BY <1>1, <2>1 DEF GiveUp, StillConfirmed, Entry
  <2>2. CASE ~scan.confirmed_tls
    <3>1. ~State.confirmed_tls
      BY <1>0, <1>1, <2>2, CallFacts DEF GiveUp, CallSound
    <3>2. k # packet.key
      BY <3>1 DEF State
    <3>3. QED BY <1>1, <2>2, <3>2 DEF GiveUp, Erased, StillConfirmed, Entry
  <2>3. QED BY <2>1, <2>2
<1>2. CASE LoseTrack(h)
  BY <1>2 DEF LoseTrack, StillConfirmed, Entry
<1>3. ASSUME Accepted(h)
      PROVE  k \in DOMAIN Confirmed(h) /\ Confirmed(h)[k].confirmed_tls
  <2>1. PairedOn(Confirmed(h), DOMAIN Confirmed(h))
    BY <1>3, ConfirmedFacts
  <2>2. k \in DOMAIN Confirmed(h)
    BY DEF Confirmed, Stored
  <2>3. QED BY <2>1, <2>2 DEF PairedOn
<1>4. CASE OpenRecord(h)
  <2> DEFINE d == Confirmed(h)
             s == [d[packet.key] EXCEPT
                     !.has_active_record = TRUE,
                     !.active_record_remaining_bytes =
                         RecordTotalSize(h) - RemainingPayload,
                     !.active_record_constrictible = (h.type = "app_data")]
  <2>1. Accepted(h) /\ directions' = [d EXCEPT ![packet.key] = s]
    BY <1>4 DEF OpenRecord
  <2>2. k \in DOMAIN d /\ d[k].confirmed_tls /\ TypedMap(d)
        /\ packet.key \in DOMAIN d /\ d[packet.key].confirmed_tls
    BY <1>3, <2>1, ConfirmedFacts
  <2> HIDE DEF d
  <2>3. s.confirmed_tls = d[packet.key].confirmed_tls
    BY <2>2 DEF TypedMap, DirectionState
  <2> HIDE DEF s
  <2>4. QED BY <2>1, <2>2, <2>3 DEF StillConfirmed, Entry
<1>5. CASE SkipRecord(h)
  BY <1>3, <1>5 DEF SkipRecord, StillConfirmed, Entry
<1>6. QED BY <1>1, <1>2, <1>4, <1>5 DEF ReadRecord

\* Nor does the end of a call, the reset of lines 251-261 included.
LEMMA EndKeeps ==
    ASSUME Inv, End, NEW k \in DOMAIN directions, directions[k].confirmed_tls
    PROVE  StillConfirmed(directions', k)
<1>0. pc = "scan"
  BY DEF End, FinishReset, FinishUncertain, FinishMiddle, FinishWhole,
         FinishPrefix, LoopDone
<1>1. State \in DirectionState
  BY <1>0, CallFacts
<1>2. ASSUME NEW s, directions' = Stored(directions, packet.key, s),
             k = packet.key => s.confirmed_tls
      PROVE  StillConfirmed(directions', k)
  BY <1>2 DEF Stored, StillConfirmed, Entry
<1>3. CASE FinishReset
  <2> DEFINE s == [FreshState EXCEPT !.confirmed_tls = TRUE]
  <2>1. s.confirmed_tls
    BY DEF FreshState
  <2> HIDE DEF s
  <2>2. CASE State.confirmed_tls
    <3>1. directions' = Stored(directions, packet.key, s)
      BY <1>3, <2>2 DEF FinishReset, s
    <3>2. QED BY <1>2, <2>1, <3>1
  <2>3. CASE ~State.confirmed_tls
    BY <1>3, <2>3 DEF FinishReset, Erased, State, StillConfirmed, Entry
  <2>4. QED BY <2>2, <2>3
<1>4. CASE ~FinishReset
  <2>1. directions' = Stored(directions, packet.key, Advanced)
    BY <1>4 DEF End, FinishUncertain, FinishMiddle, FinishWhole, FinishPrefix,
                Finish
  <2>2. Advanced.confirmed_tls = State.confirmed_tls
    BY <1>1 DEF Advanced, DirectionState
  <2>3. k = packet.key => Advanced.confirmed_tls
    BY <2>2 DEF State
  <2>4. QED BY <1>2, <2>1, <2>3
<1>5. QED BY <1>3, <1>4

\* A direction loses its confirmation to a SYN or RST of its connection only.
THEOREM ConfirmationLasts == Spec => ConfirmationDurable
<1> DEFINE Durable == \A k \in DirectionKey : Forgets(k) =>
             \E p \in Packet : p.syn_or_rst /\ k \in Connection(p.key) /\ Begin(p)
<1>1. Inv /\ [Next]_vars => [Durable]_vars
  <2>1. SUFFICES ASSUME Inv, Next, NEW k \in DirectionKey, Forgets(k)
                 PROVE  \E p \in Packet : /\ p.syn_or_rst
                                         /\ k \in Connection(p.key)
                                         /\ Begin(p)
    OBVIOUS
  <2>2. /\ k \in DOMAIN directions /\ directions[k].confirmed_tls
        /\ ~StillConfirmed(directions', k)
    BY <2>1 DEF Forgets, StillConfirmed
  <2>3. PICK p \in Packet : Begin(p)
    BY <2>1, <2>2, ReadRecordKeeps, EndKeeps DEF Next
  <2>4. QED BY <2>1, <2>3, BeginForgets
<1>2. QED BY <1>1, InvHolds, PTL DEF Spec, ConfirmationDurable

\* A turn of the record loop that goes on moves the scan position on, and not
\* behind the payload: so the loop ends, whatever the headers say.
THEOREM LoopAlwaysAdvances == Spec => LoopAdvances
<1> DEFINE Advances == InLoop =>
              \/ pc' = "idle"
              \/ scan'.outcome # "none"
              \/ /\ scan'.payload_offset > scan.payload_offset
                 /\ scan'.payload_offset <= packet.size
<1>1. Inv /\ [Next]_vars => [Advances]_vars
  <2>1. SUFFICES ASSUME Inv, Next, InLoop
                 PROVE  Advances
    OBVIOUS
  <2>2. /\ pc = "scan" /\ scan.outcome = "none"
        /\ scan.payload_offset < packet.size
    BY <2>1 DEF InLoop
  <2>3. scan \in Scan /\ scan.payload_offset \in Nat /\ packet.size \in Nat
    BY <2>1, <2>2, CallFacts DEF Scan
  <2>4. PICK h \in Header \cup {NotTls} : ReadRecord(h)
    BY <2>1, <2>2 DEF Next, Begin, EvaluateEmpty, EnterScan, EnterMiddle,
                      EnterFinal, EnterPast, Enter, End, FinishReset,
                      FinishUncertain, FinishMiddle, FinishWhole,
                      FinishPrefix, LoopDone
  <2>5. CASE GiveUp(h)
    BY <2>5 DEF GiveUp, Return
  <2>6. CASE LoseTrack(h)
    BY <2>3, <2>6 DEF LoseTrack, Scan
  <2>7. ASSUME NEW here \in Nat, scan' = ScanAfter(h, here)
        PROVE  scan'.payload_offset = scan.payload_offset + here
    BY <2>3, <2>7 DEF ScanAfter, Scan
  <2>8. CASE OpenRecord(h)
    <3>1. RemainingPayload \in Nat /\ RemainingPayload > 0
      BY <2>2, <2>3 DEF RemainingPayload
    <3> QED
      BY <2>3, <2>7, <2>8, <3>1 DEF OpenRecord, RemainingPayload
  <2>9. CASE SkipRecord(h)
    <3>1. h \in Header
      BY <2>9 DEF SkipRecord, Accepted
    <3>2. h.length \in Nat
      BY <3>1, RecordLengthAssumption DEF Header
    <3>3. RecordTotalSize(h) \in Nat /\ RecordTotalSize(h) > 0
      BY <3>2, HeaderSizeAssumption DEF RecordTotalSize
    <3> QED
      BY <2>3, <2>7, <2>9, <3>3 DEF SkipRecord, RemainingPayload
  <2> QED
    BY <2>4, <2>5, <2>6, <2>8, <2>9 DEF ReadRecord
<1> QED
  BY <1>1, InvHolds, PTL DEF Spec, LoopAdvances

-----------------------------------------------------------------------------
(* The refinement: every step is a step of TlsContract, or stutters.       *)

\* The directions a map confirms: the contract's `known'.
KnownOf(d) == {k \in DOMAIN d : d[k].confirmed_tls}
verdict_ == [cut |-> result.disposition = "AppDataPrefix", kept |-> result.kept]

\* What a candidate cut keeps: all the packet, or what is configured, or more
\* than a record header.
CandidateKeeps ==
    (pc = "scan" /\ scan.has_candidate) =>
        \/ scan.candidate >= packet.size
        \/ scan.candidate = KeepContinuation
        \/ scan.candidate >= SmallerOf(KeepRecord, HeaderSize)

\* Beginning a call changes what is confirmed by the SYN or RST only.
LEMMA BeginRefines ==
    ASSUME Inv, NEW p \in Packet, Begin(p)
    PROVE  Contract!Arrives
<1> DEFINE d == AfterSynOrRst(p)
<1>1. pc = "idle" /\ packet = NoPacket
  BY DEF Inv, TypeOK, Begin, EvaluateEmpty, EnterScan, EnterMiddle, EnterFinal,
         EnterPast, Enter
<1>2. /\ TypedMap(directions) /\ StatesSound(directions)
      /\ p.key \in DirectionKey /\ p.size \in Nat
  BY TypeOKMap, BoundsAssumption DEF Inv, Packet
<1>3. /\ TypedMap(d) /\ StatesSound(d)
      /\ DOMAIN d = DOMAIN directions
                       \ (IF p.syn_or_rst THEN Connection(p.key) ELSE {})
      /\ \A k \in DOMAIN d : d[k] = directions[k]
  BY <1>2, AfterSynOrRstFacts
<1> HIDE DEF d
<1>4. KnownOf(d) = IF p.syn_or_rst THEN KnownOf(directions) \ Connection(p.key)
                                   ELSE KnownOf(directions)
  BY <1>3 DEF KnownOf
<1>5. /\ KnownOf(directions') = KnownOf(d)
      /\ packet' = IF p.size = 0 THEN NoPacket ELSE p
      /\ verdict_' = [cut |-> FALSE, kept |-> p.size]
  <2>1. CASE EvaluateEmpty(p)
    <3>1. /\ directions' = d /\ p.size = 0 /\ packet' = NoPacket
          /\ result' = [disposition |-> "NoApplicationData", kept |-> 0]
      BY <1>1, <2>1 DEF EvaluateEmpty, d
    <3>2. KnownOf(directions') = KnownOf(d)
      BY <3>1 DEF KnownOf
    <3>3. verdict_' = [cut |-> FALSE, kept |-> p.size]
      BY <3>1 DEF verdict_
    <3> QED
      BY <3>1, <3>2, <3>3
  <2>2. CASE ~EvaluateEmpty(p)
    <3>1. PICK s \in DirectionState, sc \in Scan :
             /\ Enter(p, s, sc)
             /\ s.confirmed_tls = Entry(d, p.key).confirmed_tls
      BY <1>2, <2>2, BeginShape DEF EntersWith, d
    <3>2. /\ directions' = Stored(d, p.key, s)
          /\ packet' = p /\ p.size > 0
          /\ result' = [disposition |-> "NoRecord", kept |-> p.size]
      BY <3>1 DEF Enter, d
    <3>3. KnownOf(directions') = KnownOf(d)
      BY <1>3, <3>1, <3>2, EntryFacts DEF KnownOf, Stored
    <3>4. verdict_' = [cut |-> FALSE, kept |-> p.size]
      BY <3>2 DEF verdict_
    <3>5. p.size # 0
      BY <1>2, <3>2
    <3> QED
      BY <3>2, <3>3, <3>4, <3>5
  <2> QED
    BY <2>1, <2>2
<1> QED
  BY <1>1, <1>4, <1>5
  DEF Contract!Arrives, Contract!Idle, Contract!Ends, Connection, Reverse,
      KnownOf, verdict_

\* Accepting a header confirms the connection if it is a handshake's, and
\* nothing else changes what is confirmed (lines 203-213).
LEMMA ConfirmedKnows ==
    ASSUME Inv, NEW h, Accepted(h)
    PROVE  KnownOf(Confirmed(h)) =
              IF h.type = "handshake"
              THEN KnownOf(directions) \cup Connection(packet.key)
              ELSE KnownOf(directions)
<1> DEFINE k == packet.key  d == Confirmed(h)
<1>1. pc = "scan"
  BY DEF Accepted, InLoop
<1>2. KnownOf(d) = DOMAIN d
  BY ConfirmedFacts DEF KnownOf, PairedOn
<1>3. DOMAIN d = IF h.type = "handshake" THEN DOMAIN directions \cup Connection(k)
                                         ELSE DOMAIN directions
  BY <1>1, CallFacts DEF Confirmed, Stored, Connection
<1>4. DOMAIN directions \ {k} \subseteq KnownOf(directions)
  BY <1>1, CallFacts DEF KnownOf, PairedOn
<1>5. h.type = "handshake" \/ k \in KnownOf(directions)
  BY <1>1, CallFacts DEF Accepted, CallSound, StateSound, KnownOf, State
<1>6. KnownOf(directions) \subseteq DOMAIN directions /\ k \in Connection(k)
  BY DEF KnownOf, Connection
<1> QED
  BY <1>2, <1>3, <1>4, <1>5, <1>6

\* Giving a direction up erases an unconfirmed entry at most.
LEMMA GiveUpRefines ==
    ASSUME Inv, NEW h, GiveUp(h)
    PROVE  Contract!KeptWhole
<1>1. /\ pc = "scan" /\ ~State.synchronized
      /\ directions' = IF scan.confirmed_tls THEN directions
                       ELSE Erased(directions, {packet.key})
      /\ packet' = NoPacket
      /\ result' = [disposition |-> "NoRecord", kept |-> packet.size]
  BY DEF GiveUp, InLoop, Return
<1>2. KnownOf(directions') = KnownOf(directions)
  <2>1. CASE scan.confirmed_tls
    BY <1>1, <2>1
  <2>2. CASE ~scan.confirmed_tls
    <3>1. ~directions[packet.key].confirmed_tls
      BY <1>1, <2>2, CallFacts DEF CallSound, State
    <3> QED
      BY <1>1, <2>2, <3>1 DEF KnownOf, Erased
  <2> QED
    BY <2>1, <2>2
<1>3. verdict_' = [cut |-> FALSE, kept |-> packet.size]
  BY <1>1 DEF verdict_
<1> QED
  BY <1>1, <1>2, <1>3, CallFacts
  DEF Contract!KeptWhole, Contract!Busy, KnownOf, verdict_

\* A turn of the record loop learns a connection, or nothing.
LEMMA ReadRecordRefines ==
    ASSUME Inv, NEW h \in Header \cup {NotTls}, ReadRecord(h)
    PROVE  \/ Contract!Learns \/ Contract!KeptWhole
           \/ UNCHANGED Contract!contractVars
<1>1. CASE GiveUp(h)
  BY <1>1, GiveUpRefines
<1>2. CASE LoseTrack(h)
  BY <1>2 DEF LoseTrack, Contract!contractVars
<1>3. CASE OpenRecord(h) \/ SkipRecord(h)
  <2>1. /\ Accepted(h) /\ pc = "scan"
        /\ scan.payload_offset + HeaderSize <= packet.size
        /\ UNCHANGED <<packet, result>>
    BY <1>3 DEF OpenRecord, SkipRecord, Accepted, InLoop, Readable
  <2>2. HeaderSize <= packet.size
    BY <2>1, CallFacts, HeaderSizeAssumption DEF Scan
  <2>3. KnownOf(directions') = KnownOf(Confirmed(h))
    <3>1. CASE OpenRecord(h)
      <4> DEFINE d == Confirmed(h)
                 s == [d[packet.key] EXCEPT
                         !.has_active_record = TRUE,
                         !.active_record_remaining_bytes =
                             RecordTotalSize(h) - RemainingPayload,
                         !.active_record_constrictible = (h.type = "app_data")]
      <4>1. directions' = [d EXCEPT ![packet.key] = s]
        BY <3>1 DEF OpenRecord
      <4>2. TypedMap(d) /\ packet.key \in DOMAIN d
        BY <2>1, ConfirmedFacts
      <4> HIDE DEF d
      <4>3. s.confirmed_tls = d[packet.key].confirmed_tls
        BY <4>2 DEF TypedMap, DirectionState
      <4> HIDE DEF s
      <4>4. KnownOf(directions') = KnownOf(d)
        BY <4>1, <4>2, <4>3 DEF KnownOf
      <4> QED
        BY <4>4 DEF d
    <3>2. CASE SkipRecord(h)
      BY <3>2 DEF SkipRecord
    <3> QED
      BY <1>3, <3>1, <3>2
  <2>4. KnownOf(directions') = IF h.type = "handshake"
                               THEN KnownOf(directions) \cup Connection(packet.key)
                               ELSE KnownOf(directions)
    BY <2>1, <2>3, ConfirmedKnows
  <2>5. packet \in Packet
    BY <2>1, CallFacts
  <2> QED
    BY <2>1, <2>2, <2>4, <2>5
    DEF Contract!Learns, Contract!Busy, Contract!contractVars, Contract!Ends,
        Connection, Reverse, KnownOf
<1> QED
  BY <1>1, <1>2, <1>3 DEF ReadRecord

\* The end of a call keeps what is confirmed, and cuts what may be cut.
LEMMA EndRefines ==
    ASSUME Inv, CandidateKeeps, End
    PROVE  Contract!KeptWhole \/ Contract!Shortened
<1>1. pc = "scan" /\ ~InLoop
  BY DEF End, FinishReset, FinishUncertain, FinishMiddle, FinishWhole,
         FinishPrefix, LoopDone
<1>2. State.confirmed_tls
  <2>1. scan.outcome # "none" \/ scan.payload_offset > 0
    BY <1>1, CallFacts DEF InLoop, Scan
  <2> QED
    BY <1>1, <2>1, CallFacts DEF CallSound, StateSound
<1>3. /\ packet \in Packet /\ packet.size \in Nat
      /\ packet.key \in DOMAIN directions /\ State \in DirectionState
      /\ scan.candidate \in Nat
  BY <1>1, CallFacts DEF Scan
<1>4. packet.key \in KnownOf(directions)
  BY <1>2, <1>3 DEF KnownOf, State
<1>5. ASSUME NEW s, s.confirmed_tls,
             directions' = Stored(directions, packet.key, s)
      PROVE  KnownOf(directions') = KnownOf(directions)
  BY <1>3, <1>4, <1>5 DEF KnownOf, Stored
<1>6. Advanced.confirmed_tls
  BY <1>2, <1>3 DEF Advanced, DirectionState
<1>7. CASE FinishReset
  <2> DEFINE s == [FreshState EXCEPT !.confirmed_tls = TRUE]
  <2>1. /\ directions' = Stored(directions, packet.key, s)
        /\ packet' = NoPacket
        /\ result' = [disposition |-> "NoApplicationData",
                      kept |-> packet.size]
    BY <1>2, <1>7 DEF FinishReset, Return
  <2>2. s.confirmed_tls
    BY DEF FreshState
  <2> HIDE DEF s
  <2>3. KnownOf(directions') = KnownOf(directions)
    BY <1>5, <2>1, <2>2
  <2> QED
    BY <1>3, <2>1, <2>3
    DEF Contract!KeptWhole, Contract!Busy, KnownOf
<1>8. ASSUME NEW disposition, disposition # "AppDataPrefix",
             Finish(disposition, packet.size)
      PROVE  Contract!KeptWhole
  BY <1>3, <1>5, <1>6, <1>8
  DEF Finish, Return, Contract!KeptWhole, Contract!Busy, KnownOf
<1>9. CASE FinishUncertain \/ FinishMiddle \/ FinishWhole
  BY <1>8, <1>9 DEF FinishUncertain, FinishMiddle, FinishWhole
<1>10. CASE FinishPrefix
  <2>1. /\ scan.has_candidate /\ scan.candidate < packet.size
        /\ directions' = Stored(directions, packet.key, Advanced)
        /\ packet' = NoPacket
        /\ result' = [disposition |-> "AppDataPrefix", kept |-> scan.candidate]
    BY <1>10 DEF FinishPrefix, Cuttable, Finish, Return
  <2>2. KnownOf(directions') = KnownOf(directions)
    BY <1>5, <1>6, <2>1
  <2>3. scan.candidate \in 0 .. packet.size - 1
    BY <1>3, <2>1
  <2>4. \/ scan.candidate = KeepContinuation
        \/ scan.candidate >= Contract!Smaller(KeepRecord, HeaderSize)
    BY <1>1, <1>3, <2>1 DEF CandidateKeeps, SmallerOf, Contract!Smaller
  <2>5. verdict_' = [cut |-> TRUE, kept |-> scan.candidate]
    BY <2>1 DEF verdict_
  <2> QED
    BY <1>3, <1>4, <2>1, <2>2, <2>3, <2>4, <2>5
    DEF Contract!Shortened, Contract!Busy, KnownOf, verdict_
<1> QED
  BY <1>7, <1>9, <1>10 DEF End

\* The candidate is set where the open record ends with the packet (lines
\* 168-176) and at each Application Data record (lines 220-246).
LEMMA CandidateStep ==
    ASSUME Inv, CandidateKeeps, [Next]_vars
    PROVE  CandidateKeeps'
<1>1. CASE UNCHANGED vars
  BY <1>1 DEF vars, CandidateKeeps
<1>2. ASSUME NEW p \in Packet, Begin(p)
      PROVE  CandidateKeeps'
  <2>1. pc = "idle" /\ TypedMap(directions) /\ StatesSound(directions)
    BY <1>2, TypeOKMap
    DEF Inv, Begin, EvaluateEmpty, EnterScan, EnterMiddle, EnterFinal,
        EnterPast, Enter
  <2>2. CASE EvaluateEmpty(p)
    BY <2>1, <2>2 DEF EvaluateEmpty, CandidateKeeps
  <2>3. CASE ~EvaluateEmpty(p)
    <3>1. PICK s \in DirectionState, sc \in Scan :
             /\ Enter(p, s, sc)
             /\ sc.has_candidate =>
                   sc.candidate = ClampedKeepSize(KeepContinuation, p.size)
      BY <1>2, <2>1, <2>3, BeginShape DEF EntersWith
    <3>2. packet' = p /\ scan' = sc /\ p.size \in Nat
      BY <3>1, BoundsAssumption DEF Enter, Packet
    <3> QED
      BY <3>1, <3>2, KeepAssumption
      DEF CandidateKeeps, ClampedKeepSize, SmallerOf
  <2> QED
    BY <2>2, <2>3
<1>3. ASSUME NEW h \in Header \cup {NotTls}, ReadRecord(h)
      PROVE  CandidateKeeps'
  <2>0. pc = "scan"
    BY <1>3 DEF ReadRecord, GiveUp, LoseTrack, OpenRecord, SkipRecord,
                Accepted, InLoop
  <2>1. /\ scan \in Scan /\ scan.payload_offset \in Nat
        /\ packet.size \in Nat /\ scan.candidate \in Nat
    BY <2>0, CallFacts DEF Scan
  <2>2. CASE GiveUp(h)
    BY <2>2 DEF GiveUp, Return, CandidateKeeps
  <2>3. CASE LoseTrack(h)
    BY <2>1, <2>3 DEF LoseTrack, CandidateKeeps, Scan
  <2>4. ASSUME NEW here \in Nat, scan' = ScanAfter(h, here),
               UNCHANGED <<pc, packet>>,
               \/ scan.payload_offset + here >= packet.size
               \/ here >= HeaderSize
        PROVE  CandidateKeeps'
    <3>1. CASE h.type = "app_data"
      <4>1. scan'.candidate =
               scan.payload_offset + ClampedKeepSize(KeepRecord, here)
        BY <2>1, <2>4, <3>1 DEF ScanAfter, Scan
      <4>2. \/ scan'.candidate >= packet.size
            \/ scan'.candidate >= SmallerOf(KeepRecord, HeaderSize)
        BY <2>1, <2>4, <4>1, KeepAssumption, HeaderSizeAssumption
        DEF ClampedKeepSize, SmallerOf
      <4> QED
        BY <2>4, <4>2 DEF CandidateKeeps
    <3>2. CASE h.type # "app_data"
      <4>1. /\ scan'.candidate = scan.candidate
            /\ scan'.has_candidate = scan.has_candidate
        BY <2>1, <2>4, <3>2 DEF ScanAfter, Scan
      <4> QED
        BY <2>4, <4>1 DEF CandidateKeeps
    <3> QED
      BY <3>1, <3>2
  <2>5. CASE OpenRecord(h)
    <3>1. scan.payload_offset < packet.size
      BY <2>5 DEF OpenRecord, Accepted, InLoop
    <3>2. RemainingPayload \in Nat
          /\ scan.payload_offset + RemainingPayload >= packet.size
      BY <2>1, <3>1 DEF RemainingPayload
    <3> QED
      BY <2>4, <2>5, <3>2 DEF OpenRecord
  <2>6. CASE SkipRecord(h)
    <3>1. h \in Header
      BY <2>6 DEF SkipRecord, Accepted
    <3>2. h.length \in Nat
      BY <3>1, RecordLengthAssumption DEF Header
    <3>3. RecordTotalSize(h) \in Nat /\ RecordTotalSize(h) >= HeaderSize
      BY <3>2, HeaderSizeAssumption DEF RecordTotalSize
    <3> QED
      BY <2>4, <2>6, <3>3 DEF SkipRecord
  <2> QED
    BY <1>3, <2>2, <2>3, <2>5, <2>6 DEF ReadRecord
<1>4. CASE End
  BY <1>4 DEF End, FinishReset, FinishUncertain, FinishMiddle, FinishWhole,
              FinishPrefix, Finish, Return, CandidateKeeps
<1> QED
  BY <1>1, <1>2, <1>3, <1>4 DEF Next

\* At the start nothing is known and no call runs.
LEMMA InitRefines == Init => Contract!ContractInit /\ CandidateKeeps
<1> SUFFICES ASSUME Init
             PROVE  Contract!ContractInit /\ CandidateKeeps
  OBVIOUS
<1>1. KnownOf(directions) = {}
  BY DEF Init, KnownOf
<1> QED
  BY <1>1 DEF Init, Contract!ContractInit, Contract!Idle, CandidateKeeps, KnownOf

LEMMA StepRefines ==
    ASSUME Inv, CandidateKeeps, [Next]_vars
    PROVE  [Contract!ContractNext]_(Contract!contractVars)
<1>1. CASE UNCHANGED vars
  BY <1>1 DEF vars, Contract!contractVars
<1>2. CASE Next
  BY <1>2, BeginRefines, ReadRecordRefines, EndRefines
  DEF Next, Contract!ContractNext
<1> QED
  BY <1>1, <1>2

\* The TLS constrictor implements TlsContract: it knows both directions of a
\* connection or none, from a handshake to the next SYN or RST, and a cut
\* keeps what is configured, or more than a record header.
THEOREM ContractImplemented == Spec => ImplementsContract
<1>1. Inv /\ CandidateKeeps /\ [Next]_vars => CandidateKeeps'
  BY CandidateStep
<1>2. Inv /\ CandidateKeeps /\ [Next]_vars
        => [Contract!ContractNext]_(Contract!contractVars)
  BY StepRefines
<1> QED
  BY <1>1, <1>2, InitRefines, InvHolds, PTL
  DEF Spec, ImplementsContract, Contract!ContractSpec
=============================================================================
