------------------------------ MODULE QuicProofs ------------------------------
(***************************************************************************)
(* QuicConstrictor implements QuicContract, for every set of endpoints and *)
(* connection IDs, every datagram and every configuration; and among any   *)
(* connections on shared addresses it shortens a short header only on that *)
(* connection's own ID.                                                    *)
(*                                                                         *)
(* The argument: QuicTypeOK is inductive, and it says that flows are filed *)
(* under their smaller endpoint.  So a learned ID is the half of one flow  *)
(* only, and reading a flow from its other end finds the other half.  Then *)
(* what is learned for a pair is the ID of the connection that announced   *)
(* last, and two IDs a short header could both begin with are one.         *)
(***************************************************************************)
EXTENDS QuicConnection, TLAPS

-----------------------------------------------------------------------------
(* The order of the endpoints.                                             *)

\* CompareEndpoints orders any two endpoints: one precedes the other, and both
\* do only if they are the same (lines 50-77).
LEMMA PrecedesIsTotalOrder ==
    ASSUME NEW x \in Endpoint, NEW y \in Endpoint
    PROVE  /\ Precedes(x, y) \/ Precedes(y, x)
           /\ Precedes(x, y) /\ Precedes(y, x) => x = y
BY DEF Precedes, Endpoint

\* Both directions of a pair of endpoints are filed under one flow, and the
\* direction tells them apart (lines 89-113).
LEMMA FlowIsCanonical ==
    ASSUME NEW p, p.src \in Endpoint, p.dst \in Endpoint
    PROVE  /\ Flow(p) = IF Precedes(p.src, p.dst) THEN <<p.src, p.dst>>
                                                  ELSE <<p.dst, p.src>>
           /\ Precedes(Flow(p)[1], Flow(p)[2])
BY PrecedesIsTotalOrder DEF Flow, AToB

LEMMA DatagramFields ==
    ASSUME NEW p \in Datagram
    PROVE  /\ p.size \in Nat /\ 0 < p.size /\ p.size <= MaxPayload
           /\ <<p.src, p.dst>> \in Pair /\ <<p.dst, p.src>> \in Pair
           /\ p.src \in Endpoint /\ p.dst \in Endpoint
           /\ Flow(p) \in Pair
           /\ p # NoDatagram
<1>1. PICK pair \in Pair, n \in 1 .. MaxPayload :
          p = [src |-> pair[1], dst |-> pair[2], size |-> n]
  BY DEF Datagram
<1>2. pair = <<pair[1], pair[2]>> /\ pair[1] \in Endpoint /\ pair[2] \in Endpoint
  BY PairAssumption
<1>3. <<p.src, p.dst>> \in Pair /\ <<p.dst, p.src>> \in Pair
  BY <1>1, <1>2, PairAssumption
<1>4. p # NoDatagram
  BY <1>1 DEF NoDatagram
<1>5. p.size \in Nat /\ 0 < p.size /\ p.size <= MaxPayload
  BY <1>1, QuicBoundsAssumption
<1> QED
  BY <1>1, <1>2, <1>3, <1>4, <1>5 DEF Flow

-----------------------------------------------------------------------------
(* The type invariant, which is inductive.                                 *)

LEMMA StateOfType ==
    ASSUME QuicTypeOK, NEW flow
    PROVE  StateOf(flow) \in FlowState
BY DEF StateOf, QuicTypeOK, FlowState

LEMMA ExpectedType ==
    ASSUME QuicTypeOK, NEW p
    PROVE  /\ ExpectedDcid(p) \in ConnectionId \cup {<<>>}
           /\ ExpectedDcid(p) \in Seq(Symbol)
           /\ Len(ExpectedDcid(p)) \in Nat
<1>1. ExpectedDcid(p) \in ConnectionId \cup {<<>>}
  BY StateOfType DEF ExpectedDcid, FlowState
<1>2. <<>> \in Seq(Symbol)
  OBVIOUS
<1>3. ExpectedDcid(p) \in Seq(Symbol)
  BY <1>1, <1>2, ConnectionIdAssumption
<1> QED
  BY <1>1, <1>3

LEMMA CallType ==
    ASSUME QuicTypeOK, InCall
    PROVE  /\ datagram \in Datagram
           /\ datagram.size \in Nat /\ scan.offset \in Nat
           /\ 0 < datagram.size /\ datagram.size <= MaxPayload
           /\ scan.offset <= datagram.size
<1>1. datagram \in Datagram /\ scan.offset <= datagram.size
      /\ scan \in [offset : 0 .. MaxPayload, saw_long_header : BOOLEAN]
  BY DEF QuicTypeOK
<1>2. scan.offset \in Nat
  BY <1>1, QuicBoundsAssumption
<1> QED
  BY <1>1, <1>2, DatagramFields

\* A verdict in a running call has the type of a result, and ends the call.
LEMMA ReturnType ==
    ASSUME QuicTypeOK, NEW disposition \in Disposition, NEW kept \in Nat,
           NEW short \in Seq(Symbol), Return(disposition, kept, short)
    PROVE  QuicTypeOK'
BY QuicBoundsAssumption DEF Return, QuicTypeOK, FirstScan, Result, InCall,
   Precedes, FlowState

LEMMA KeepWholeType ==
    ASSUME QuicTypeOK, InCall, NEW disposition \in Disposition,
           KeepWhole(disposition)
    PROVE  QuicTypeOK'
<1>1. datagram.size \in Nat /\ <<>> \in Seq(Symbol)
  BY CallType
<1> QED
  BY <1>1, ReturnType DEF KeepWhole

\* What shortening keeps: the long headers, and of the short-header packet as
\* much as asked, or all of it.
LEMMA ShortenKeeps ==
    ASSUME QuicTypeOK, NEW bytes \in Seq(Symbol), ShortHeader(bytes),
           NEW kept \in Nat \ {0}, Shorten(kept, bytes)
    PROVE  /\ result'.disposition = "ShortHeaderMatched"
           /\ result'.short = bytes
           /\ result'.kept \in 1 .. datagram.size
           /\ \/ result'.kept = datagram.size
              \/ result'.kept = scan.offset + kept
           /\ datagram' = NoDatagram
           /\ UNCHANGED flow_states
           /\ Len(bytes) = datagram.size - scan.offset - 1
           /\ QuicTypeOK'
<1>1. /\ datagram.size \in Nat /\ scan.offset \in Nat
      /\ scan.offset < datagram.size /\ Len(bytes) \in Nat
  BY CallType DEF ShortHeader, MoreToRead, Remaining
<1>2. SmallerOf(Remaining, kept) \in 1 .. Remaining
  BY <1>1 DEF SmallerOf, Remaining
<1>3. QuicTypeOK'
  BY <1>1, <1>2, ReturnType DEF Shorten, Disposition
<1> QED
  BY <1>1, <1>2, <1>3
  DEF Shorten, Return, SmallerOf, Remaining, ShortHeader

LEMMA InitType == QuicInit => QuicTypeOK
BY QuicBoundsAssumption
DEF QuicInit, QuicTypeOK, FirstScan, NoResult, Result, Disposition, InCall

LEMMA BeginType ==
    ASSUME QuicTypeOK, NEW p \in Datagram, Begin(p)
    PROVE  QuicTypeOK'
<1>1. p.size \in Nat /\ 0 < p.size
  BY DatagramFields
<1> QED
  BY <1>1, QuicBoundsAssumption
  DEF Begin, QuicTypeOK, FirstScan, NoResult, Result, Disposition, InCall,
      Precedes, FlowState

\* What a flow holds after a long header was learned.
LEMMA LearnChanges ==
    ASSUME QuicTypeOK, NEW scid \in ConnectionId, NEW n \in 1 .. MaxPayload,
           LearnLongHeader(scid, n), NEW flow
    PROVE  StateOf(flow)' = IF flow = Flow(datagram)
                            THEN WithScid(StateOf(flow), datagram, scid)
                            ELSE StateOf(flow)
BY DEF LearnLongHeader, StateOf

LEMMA LearnType ==
    ASSUME QuicTypeOK, NEW scid \in ConnectionId, NEW n \in 1 .. MaxPayload,
           LearnLongHeader(scid, n)
    PROVE  QuicTypeOK'
<1> DEFINE f == Flow(datagram)
<1>1. /\ datagram \in Datagram
      /\ scan.offset \in Nat /\ datagram.size \in Nat /\ n \in Nat
      /\ datagram.size <= MaxPayload
  BY CallType, QuicBoundsAssumption DEF LearnLongHeader, MoreToRead
<1>2. f \in Pair /\ Precedes(f[1], f[2])
  BY <1>1, DatagramFields, FlowIsCanonical
<1>3. WithScid(StateOf(f), datagram, scid) \in FlowState
  BY StateOfType DEF WithScid, FlowState
<1>4. scan' \in [offset : 0 .. MaxPayload, saw_long_header : BOOLEAN]
      /\ scan'.offset <= datagram.size /\ UNCHANGED datagram
  <2>1. scan.offset + n \in Nat /\ scan.offset + n <= datagram.size
    BY <1>1 DEF LearnLongHeader, ParseLongHeader, Remaining
  <2> QED
    BY <1>1, <2>1, QuicBoundsAssumption DEF LearnLongHeader, ParseLongHeader
<1>5. DOMAIN flow_states' = DOMAIN flow_states \cup {f}
  BY DEF LearnLongHeader
<1>6. ASSUME NEW g \in DOMAIN flow_states'
      PROVE  /\ g \in Pair
             /\ Precedes(g[1], g[2])
             /\ flow_states'[g] \in FlowState
  <2>1. CASE g = f
    BY <1>2, <1>3, <2>1 DEF LearnLongHeader
  <2>2. CASE g # f
    BY <1>5, <2>2 DEF LearnLongHeader, QuicTypeOK
  <2> QED
    BY <2>1, <2>2
<1> QED
  BY <1>1, <1>4, <1>6 DEF QuicTypeOK, LearnLongHeader, InCall

\* The short header's verdicts, read off the actions.
LEMMA ShortHeaderCases ==
    ASSUME QuicTypeOK, NEW bytes \in Seq(Symbol), EvaluateShortHeader(bytes)
    PROVE  \/ \E disposition \in Disposition \ {"ShortHeaderMatched"} :
                KeepWhole(disposition)
           \/ /\ ShortHeader(bytes)
              /\ ExpectedDcid(datagram) = <<>>
              /\ ~RequireDcidMatch /\ AllowUnknownDcid
              /\ Shorten(LargerOf(KeepPacket, 1), bytes)
           \/ /\ ShortHeader(bytes)
              /\ ExpectedDcid(datagram) # <<>>
              /\ Len(ExpectedDcid(datagram)) <= Len(bytes)
              /\ Matches(ExpectedDcid(datagram), bytes)
              /\ Shorten(LargerOf(KeepPacket, 1 + Len(ExpectedDcid(datagram))),
                         bytes)
<1>1. CASE ShortHeaderUnknown(bytes)
  BY <1>1, OptionAssumption DEF ShortHeaderUnknown, Disposition
<1>2. CASE ShortHeaderTooShort(bytes)
  BY <1>2 DEF ShortHeaderTooShort, Disposition
<1>3. CASE ShortHeaderMismatch(bytes)
  BY <1>3 DEF ShortHeaderMismatch, Disposition
<1>4. CASE ShortHeaderMatch(bytes)
  <2>1. Len(ExpectedDcid(datagram)) \in Nat /\ Len(bytes) \in Nat
    BY ExpectedType
  <2> QED
    BY <1>4, <2>1 DEF ShortHeaderMatch
<1> QED
  BY <1>1, <1>2, <1>3, <1>4 DEF EvaluateShortHeader

LEMMA BytesType ==
    ASSUME NEW n \in Nat, NEW bytes \in [1 .. n -> Symbol]
    PROVE  bytes \in Seq(Symbol) /\ Len(bytes) = n
OBVIOUS

\* A short header's verdict keeps the datagram whole, or shortens it to what
\* its long headers and the ID it matched need.
LEMMA ShortHeaderOutcome ==
    ASSUME QuicTypeOK, NEW bytes \in Seq(Symbol), EvaluateShortHeader(bytes)
    PROVE  /\ QuicTypeOK'
           /\ \/ \E disposition \in Disposition \ {"ShortHeaderMatched"} :
                    InCall /\ KeepWhole(disposition)
              \/ LET id == ExpectedDcid(datagram) IN
                 /\ id = <<>> => AllowUnknownDcid /\ ~RequireDcidMatch
                 /\ Len(id) <= Len(bytes) /\ Matches(id, bytes)
                 /\ InCall /\ datagram' = NoDatagram /\ UNCHANGED flow_states
                 /\ result'.disposition = "ShortHeaderMatched"
                 /\ result'.short = bytes
                 /\ Len(bytes) \in 0 .. datagram.size - 1
                 /\ result'.kept \in 1 .. datagram.size
                 /\ result'.kept >= datagram.size - Len(bytes) + Len(id)
<1> DEFINE id == ExpectedDcid(datagram)
<1>1. InCall
  BY DEF EvaluateShortHeader, ShortHeaderUnknown, ShortHeaderTooShort,
     ShortHeaderMismatch, ShortHeaderMatch, ShortHeader, MoreToRead
<1>2. /\ datagram.size \in Nat /\ scan.offset \in Nat
      /\ Len(id) \in Nat /\ Len(bytes) \in Nat /\ KeepPacket \in Nat
  BY <1>1, CallType, ExpectedType, QuicBoundsAssumption
<1>3. CASE \E disposition \in Disposition \ {"ShortHeaderMatched"} :
              KeepWhole(disposition)
  BY <1>1, <1>3, KeepWholeType
<1>4. ASSUME ShortHeader(bytes), Len(id) <= Len(bytes), Matches(id, bytes),
             id = <<>> => AllowUnknownDcid /\ ~RequireDcidMatch,
             Shorten(LargerOf(KeepPacket, 1 + Len(id)), bytes)
      PROVE  /\ QuicTypeOK'
             /\ datagram' = NoDatagram /\ UNCHANGED flow_states
             /\ result'.disposition = "ShortHeaderMatched"
             /\ result'.short = bytes
             /\ Len(bytes) \in 0 .. datagram.size - 1
             /\ result'.kept \in 1 .. datagram.size
             /\ result'.kept >= datagram.size - Len(bytes) + Len(id)
  <2> DEFINE kept == LargerOf(KeepPacket, 1 + Len(id))
  <2>1. kept \in Nat \ {0} /\ kept >= 1 + Len(id)
    BY <1>2 DEF LargerOf
  <2>2. /\ result'.disposition = "ShortHeaderMatched"
        /\ result'.short = bytes
        /\ result'.kept \in 1 .. datagram.size
        /\ \/ result'.kept = datagram.size
           \/ result'.kept = scan.offset + kept
        /\ datagram' = NoDatagram
        /\ UNCHANGED flow_states
        /\ Len(bytes) = datagram.size - scan.offset - 1
        /\ QuicTypeOK'
    BY <1>4, <2>1, ShortenKeeps
  <2> QED
    BY <1>2, <1>4, <2>1, <2>2
<1>5. CASE /\ ShortHeader(bytes) /\ id = <<>>
           /\ ~RequireDcidMatch /\ AllowUnknownDcid
           /\ Shorten(LargerOf(KeepPacket, 1), bytes)
  <2>1. Len(id) = 0 /\ 1 + Len(id) = 1
    BY <1>5
  <2>2. Matches(id, bytes) /\ Len(id) <= Len(bytes)
    BY <1>2, <2>1 DEF Matches
  <2>3. Shorten(LargerOf(KeepPacket, 1 + Len(id)), bytes)
    BY <1>5, <2>1
  <2> QED
    BY <1>1, <1>4, <1>5, <2>2, <2>3
<1>6. CASE /\ ShortHeader(bytes) /\ id # <<>>
           /\ Len(id) <= Len(bytes) /\ Matches(id, bytes)
           /\ Shorten(LargerOf(KeepPacket, 1 + Len(id)), bytes)
  BY <1>1, <1>4, <1>6
<1>7. \/ \E disposition \in Disposition \ {"ShortHeaderMatched"} :
           KeepWhole(disposition)
      \/ /\ ShortHeader(bytes) /\ id = <<>>
         /\ ~RequireDcidMatch /\ AllowUnknownDcid
         /\ Shorten(LargerOf(KeepPacket, 1), bytes)
      \/ /\ ShortHeader(bytes) /\ id # <<>>
         /\ Len(id) <= Len(bytes) /\ Matches(id, bytes)
         /\ Shorten(LargerOf(KeepPacket, 1 + Len(id)), bytes)
  BY ShortHeaderCases
<1> QED
  BY <1>3, <1>5, <1>6, <1>7

-----------------------------------------------------------------------------
(* The refinement: every step is a step of QuicContract, or stutters.      *)

\* The ID a packet is matched with is the one its receiver announced.
LEMMA ExpectedIsLearned ==
    ASSUME NEW p \in Datagram
    PROVE  ExpectedDcid(p) = Learned(p.dst, p.src)
<1>1. p.src \in Endpoint /\ p.dst \in Endpoint
  BY DatagramFields
<1>2. CASE Precedes(p.src, p.dst)
  BY <1>1, <1>2, PrecedesIsTotalOrder DEF ExpectedDcid, AToB, Flow, Learned
<1>3. CASE ~Precedes(p.src, p.dst)
  BY <1>1, <1>3, PrecedesIsTotalOrder DEF ExpectedDcid, AToB, Flow, Learned
<1> QED
  BY <1>2, <1>3

\* A long header changes what its sender last announced to its receiver, and
\* nothing else that a short header is ever matched with.
LEMMA LearnedChanges ==
    ASSUME QuicTypeOK, NEW scid \in ConnectionId, NEW n \in 1 .. MaxPayload,
           LearnLongHeader(scid, n), NEW pair \in Pair
    PROVE  Learned(pair[1], pair[2])' =
             IF /\ pair = <<datagram.src, datagram.dst>>
                /\ scid # <<>> /\ datagram.src # datagram.dst
             THEN scid
             ELSE Learned(pair[1], pair[2])
<1> DEFINE x == pair[1]  y == pair[2]  f == Flow(datagram)
<1>1. datagram \in Datagram
  BY CallType DEF LearnLongHeader, MoreToRead
<1>2. /\ datagram.src \in Endpoint /\ datagram.dst \in Endpoint
      /\ x \in Endpoint /\ y \in Endpoint /\ pair = <<x, y>>
  <2>1. x \in Endpoint /\ y \in Endpoint /\ pair = <<x, y>>
    BY PairAssumption
  <2> QED
    BY <1>1, <2>1, DatagramFields
<1>3. \A g : StateOf(g)' = IF g = f THEN WithScid(StateOf(g), datagram, scid)
                                   ELSE StateOf(g)
  BY LearnChanges
<1>4. \A g : StateOf(g) \in FlowState
  BY StateOfType
<1>5. CASE x # y /\ Precedes(x, y)
  <2>1. Learned(x, y)' = StateOf(<<x, y>>)'.a
        /\ Learned(x, y) = StateOf(<<x, y>>).a
    BY <1>5 DEF Learned
  <2>2. CASE f = <<x, y>>
    BY <1>2, <1>3, <1>4, <1>5, <2>1, <2>2, PrecedesIsTotalOrder
    DEF Flow, AToB, WithScid, FlowState
  <2>3. CASE f # <<x, y>>
    BY <1>2, <1>3, <1>5, <2>1, <2>3 DEF Flow, AToB
  <2> QED
    BY <2>2, <2>3
<1>6. CASE ~(x # y /\ Precedes(x, y))
  <2>1. Learned(x, y)' = StateOf(<<y, x>>)'.b
        /\ Learned(x, y) = StateOf(<<y, x>>).b
    BY <1>6 DEF Learned
  <2>2. CASE f = <<y, x>>
    BY <1>2, <1>3, <1>4, <1>6, <2>1, <2>2, PrecedesIsTotalOrder
    DEF Flow, AToB, WithScid, FlowState
  <2>3. CASE f # <<y, x>>
    BY <1>2, <1>3, <1>6, <2>1, <2>3, PrecedesIsTotalOrder DEF Flow, AToB
  <2> QED
    BY <2>2, <2>3
<1> QED
  BY <1>5, <1>6

learned_ == [pair \in Pair |-> Learned(pair[1], pair[2])]
verdict_ == [cut |-> result.disposition = "ShortHeaderMatched",
             kept |-> result.kept, short |-> result.short]

LEMMA LearnRefines ==
    ASSUME QuicTypeOK, NEW scid \in ConnectionId, NEW n \in 1 .. MaxPayload,
           LearnLongHeader(scid, n)
    PROVE  Contract!Announces \/ UNCHANGED Contract!contractVars
<1> DEFINE changes == scid # <<>> /\ datagram.src # datagram.dst
           key == <<datagram.src, datagram.dst>>
<1>1. InCall /\ UNCHANGED <<datagram, result>>
  BY DEF LearnLongHeader, MoreToRead
<1>2. CASE changes
  <2>1. learned_' = [learned_ EXCEPT ![key] = scid]
    BY <1>2, LearnedChanges DEF learned_
  <2> QED
    BY <1>1, <1>2, <2>1
    DEF Contract!Announces, Contract!Idle, Contract!NoDatagram, learned_,
        InCall, NoDatagram
<1>3. CASE ~changes
  <2>1. learned_' = learned_
    BY <1>3, LearnedChanges DEF learned_
  <2> QED
    BY <1>1, <2>1 DEF Contract!contractVars, learned_
<1> QED
  BY <1>2, <1>3

LEMMA LearnedKeeps ==
    ASSUME UNCHANGED flow_states
    PROVE  UNCHANGED learned_
BY DEF learned_, Learned, StateOf

LEMMA KeepWholeRefines ==
    ASSUME InCall, NEW disposition \in Disposition \ {"ShortHeaderMatched"},
           KeepWhole(disposition)
    PROVE  Contract!KeptWhole
<1>1. UNCHANGED learned_
  BY LearnedKeeps DEF KeepWhole, Return
<1> QED
  BY <1>1 DEF KeepWhole, Return, Contract!KeptWhole, Contract!Idle,
     Contract!NoDatagram, InCall, NoDatagram, learned_

LEMMA ShortHeaderRefines ==
    ASSUME QuicTypeOK, NEW n \in 0 .. MaxPayload,
           NEW bytes \in [1 .. n -> Symbol], EvaluateShortHeader(bytes)
    PROVE  Contract!KeptWhole \/ Contract!Shortened
<1> DEFINE id == ExpectedDcid(datagram)
           whole == \E disposition \in Disposition \ {"ShortHeaderMatched"} :
                       InCall /\ KeepWhole(disposition)
<1>1. bytes \in Seq(Symbol) /\ Len(bytes) = n /\ n \in Nat
  BY BytesType, QuicBoundsAssumption
<1>2. CASE whole
  BY <1>2, KeepWholeRefines
<1>3. CASE ~whole
  <2>1. /\ id = <<>> => AllowUnknownDcid /\ ~RequireDcidMatch
        /\ Len(id) <= Len(bytes) /\ Matches(id, bytes)
        /\ InCall /\ datagram' = NoDatagram /\ UNCHANGED flow_states
        /\ result'.disposition = "ShortHeaderMatched"
        /\ result'.short = bytes
        /\ Len(bytes) \in 0 .. datagram.size - 1
        /\ result'.kept \in 1 .. datagram.size
        /\ result'.kept >= datagram.size - Len(bytes) + Len(id)
    BY <1>1, <1>3, ShortHeaderOutcome
  <2>2. datagram \in Datagram
    BY <2>1, CallType
  <2>3. id = learned_[<<datagram.dst, datagram.src>>]
    BY <2>2, ExpectedIsLearned, DatagramFields DEF learned_
  <2>4. Contract!IsStartOf(id, bytes)
    BY <2>1 DEF Contract!IsStartOf, Matches
  <2>5. UNCHANGED learned_
    BY <2>1, LearnedKeeps
  <2>6. verdict_' = [cut |-> TRUE, kept |-> result'.kept, short |-> bytes]
    BY <2>1 DEF verdict_
  <2> QED
    BY <1>1, <2>1, <2>3, <2>4, <2>5, <2>6
    DEF Contract!Shortened, Contract!Idle, Contract!NoDatagram, InCall,
        NoDatagram, learned_, verdict_
<1> QED
  BY <1>2, <1>3

LEMMA BeginRefines ==
    ASSUME NEW p \in Datagram, Begin(p)
    PROVE  Contract!Arrives
<1>1. UNCHANGED learned_
  BY LearnedKeeps DEF Begin
<1>2. verdict_' = [cut |-> FALSE, kept |-> 0, short |-> <<>>]
  BY DEF Begin, NoResult, verdict_
<1>3. p \in Contract!Datagram /\ datagram' = p /\ datagram = NoDatagram
  BY DEF Begin, InCall, Datagram, Contract!Datagram
<1> QED
  BY <1>1, <1>2, <1>3 DEF Contract!Arrives, Contract!Idle, Contract!NoDatagram,
     Contract!NoVerdict, NoDatagram, learned_, verdict_

LEMMA InitRefines == QuicInit => Contract!ContractInit
<1> SUFFICES ASSUME QuicInit PROVE Contract!ContractInit
  OBVIOUS
<1>1. learned_ = [pair \in Pair |-> <<>>]
  BY DEF QuicInit, learned_, Learned, StateOf
<1> QED
  BY <1>1 DEF QuicInit, Contract!ContractInit, Contract!Idle,
     Contract!NoDatagram, Contract!NoVerdict, NoDatagram, NoResult, learned_

LEMMA StepRefines ==
    ASSUME QuicTypeOK, [QuicNext]_vars
    PROVE  /\ QuicTypeOK'
           /\ [Contract!ContractNext]_(Contract!contractVars)
<1>1. CASE UNCHANGED vars
  <2>1. QuicTypeOK'
    BY <1>1 DEF vars, QuicTypeOK, InCall, Precedes, FlowState
  <2>2. UNCHANGED learned_
    BY <1>1, LearnedKeeps DEF vars
  <2> QED
    BY <1>1, <2>1, <2>2 DEF vars, Contract!contractVars, learned_
<1>2. CASE \E p \in Datagram : Begin(p)
  BY <1>2, BeginType, BeginRefines DEF Contract!ContractNext
<1>3. CASE \E scid \in ConnectionId, n \in 1 .. MaxPayload :
              LearnLongHeader(scid, n)
  BY <1>3, LearnType, LearnRefines DEF Contract!ContractNext
<1>4. CASE MalformedLongHeader \/ EndOfDatagram \/ NotQuic
  <2>1. InCall /\ \E disposition \in Disposition \ {"ShortHeaderMatched"} :
                      KeepWhole(disposition)
    BY <1>4 DEF MalformedLongHeader, EndOfDatagram, NotQuic, MoreToRead,
       Disposition
  <2> QED
    BY <2>1, KeepWholeType, KeepWholeRefines DEF Contract!ContractNext
<1>5. CASE \E n \in 0 .. MaxPayload : \E bytes \in [1 .. n -> Symbol] :
              EvaluateShortHeader(bytes)
  <2>0. PICK n \in 0 .. MaxPayload :
               \E bytes \in [1 .. n -> Symbol] : EvaluateShortHeader(bytes)
    BY <1>5
  <2>1. PICK bytes \in [1 .. n -> Symbol] : EvaluateShortHeader(bytes)
    BY <2>0
  <2>2. n \in Nat
    BY QuicBoundsAssumption
  <2>3. QuicTypeOK'
    BY <2>1, <2>2, BytesType, ShortHeaderOutcome
  <2>4. Contract!KeptWhole \/ Contract!Shortened
    BY <2>1, ShortHeaderRefines
  <2> QED
    BY <2>3, <2>4 DEF Contract!ContractNext
<1> QED
  BY <1>1, <1>2, <1>3, <1>4, <1>5 DEF QuicNext

-----------------------------------------------------------------------------
\* Type correctness of the QUIC constrictor: flows are filed canonically, and
\* no call reads past its payload.
THEOREM QuicTypeCorrect == QuicSpec => []QuicTypeOK
<1>1. QuicTypeOK /\ [QuicNext]_vars => QuicTypeOK'
  BY StepRefines
<1> QED
  BY <1>1, InitType, PTL DEF QuicSpec

\* The QUIC constrictor implements QuicContract: it shortens only short headers
\* addressed to the ID their receiver last announced, and keeps the long
\* headers and that ID.
THEOREM ContractHolds == QuicSpec => ImplementsContract
<1>1. QuicTypeOK /\ [QuicNext]_vars
        => [Contract!ContractNext]_(Contract!contractVars)
  BY StepRefines
<1> QED
  BY <1>1, InitRefines, QuicTypeCorrect, PTL
  DEF QuicSpec, ImplementsContract, Contract!ContractSpec

-----------------------------------------------------------------------------
(* Connections.                                                            *)

\* An end's ID is one of the IDs, and a sequence of bytes.
LEMMA IdType ==
    ASSUME NEW c \in Connection, NEW pair \in Pair
    PROVE  c[pair[1]] \in ConnectionId /\ c[pair[1]] \in Seq(Symbol)
BY ConnectionAssumption, ConnectionIdAssumption DEF Ends

\* Of two IDs of one end a short header begins with one only.
LEMMA OneIdMatches ==
    ASSUME NEW c \in Connection, NEW d \in Connection, NEW pair \in Pair,
           NEW bytes \in Seq(Symbol),
           StartsWith(bytes, c[pair[1]]), StartsWith(bytes, d[pair[1]]),
           c[pair[1]] # <<>>, d[pair[1]] # <<>>
    PROVE  c[pair[1]] = d[pair[1]]
<1> DEFINE x == c[pair[1]]  y == d[pair[1]]
<1>0. pair[1] \in Ends
  BY DEF Ends
<1>1. /\ x \in Seq(Symbol) /\ y \in Seq(Symbol)
      /\ Len(x) \in Nat /\ Len(y) \in Nat /\ Len(bytes) \in Nat
  BY IdType
<1>2. /\ \A i \in 1 .. Len(x) : x[i] = bytes[i]
      /\ \A i \in 1 .. Len(y) : y[i] = bytes[i]
  BY DEF StartsWith, Matches
<1>3. CASE Len(x) <= Len(y)
  <2>1. \A i \in 1 .. Len(x) : i \in 1 .. Len(y)
    BY <1>1, <1>3
  <2>2. StartsWith(y, x)
    BY <1>2, <1>3, <2>1 DEF StartsWith, Matches
  <2> QED  BY <1>0, <2>2, ConnectionAssumption
<1>4. CASE Len(y) <= Len(x)
  <2>1. \A i \in 1 .. Len(y) : i \in 1 .. Len(x)
    BY <1>1, <1>4
  <2>2. StartsWith(x, y)
    BY <1>2, <1>4, <2>1 DEF StartsWith, Matches
  <2> QED  BY <1>0, <2>2, ConnectionAssumption
<1> QED  BY <1>1, <1>3, <1>4

\* What the constrictor has learned for a pair is the ID of the connection that
\* announced last, if one did.
AnnouncedLearned ==
    \A pair \in Pair :
        \/ announced[pair] = {} /\ Learned(pair[1], pair[2]) = <<>>
        \/ \E c \in Connection :
              /\ announced[pair] = {c} /\ c[pair[1]] # <<>>
              /\ Learned(pair[1], pair[2]) = c[pair[1]]

ConnectionInv ==
    /\ QuicTypeOK /\ connection \in Connection /\ AnnouncedLearned
    /\ DOMAIN announced = Pair

\* A connection's long header is a long header.
LEMMA LongHeaderIsQuic ==
    ASSUME ConnectionInv, LongHeaderRead
    PROVE  /\ datagram \in Datagram
           /\ connection[datagram.src] \in ConnectionId
           /\ <<datagram.src, datagram.dst>> \in Pair
<1>1. datagram \in Datagram
  BY DEF ConnectionInv, QuicTypeOK, LongHeaderRead, LearnLongHeader, MoreToRead
<1>2. <<datagram.src, datagram.dst>> \in Pair
  BY <1>1, DatagramFields
<1>3. connection[datagram.src] \in ConnectionId
  BY <1>2, IdType DEF ConnectionInv
<1> QED  BY <1>1, <1>2, <1>3

\* Every step against connections is a step of the constrictor.
LEMMA ConnectionStepIsQuic ==
    ConnectionInv /\ [ConnectionNext]_connectionVars => [QuicNext]_vars
<1> SUFFICES ASSUME ConnectionInv, [ConnectionNext]_connectionVars
             PROVE  QuicNext \/ UNCHANGED vars
  OBVIOUS
<1>1. CASE DatagramArrives
  BY <1>1 DEF DatagramArrives, QuicNext
<1>2. CASE LongHeaderRead
  BY <1>2, LongHeaderIsQuic DEF LongHeaderRead, QuicNext
<1>3. CASE ShortHeaderRead
  BY <1>3 DEF ShortHeaderRead, QuicNext
<1>4. CASE OtherRead
  BY <1>4 DEF OtherRead, QuicNext
<1>5. CASE UNCHANGED connectionVars
  BY <1>5 DEF connectionVars
<1> QED  BY <1>1, <1>2, <1>3, <1>4, <1>5 DEF ConnectionNext

\* Only a long header teaches the constrictor anything.
LEMMA OthersTeachNothing ==
    ASSUME QuicTypeOK, DatagramArrives \/ ShortHeaderRead \/ OtherRead
    PROVE  UNCHANGED flow_states /\ UNCHANGED announced
<1>1. CASE DatagramArrives
  BY <1>1 DEF DatagramArrives, Begin
<1>2. CASE ShortHeaderRead
  BY <1>2 DEF ShortHeaderRead, EvaluateShortHeader, ShortHeaderUnknown,
     ShortHeaderTooShort, ShortHeaderMismatch, ShortHeaderMatch, Shorten,
     KeepWhole, Return
<1>3. CASE OtherRead
  BY <1>3 DEF OtherRead, MalformedLongHeader, EndOfDatagram, NotQuic,
     KeepWhole, Return
<1> QED  BY <1>1, <1>2, <1>3

\* While nothing is learned, what is announced stays learned.
LEMMA AnnouncedKept ==
    ASSUME AnnouncedLearned, UNCHANGED flow_states, UNCHANGED announced
    PROVE  AnnouncedLearned'
BY DEF AnnouncedLearned, Learned, StateOf

\* A long header changes what is learned and what is announced for one pair, in
\* the same way.
LEMMA AnnouncedAdded ==
    ASSUME ConnectionInv, LongHeaderRead
    PROVE  AnnouncedLearned' /\ DOMAIN announced' = Pair
<1> DEFINE scid == connection[datagram.src]
           own == <<datagram.src, datagram.dst>>
<1>1. datagram \in Datagram /\ scid \in ConnectionId /\ own \in Pair
  BY LongHeaderIsQuic
<1>2. PICK n \in 1 .. MaxPayload : LearnLongHeader(scid, n)
  BY DEF LongHeaderRead
<1>3. datagram.src # datagram.dst
  BY <1>1, ConnectionAssumption
<1>4. \A pair \in Pair :
         Learned(pair[1], pair[2])' =
           IF pair = own /\ scid # <<>> THEN scid
           ELSE Learned(pair[1], pair[2])
  BY <1>1, <1>2, <1>3, LearnedChanges DEF ConnectionInv
<1>5. /\ connection \in Connection /\ connection' = connection
      /\ DOMAIN announced = Pair
  BY DEF ConnectionInv, LongHeaderRead
<1>6. announced' = IF scid = <<>> THEN announced
                   ELSE [announced EXCEPT ![own] = {connection}]
  BY DEF LongHeaderRead
<1>7. ASSUME NEW pair \in Pair
      PROVE  \/ /\ announced'[pair] = {}
                /\ Learned(pair[1], pair[2])' = <<>>
             \/ \E c \in Connection :
                   /\ announced'[pair] = {c} /\ c[pair[1]] # <<>>
                   /\ Learned(pair[1], pair[2])' = c[pair[1]]
  <2>1. CASE pair = own /\ scid # <<>>
    <3>1. announced'[pair] = {connection}
      BY <1>5, <1>6, <2>1
    <3>2. Learned(pair[1], pair[2])' = scid
      BY <1>4, <2>1
    <3>3. connection[pair[1]] = scid
      BY <2>1
    <3> QED  BY <1>5, <2>1, <3>1, <3>2, <3>3
  <2>2. CASE ~(pair = own /\ scid # <<>>)
    <3>1. announced'[pair] = announced[pair]
      BY <1>5, <1>6, <2>2
    <3>2. Learned(pair[1], pair[2])' = Learned(pair[1], pair[2])
      BY <1>4, <2>2
    <3> QED  BY <3>1, <3>2 DEF ConnectionInv, AnnouncedLearned
  <2> QED  BY <2>1, <2>2
<1>8. DOMAIN announced' = Pair
  BY <1>5, <1>6
<1> QED  BY <1>7, <1>8 DEF AnnouncedLearned, Learned, StateOf

\* Nothing is announced and nothing is learned at first.
LEMMA ConnectionInitInv == ConnectionInit => ConnectionInv
<1> SUFFICES ASSUME ConnectionInit  PROVE ConnectionInv
  OBVIOUS
<1>1. QuicTypeOK
  BY InitType DEF ConnectionInit
<1>2. \A pair \in Pair : Learned(pair[1], pair[2]) = <<>>
  BY DEF ConnectionInit, QuicInit, Learned, StateOf
<1> QED
  BY <1>1, <1>2 DEF ConnectionInit, ConnectionInv, AnnouncedLearned

\* Each step keeps the invariant.
LEMMA ConnectionNextInv ==
    ConnectionInv /\ [ConnectionNext]_connectionVars => ConnectionInv'
<1> SUFFICES ASSUME ConnectionInv, [ConnectionNext]_connectionVars
             PROVE  ConnectionInv'
  OBVIOUS
<1>0. QuicTypeOK /\ QuicTypeOK'
  BY ConnectionStepIsQuic, StepRefines DEF ConnectionInv
<1>1. CASE LongHeaderRead
  BY <1>0, <1>1, AnnouncedAdded DEF ConnectionInv, LongHeaderRead
<1>2. CASE DatagramArrives \/ ShortHeaderRead \/ OtherRead
  <2>1. UNCHANGED flow_states /\ UNCHANGED announced
    BY <1>0, <1>2, OthersTeachNothing
  <2>2. connection' \in Connection
    BY <1>2 DEF ConnectionInv, DatagramArrives, ShortHeaderRead, OtherRead
  <2> QED  BY <1>0, <2>1, <2>2, AnnouncedKept DEF ConnectionInv
<1>3. CASE UNCHANGED connectionVars
  BY <1>0, <1>3, AnnouncedKept DEF ConnectionInv, connectionVars, vars
<1> QED  BY <1>1, <1>2, <1>3 DEF ConnectionNext

\* The invariant holds whatever connections share the addresses.
LEMMA ConnectionInvHolds == ConnectionSpec => []ConnectionInv
BY ConnectionInitInv, ConnectionNextInv, PTL DEF ConnectionSpec

\* Connections on shared addresses are no more than the open module allows: what
\* it is proved to do, the contract among it, it does for them.
THEOREM ConnectionsKeepContract ==
    ConnectionSpec => QuicSpec /\ ImplementsContract
<1>1. ConnectionInit => QuicInit
  BY DEF ConnectionInit
<1>2. ConnectionInv /\ [ConnectionNext]_connectionVars => [QuicNext]_vars
  BY ConnectionStepIsQuic
<1>3. ConnectionSpec => QuicSpec
  BY <1>1, <1>2, ConnectionInvHolds, PTL DEF ConnectionSpec, QuicSpec
<1> QED  BY <1>3, ContractHolds

\* The ID a datagram's short header is compared with: none, or that of the
\* connection announced last.
LEMMA ExpectedOfAnnounced ==
    ASSUME ConnectionInv, InCall
    PROVE  /\ <<datagram.dst, datagram.src>> \in Pair
           /\ \/ /\ announced[<<datagram.dst, datagram.src>>] = {}
                 /\ ExpectedDcid(datagram) = <<>>
              \/ \E c \in Connection :
                    /\ announced[<<datagram.dst, datagram.src>>] = {c}
                    /\ DcidOf(c) # <<>> /\ ExpectedDcid(datagram) = DcidOf(c)
<1>1. datagram \in Datagram
  BY DEF ConnectionInv, QuicTypeOK
<1>2. <<datagram.dst, datagram.src>> \in Pair
  BY <1>1, DatagramFields
<1>3. ExpectedDcid(datagram) = Learned(datagram.dst, datagram.src)
  BY <1>1, ExpectedIsLearned
<1> QED  BY <1>2, <1>3 DEF ConnectionInv, AnnouncedLearned, DcidOf

\* A call that shortens on a required match has matched this connection's own
\* ID, if its short headers carry one.
LEMMA ShortenedOnOwn ==
    ASSUME ConnectionInv, [ConnectionNext]_connectionVars, Shortens,
           RequireDcidMatch
    PROVE  \E c \in Connection :
             /\ announced[<<datagram.dst, datagram.src>>] = {c}
             /\ DcidOf(connection) # <<>> => DcidOf(c) = DcidOf(connection)
             /\ result'.kept >= scan.offset + 1 + Len(DcidOf(connection))
<1>1. /\ InCall /\ ~InCall' /\ result'.disposition = "ShortHeaderMatched"
      /\ result'.kept < datagram.size
  BY DEF Shortens
<1>2. ShortHeaderRead
  <2>1. ~DatagramArrives
    BY <1>1 DEF DatagramArrives, Begin
  <2>2. ~LongHeaderRead
    BY <1>1 DEF LongHeaderRead, LearnLongHeader, InCall
  <2>3. ~OtherRead
    <3>1. ASSUME NEW d, d # "ShortHeaderMatched"  PROVE ~KeepWhole(d)
      BY <1>1, <3>1 DEF KeepWhole, Return
    <3> QED  BY <3>1 DEF OtherRead, MalformedLongHeader, EndOfDatagram, NotQuic
  <2>4. ~UNCHANGED connectionVars
    BY <1>1 DEF connectionVars, vars, InCall
  <2> QED  BY <2>1, <2>2, <2>3, <2>4 DEF ConnectionNext
<1>3. PICK n \in 0 .. MaxPayload :
        \E bytes \in [1 .. n -> Symbol] :
           /\ StartsWith(bytes, connection[datagram.dst])
           /\ EvaluateShortHeader(bytes)
  BY <1>2 DEF ShortHeaderRead
<1>4. PICK bytes \in [1 .. n -> Symbol] :
        /\ StartsWith(bytes, connection[datagram.dst])
        /\ EvaluateShortHeader(bytes)
  BY <1>3
<1>5. bytes \in Seq(Symbol) /\ Len(bytes) \in Nat
  <2>1. n \in Nat
    BY QuicBoundsAssumption
  <2> QED  BY <2>1, BytesType
<1> DEFINE id == ExpectedDcid(datagram)
<1>6. /\ id # <<>> /\ Len(id) <= Len(bytes) /\ Matches(id, bytes)
      /\ ShortHeader(bytes)
      /\ Shorten(LargerOf(KeepPacket, 1 + Len(id)), bytes)
  <2>1. ASSUME NEW d \in Disposition \ {"ShortHeaderMatched"}
        PROVE  ~KeepWhole(d)
    BY <1>1, <2>1 DEF KeepWhole, Return
  <2> QED  BY <1>4, <1>5, <2>1, ShortHeaderCases DEF ConnectionInv
<1>7. PICK c \in Connection :
        /\ announced[<<datagram.dst, datagram.src>>] = {c}
        /\ DcidOf(c) # <<>> /\ id = DcidOf(c)
  BY <1>1, <1>6, ExpectedOfAnnounced
<1>8. DcidOf(connection) # <<>> => DcidOf(c) = DcidOf(connection)
  <2>1. <<datagram.dst, datagram.src>> \in Pair /\ connection \in Connection
    BY <1>1, ExpectedOfAnnounced DEF ConnectionInv
  <2>2. StartsWith(bytes, DcidOf(c)) /\ StartsWith(bytes, DcidOf(connection))
    BY <1>4, <1>6, <1>7 DEF StartsWith, DcidOf
  <2>3. PICK pair \in Pair : pair = <<datagram.dst, datagram.src>>
    BY <2>1
  <2>4. DcidOf(c) = c[pair[1]] /\ DcidOf(connection) = connection[pair[1]]
    BY <2>3 DEF DcidOf
  <2> QED  BY <1>5, <1>7, <2>1, <2>2, <2>4, OneIdMatches
<1>9. result'.kept >= scan.offset + 1 + Len(DcidOf(connection))
  <2>1. /\ Len(id) \in Nat /\ KeepPacket \in Nat /\ scan.offset \in Nat
    BY <1>1, ExpectedType, CallType, QuicBoundsAssumption DEF ConnectionInv
  <2> DEFINE kept == LargerOf(KeepPacket, 1 + Len(id))
  <2>2. kept \in Nat \ {0} /\ kept >= 1 + Len(id)
    BY <2>1 DEF LargerOf
  <2>3. result'.kept = scan.offset + kept
    <3>1. \/ result'.kept = datagram.size
          \/ result'.kept = scan.offset + kept
      BY <1>5, <1>6, <2>2, ShortenKeeps DEF ConnectionInv
    <3>2. datagram.size \in Nat
      BY <1>1, CallType DEF ConnectionInv
    <3> QED  BY <1>1, <3>1, <3>2
  <2>4. Len(DcidOf(connection)) <= Len(id)
    <3>1. CASE DcidOf(connection) # <<>>
      BY <1>7, <1>8, <2>1, <3>1
    <3>2. CASE DcidOf(connection) = <<>>
      BY <2>1, <3>2
    <3> QED  BY <3>1, <3>2
  <2>5. Len(DcidOf(connection)) \in Nat
    BY <1>1, ExpectedOfAnnounced, IdType DEF ConnectionInv, DcidOf
  <2> HIDE DEF kept
  <2> QED  BY <2>1, <2>2, <2>3, <2>4, <2>5
<1> QED  BY <1>7, <1>8, <1>9

\* Headers and the connection's own ID are kept, whoever shares its addresses.
THEOREM HeadersAlwaysKept == ConnectionSpec => HeadersKept
<1>1. ConnectionInv /\ [ConnectionNext]_connectionVars
        => [Shortens /\ RequireDcidMatch =>
              result'.kept >= scan.offset + 1 + Len(DcidOf(connection))
           ]_connectionVars
  BY ShortenedOnOwn
<1> QED  BY <1>1, ConnectionInvHolds, PTL DEF ConnectionSpec, HeadersKept

\* No connection's short header is cut on an ID another connection left behind.
THEOREM OnlyAnnouncedAreShortened == ConnectionSpec => OnlyAnnouncedShortened
<1>1. ConnectionInv /\ [ConnectionNext]_connectionVars
        => [(Shortens /\ RequireDcidMatch /\ DcidOf(connection) # <<>>) =>
              \E c \in announced[<<datagram.dst, datagram.src>>] :
                 DcidOf(c) = DcidOf(connection)]_connectionVars
  BY ShortenedOnOwn
<1> QED
  BY <1>1, ConnectionInvHolds, PTL DEF ConnectionSpec, OnlyAnnouncedShortened

\* The short headers of the connection announced last match.
THEOREM AnnouncedAlwaysMatches == ConnectionSpec => AnnouncedMatches
<1> DEFINE Reads(bytes) == /\ StartsWith(bytes, DcidOf(connection))
                           /\ EvaluateShortHeader(bytes)
<1>1. ASSUME ConnectionInv, InCall, NEW n \in 0 .. MaxPayload,
             NEW bytes \in [1 .. n -> Symbol], Reads(bytes),
             connection \in announced[<<datagram.dst, datagram.src>>]
      PROVE  result'.disposition = "ShortHeaderMatched"
  <2>1. /\ ExpectedDcid(datagram) = DcidOf(connection)
        /\ DcidOf(connection) # <<>>
    BY <1>1, ExpectedOfAnnounced
  <2>2. Len(DcidOf(connection)) <= Len(bytes)
        /\ Matches(DcidOf(connection), bytes)
    BY <1>1 DEF StartsWith
  <2>3. Len(bytes) \in Nat /\ Len(DcidOf(connection)) \in Nat
    <3>1. n \in Nat
      BY QuicBoundsAssumption
    <3> QED  BY <1>1, <2>1, <3>1, BytesType, ExpectedType DEF ConnectionInv
  <2>4. ShortHeaderMatch(bytes)
    BY <1>1, <2>1, <2>2, <2>3 DEF EvaluateShortHeader, ShortHeaderUnknown,
       ShortHeaderTooShort, ShortHeaderMismatch
  <2> QED  BY <2>4 DEF ShortHeaderMatch, Shorten, Return
<1>2. ConnectionInv /\ [ConnectionNext]_connectionVars
        => [(/\ InCall /\ ~InCall'
             /\ \E n \in 0 .. MaxPayload : \E bytes \in [1 .. n -> Symbol] :
                   /\ StartsWith(bytes, DcidOf(connection))
                   /\ EvaluateShortHeader(bytes)
             /\ connection \in announced[<<datagram.dst, datagram.src>>])
            => result'.disposition = "ShortHeaderMatched"]_connectionVars
  BY <1>1
<1> QED  BY <1>2, ConnectionInvHolds, PTL DEF ConnectionSpec, AnnouncedMatches
=============================================================================
