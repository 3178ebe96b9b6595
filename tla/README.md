# PcapConstrictorWinPacket in TLA+

PcapConstrictorWinPacket records network traffic into a classic PCAP file and
leaves out most of the encrypted payload of TLS and QUIC packets. A packet that
is shortened wrongly cannot be recovered later, and no one looks at the file
until it is needed: the interesting errors are those that lose something
quietly. This directory models the parts of the program that decide what is
kept and that put it into the file, checks them with TLC on small instances and
proves the central properties with TLAPS for every instance. Paths below are
relative to the repository's root.

Contents: [the system](#the-system), [the plan](#the-plan),
[modules](#modules-and-the-code), [runs](#runs), [fairness](#fairness),
[proofs](#proofs), [findings](#findings),
[assumptions](#assumptions), [not modelled](#what-is-not-modelled).

## The system

```
 Npcap driver --> NpcapCapture::Run --+                        +--> PcapWriter --> file
                  (live capture)      +--> LiveCapturePolicy --+
 input file  --> PcapReader --> ------+     |     |     |
                 OfflinePacketFeed          |     |     +-- PacketDecode (pure)
 main, ConfigLoader --> PolicyConfig        |     +-------- TlsConstrictor  (state per direction)
 console control handler --> stop flag      +-------------- QuicConstrictor (state per flow)
```

| Component | State | Operations | What makes it correct |
| --- | --- | --- | --- |
| TLS constrictor (`src/policy/TlsConstrictor.*`) | `directions_`: per direction, whether TLS was confirmed, whether the stream is in sync, the expected sequence number, the open record | `Evaluate`, once per TCP packet on a TLS port | cuts only confirmed connections, and only Application Data beyond the configured bytes; recovers from loss; always returns |
| QUIC constrictor (`src/policy/QuicConstrictor.*`) | `flow_states_`: per canonical flow, the connection ID each end announced | `Evaluate`, once per UDP datagram on a QUIC port | a datagram is shortened only behind long headers, header byte and an ID its receiver announced |
| Live capture policy (`src/policy/LiveCapturePolicy.*`) | the two constrictors, the configuration | `Evaluate` | the length fits the writer, the limits and the packet; the reason tells what was done |
| PCAP writer (`src/writer/`) | whether the global header was written | `WriteGlobalHeader`, `WritePacket` | whole records behind one header |
| Live capture session (`src/capture/NpcapCapture.cpp`, `src/main.cpp`) | the stop flag, the loop, counters, the output stream | open, capture loop, control handler, exit code | ends when asked to, reports why, counts what it wrote |
| PCAP reader (`src/offline/PcapReader.*`) | offset, packet index, error | `Open`, `ReadNext` | accepts whole records only, never reads past the end |
| Offline feed (`src/offline/OfflinePacketFeed.*`, `src/main.cpp`) | counters, both streams | `Run` | success means that all input was used |
| Packet decoder (`src/decode/`) | none between calls; the result and an offset inside one | `DecodePacket` | headers nest inside the captured bytes; a failure is told as one |
| Configuration loader (`src/config/`) | the section it is in, the configuration being built | `LoadFromFile`, `LoadFromString`, `AssignValue` | the last assignment counts; a text with an error in it configures nothing |
| Startup (`src/main.cpp`) | none | `main`, the checks of `RunLiveCapture` | nothing runs that the text and the command line do not ask for |
| Interface listing, runtime check (`src/capture/Npcap*List*`, `NpcapRuntime`) | none | calls into Npcap, texts | `main` acts on their answers |

The components call each other synchronously on one thread. The only
concurrency is the console control handler, which sets an atomic flag from a
thread of its own, and the driver and the disk, which act when they like. What
is hard is the network: segments are lost, repeated and reordered, sequence
numbers wrap, address pairs are reused, connections interleave, and both
constrictors carry state from one packet to another. The other hard part is
partial failure: a write that fails in the middle of a record, a flush that
fails in a destructor, a driver error that races a stop request. Nothing is
persisted except the output, and nothing is retried, so there is no crash
recovery to model. `PROJECT.json` lists the hazards one by one, at their lines.

## The plan

In the order of what can do most harm. Done: all ten items.

1. `TlsConstrictor`, then `TlsStream` on top of it: the record tracker. Proofs of
   type correctness, of the map's soundness and of both action properties.
2. `PcapWriter`, `LiveCapture`: the session around the loop; all four invariants
   proved.
3. `QuicContract` (abstract) and `QuicConstrictor` (detailed), the refinement
   proved; `QuicConnection` against connections, its three properties proved.
4. `LiveCapturePolicy`, which joins the constrictors' verdicts with the limits;
   its four properties proved.
5. `OfflineFeed`, on `PcapWriter`; its three properties proved.
6. `PacketDecode`, and `PacketPath`, which puts it in front of the policy; its
   invariants proved, and that the path implements `LiveCapturePolicy`.
7. `ConfigLoader` and `Startup`: sections, repeated keys, validation at the end,
   and what may run after it; all four invariants proved.
8. Proofs about `TlsStream`: all its safety properties, from an invariant that ties
   the scan position and the candidate cut to the stream's records.
9. `TlsContract`, what the TLS constrictor promises without record tracking, and the
   proof that `TlsConstrictor` implements it.
10. `RecordingContract`, what both programs promise of their output, and the proofs that
    `LiveCapture` and `OfflineFeed` implement it.

Next: the byte totals of the live capture (`CaptureStats`) against its file, and the
path of a packet with the constrictors themselves in place of their verdicts.

## Modules and the code

Each variable and action is named after the code's; the comment in front of it
says what a name stands for when the code has none. Definitions named
`...Always`, `...Unchecked` and the like, with the comment "Mutant", are wrong on
purpose: they show which mistake in the code a property would notice, and no
specification uses them.

**TlsConstrictor** is `Evaluate` in an open world. A call brings any packet of
any direction (`Begin`, lines 97-186), each turn of the record loop reads any
header or none (`ReadRecord`, lines 188-247), and the branches behind the loop
return (`End`, lines 249-283). `directions` is the map, `packet`, `scan` and
`result` are the argument, the locals and the return value. Bytes are abstracted
to what `ReadTlsRecordHeader` makes of them. `handshake_seen` is a ghost.
**TlsContract** is the promise behind it: a set of known directions, which a
handshake extends by both directions of a connection and a SYN or RST reduces by
both, and cuts of known directions only, which keep what is configured for the end
of a record, or no less than the configured start of one or its header. `ImplementsContract`
maps `known` to the confirmed entries of the map.

**TlsStream** extends it with an environment: a connection gives each direction its
side, a stream of records and an initial sequence number, and `SegmentArrives` shows
the capture any run of bytes of it, at any time. The headers read are those of the
stream. Connections follow each other on one 4-tuple, separated by SYN or RST; a SYN
replaces both sides of its own 4-tuple and leaves all others alone.

**PcapWriter** is a library of operators on a file seen as chunks: the global
header, then two chunks per packet (header and data). A chunk may stay in
the stream's buffer or be flushed, a flush fails when the disk is full, and the
destructor flushes without telling anyone.

**LiveCapture** is `RunLiveCapture` and `NpcapCapture::Run`. `pc` walks through the
function; `RequestStop` is the handler's thread, `DurationPasses` the clock, and
`NextPacket`, `NextNothing`, `NextBreak` and `NextError` are what `pcap_next_ex`
may answer. Limits and time-out are a configuration chosen at the start. How much
of a packet is kept is left out here.

**RecordingContract** is what `LiveCapture` and `OfflineFeed` promise alike of their output,
with neither the loop nor the reasons: pieces are given to the file one by one, a
packet is counted behind its second piece and before anything else is given, a failed
write is the last, and success means that none failed and no record is unfinished. Both
modules implement it (`ImplementsContract`) by a mapping of `file`, the counter and the exit
code. It does not promise that what was given is on the disk: finding 3.

**QuicContract** says what the QUIC constrictor promises, without flows: one ID per
ordered pair of endpoints, and a cut that covers the headers. **QuicConstrictor**
is the code: canonical flows with two halves, one step per coalesced long
header (`LearnLongHeader`), the short header's four outcomes. Its property
`ImplementsContract` instantiates the contract with a refinement mapping that
looks up each half of a flow. **QuicConnection** extends it with connections that
share a pair of addresses.

**LiveCapturePolicy** is `Evaluate` of the policy as a function of lengths, of
what the decoder says and of a constrictor's verdict (`Decide`), followed by the
record written and the totals kept (`WriteAndCount`), or the exception of
`WritePacket` if the decision is longer than the packet.

**PacketDecode** is `DecodePacket`, one step per header: link header or loopback
family, one turn of the VLAN loop, IPv4 or IPv6, TCP or UDP. A frame is its
length; a length field or a version is chosen when it is read, from 4-bit and
16-bit numbers. `read_end` is a ghost, the end of the last byte read. **PacketPath**
is the path of a frame through `LiveCapturePolicy::Evaluate`: the decoder runs,
`HandOver` turns its result into the kind and lengths the policy works on
(lines 99-120), and the policy decides and the record is written. Which ports are
configured is open, so each transport may or may not be a candidate.

**ConfigLoader** is `LoadFromString`, one step per line, with one action per way a
line is taken: skipped, a section, an assignment, an error. `text` is a ghost of the
lines read so far; `Means`, `LineFits` and `TextFits` say what such a text means as
a whole, without going through it line by line, and the properties compare the two.
**Startup** is `main` up to the point where capturing or feeding begins: the forms of
the command line, the listing, the loader's answer, and the checks of
`RunLiveCapture` in front of the stop handlers.

**OfflineFeed** is `RunOfflinePipeline`, the feed's loop and the reader, on a
`PcapWriter`. The input is its size; its fields are chosen when they are read,
since the file is read once, front to back.

### Composition

`TlsStream` and `QuicConnection` extend a constrictor and replace its free choices by
those of a network. `LiveCapture` and `OfflineFeed` extend `PcapWriter`. `Startup`
extends the loader and ends where those two begin: it hands them a configuration
whose limits are not 0, and for live capture an interface. `PacketPath` extends
the decoder and the policy; that it implements `LiveCapturePolicy`, whose packets
are assumed (`Packet`), is checked (`PolicySpec` as a property of `packet_path`) and
proved (`PathImplementsPolicy`), so the policy's theorems hold of the path. With the
constrictors the policy is composed by contract: it takes any verdict whose kept length is within the
payload, which is proved of both (`ContractHolds`, `ContractImplemented`: a cut
keeps less than the packet holds, and all else is kept whole); `OfflineFeed` takes any length up to the captured
one, which is what `RecordsSane` proves about the policy. The product of all
modules would add states and no behaviour: between components only these lengths
pass.

## Runs

All runs but the four marked `violation` finish without error. Each passing
property is also known to be able to fail: `mutants` in `PROJECT.json` names, for
each, a plausible mistake in the code that violates it in the same run.

| Run | Properties | What it shows |
| --- | --- | --- |
| `tls_open` (33,699 states) | `TypeOK`, `DirectionsPaired`, `ActiveRecordSound`, `CutNeedsHandshake`, `LoopAdvances`, `ImplementsContract` | whatever the packets and bytes, the map stays sound, only confirmed connections are cut, every turn of the loop goes forward, and the tracker keeps `TlsContract` |
| `tls_stream` (17,251) | `ActiveRecordAligned`, `RecordStartsKept`, `FinalOnly`, `ControlOnlyKept`, `RecordStartConstricted`, `EvaluateReturns` | on true streams, cuts fall where `final_only` says, the tracker recovers, every call returns |
| `tls_trailing`, violation | `OnlyAppDataRemoved` | finding 1 |
| `live_capture` (5,412) | `ReasonTruthful`, `CountsMatchFile`, `StopsWithinOnePacket`, `ImplementsContract`, `StopHonoured`, `DurationHonoured` | reason, counters, file and exit code agree under all races; the output is what `RecordingContract` promises; a stop request and the duration limit end the capture |
| `live_blocking`, violation | `DurationHonoured` | finding 2 |
| `live_flush`, violation | `InterruptedOutputValid` | finding 3 |
| `quic_open` (44,558) | `QuicTypeOK`, `ImplementsContract` | two halves of a canonical flow are one ID per ordered pair; cuts cover the headers |
| `quic_connection` (1,738) | `HeadersKept`, `OnlyAnnouncedShortened`, `AnnouncedMatches` | on a shared address pair, a short header that carries an ID is cut only on that ID; one that carries none may be cut on another connection's, but never into its headers |
| `packet_path` (347,061) | `DecodeTypeOK`, `HeadersNest`, `FailureTold`, `CutOnlyWhole`, `RecordSane`, `ReasonTellsCut`, `SavingsAddUp`, `PolicySpec`, `EveryFrameRecorded` | headers nest, only whole datagrams are cut, the decoder gives the policy what it assumes; clamps, threshold, reasons and totals agree; every frame is recorded |
| `offline_feed` (8,321) | `FeedTypeOK`, `InputAccounted`, `PrefixWritten`, `ImplementsContract` | success used all input; failure keeps what came before; the output is what `RecordingContract` promises |
| `offline_empty`, violation | `OutputIsPcap` | finding 4 |
| `startup` (845,769) | `StartupTypeOK`, `LastAssignmentCounts`, `AcceptsWhatFits`, `RunsWhatTextSays` | the loader accepts what fits and means what it says; half a configuration never runs |

### Bounds

* `tls_open`: one connection is enough because a call touches one direction and
  its reverse only. Headers of two bytes and payloads up to four give a split
  header, two records in one packet, an empty record and one that spans packets;
  `SeqSpace = 6` makes every stream wrap. The two endpoints are symmetric.
* `tls_stream`: records shorter and longer than the keep sizes (3 and 1) and than
  a packet (6), an empty one, all three content types, and initial sequence
  numbers in front of the wrap. Two connections on the same 4-tuple make state
  that survives a reuse visible.
* `live_capture`: no limit, each and both, a limit of two packets with a driver that
  offers three, and a disk of three chunks, which fills up inside the second
  record. `PacketBound` caps the packets. `live_blocking` has a handle whose reads
  never time out.
* `quic_open`: endpoints that differ in the address, in the port, and not at all;
  IDs of length 0, 1 and 2, one a prefix of another; datagrams of four bytes hold
  two long headers and a short one. `KeepPacket = 0` and the permissive options
  reach every branch; `quic_connection` has the default options, and keeps more
  than an ID's length.
* `packet_path`: frames of 3, 18, 56 and 66 bytes end inside the link header, right behind
  a VLAN tag, behind an IPv4 datagram of 42 bytes (56 = 14 + 42) or inside the transport
  header of an IPv6 one, and behind both, with room for two or more tags; a TCP segment and a
  UDP datagram with payload fit in IPv4, a UDP datagram in IPv6. The fields put the headers'
  words around the legal minimum of 5 and the lengths below a UDP header, inside a TCP
  header and behind one. The frame bounds the number of
  tags, so the loop needs no bound of its own. Limits lie on either side of the
  frames, thresholds are 0, 1 and 13; two frames let totals add up.
* `startup`: five lines are enough to open a section, assign, open another, come back
  and assign again, or to correct a limit of 0 before the end; every kind of wrong
  line occurs. Numbers of 32 and 64 bits are scaled down to 100,000 and 200,000, which
  keeps the order 65,535 < 32 bits < 64 bits, and tokens lie on both sides of each.
* `offline_feed`: inputs that end at, before and behind each boundary of the
  headers and of up to three records; `DiskSpace = 3` fails a write in the
  second record.

Deadlock is checked except in `packet_path`, where a run ends at `PacketBound`, in
`startup`, which ends where another module begins or the program returns, and in
`offline_feed` and `offline_empty`, where the program ends at `done`. The other modules
go on: a constrictor is always ready for a packet, and in `LiveCapture` a finished
capture can still be asked to stop.

## Fairness

`EvaluateReturns` assumes weak fairness of the two kinds of step of a running call:
`Evaluate` takes no lock and waits for nothing, so it goes on when it can. Nothing
is assumed about packets. `StopHonoured` and `DurationHonoured` assume that the
capture thread is scheduled and that time passes (`ThreadStep`, `DurationPasses`). A
packet need never arrive, the driver need never fail (`NextBreak` and `NextError` are
excluded from the fair steps) and nobody need press Ctrl+C. When `pcap_next_ex` blocks for
ever, no step of the thread is enabled and fairness helps nobody: that is finding 2.
`EveryFrameRecorded` assumes that the program goes on once it has a frame in hand
(`FairPathSpec`): decoder, policy and writer run on one thread and wait for nothing.

## Proofs

`tlapm` proves every theorem, to the last leaf, from the named assumptions on the
constants (sets of naturals, positive bounds, `DirectionKey` closed under
`Reverse`, fields of 4 and 16 bits, number types at least as wide as a port); none
fixes a bound, so they hold for the code's sizes.

**TlsConstrictorProofs.** `DirectionsPaired` is not inductive: `operator[]` at line 134
creates an entry in the middle of a call, and each way out must take back what is
not TLS. `Inv` therefore says what may be in the map while a call runs: all other
entries are confirmed and paired, and the one being worked on is either confirmed
and paired, or fresh with its reverse not tracked either (`CallSound`). To keep that
it also says that an open record needs a direction in sync and that sync needs
confirmation (`StatesSound`), that the scan's own flags agree with the entry, and that
each confirmation has a handshake as its witness. Lemmas state what each helper
(`AfterSynOrRst`, `CheckSeq`, `ClearActive`, ...) changes; then one lemma per action.
`TypeCorrect`, `NoLeftovers`, `OpenRecordsSound` follow from `Inv`, `CutsAreConfirmed` from
`Inv` and the fact that only `FinishPrefix` cuts. `ConfirmationLasts` goes through all
steps and shows that no erase and no reset drops a confirmed direction; no run checks
it by itself, since a step that breaks it also breaks `ImplementsContract`.
`LoopAlwaysAdvances` is the safety half of termination: each turn of the record loop leaves
it or moves the scan position forward inside the payload, whatever the header said, so
a call turns at most as often as its packet has bytes. `ContractImplemented` maps `Begin` to
`Arrives`, a handshake to `Learns`, and each way out to `KeptWhole` or `Shortened`. For
the length a cut keeps, `Inv` is strengthened by `CandidateKeeps`: the candidate a call has
noted is the configured one for a record's end or covers a record's start. That the entries
of a connection come and go together, which makes the mapped `known` a union of
connections, is `DirectionsPaired` again, now in the middle of a call.

**TlsStreamProofs.** Between calls `ActiveRecordAligned` relates each open record to its stream;
it says nothing while a call runs, when the state is rebuilt from the locals.
`StreamInv` therefore says what these locals mean in the stream: the packet is the run
of bytes at `from` (`SegmentCall`); a record left open is the stream's record that goes
on behind the packet (`OpenBehind`); the candidate cut covers the start of every record of
Application Data passed so far, exists only if there is one, and is final for a packet
that begins inside a record (`CandidateSound`, with `NoStraddler` for the turns behind the
first); a packet that is a single record has been recognised as one (`WholeCut`). The
argument rests on two facts: a position of a stream has one sequence number, since
a stream is shorter than the sequence space (`SeqOfInjective`, which makes `expected_tcp_seq`
identify the position), and one record (`OneRecord`, from tiling). The cases that need care
are the two ways a packet continues an open record (`EnterMiddleAligned`, `EnterFinalAligned`)
and the turn that reads a header (`ScanAfterSound`). `StreamImplements` shows that every step
on true streams is one of the open module, so all theorems of `TlsConstrictorProofs`
hold there too, the contract among them (`StreamsKeepContract`). TLC checked `Inv /\ StreamInv` on the instance of `tls_stream` before it was
proved.

**QuicProofs.** `QuicTypeOK` is inductive once the order of endpoints is known to
be total (`PrecedesIsTotalOrder`, `FlowIsCanonical`). `ContractHolds` is a refinement: initial
states map to initial states, `LearnLongHeader` to `Announces` or a stutter, the four
outcomes of a short header to `KeptWhole` or `Shortened`. The heart is `LearnedChanges`:
storing one half of a flow changes what is learned for one ordered pair only. A
flow of an endpoint with itself needs care: the code stores into one half and
looks up the other, and the mapping says so. The properties of `QuicConnection` rest on
one more invariant, `AnnouncedLearned`: the ID learned for an ordered pair is that of
the connection announced last. From it and the prefix assumption follow all
three, `HeadersKept` by way of the fact that a matched ID is the datagram's own. With
that invariant each step among connections is one of the open module, so the contract
holds there too (`ConnectionsKeepContract`).

**PolicyProofs** has two parts. The policy: `PolicyInv` adds to `PolicyTypeOK` that a decision in hand is
`Decide` of its packet for some verdict. The lemmas bound `Baseline` and `Candidate`
and show that a reason in `Constricted` and a shorter length imply each other; the totals
follow by adding one packet's savings at a time.

The path: `HeadersNest` is not inductive: between two steps only the offsets
passed on tell where the next header begins. `DecodeInv` adds what each value of `at`
has established: `network_offset` bytes are there before a tag or an IP header is looked
for, and before a transport header the datagram's end lies behind the IP header and
inside the frame. One lemma per decoder step. `PathImplementsPolicy` maps the
decoder's steps to stutters and `HandOver` to `PacketArrives`, since by the invariant the
result is a member of `Packet`; `PathDecisionsSound` then comes from the policy's own
theorems.

**PcapWriterProofs** has lemmas only: what a `Puts` and the destructor do to the chunks given
and those on the disk, and how chunks count as records. **LiveCaptureProofs** uses them. `Sound` relates, at each value
of `pc`, the chunks written to the packets counted, the reason to the flags that explain
it, and the requests seen to the packets since; it is preserved action by action.
`CaptureKeepsContract` maps writes to `Gives` or `Breaks`, `CountPacket` to `Counts` and each way to
`done` to `Ends`; all other steps stutter. It needs two clauses of `Sound` that no single
property states: in the loop the stream is good, and at the end a result without an error
has a good stream, so that no exit code 0 hides a failed write.

**StartupProofs.** The loader's properties compare a configuration built line by line with
the meaning of the text as a whole, so the invariant says that they agree for every prefix
(`config[o]` is what the lines so far mean, the section is the last header's, each line
fits while the loader reads). The lemmas say how one more line changes what a text means:
an assignment gives its option a new meaning and leaves all others, any other line leaves all.
A meaning is unique (`Means` is a function), which the validation of the limits needs.

**OfflineFeedProofs.** `FeedInv` ties the reader's offset to the counters, and the
counters to the chunks written, at each value of `pc`; the record in hand is
the difference. One step per action. `FeedKeepsContract` is the same refinement as for
the live capture, from `FeedInv`.

Only model-checked: liveness (`EvaluateReturns`, `StopHonoured`, `DurationHonoured`,
`EveryFrameRecorded`), which TLAPS does not reach. Every safety and action property
of the passing runs is a theorem.

## Findings

1. `tls_trailing`: a cut removes all that follows the last Application Data record of
   a segment, control records included (`TlsConstrictor.cpp:238-247`), while README.md:34
   promises Application Data constriction.
2. `live_blocking`: `read_timeout_ms = 0` and a handle that could not be made nonblocking,
   which is only a warning, keep an idle capture in `pcap_next_ex`: neither
   `duration_sec` (config.example.ini:27) nor Ctrl+C ends it.
3. `live_flush`: the output is flushed by a destructor, so a full disk can drop packets
   that were counted, with exit code 0 (RELEASE_NOTES.md:13 promises a valid partial
   file).
4. `offline_empty`: an input without packets yields an empty output file, which is
   not the classic PCAP of README.md:3; live capture writes its header before the loop,
   the offline feed only with the first packet.

## Assumptions

* TLS streams: a byte inside a record never looks like a record header
  (`TlsConstrictor` is checked without this), a SYN carries no data, a stream ends, is
  shorter than the sequence space (`WellFormed`) and consists of records whose lengths
  `ReadTlsRecordHeader` accepts (`RecordLength`).
* QUIC connections: the non-empty IDs an end uses are not prefixes of each other, and a
  connection's two ends differ. `HeadersKept` and `OnlyAnnouncedShortened` speak of the default
  `require_dcid_match`; the permissive option matches nothing by intent.
* Hash tables behave as maps. Running out of memory is left out where it ends the process,
  since `Evaluate` is `noexcept`; that a record of the input does not fit in memory is an
  error of the feed (`ReadThrows`).
* Both callers hand the policy as many bytes as `captured_len` says
  (`NpcapCapture.cpp:278-282`, `OfflinePacketFeed.cpp:74-76`).
* Input and output of the offline feed are different files.
* The clock of `duration_sec` is monotonic (`steady_clock`), so it is a flag that rises
  once, and `duration_sec` is below 2^63 nanoseconds.
* A configuration text is split into lines, names and values as the loader's string
  functions do; the text that arrives is the text (a read error cuts it short unseen).

## What is not modelled

How the runtime check, the listing of interfaces and delay loading arrive at their
answers, which are calls into Windows and Npcap; `Startup` takes the answers as given.
What the decoder only copies out of a packet: addresses, ports, sequence numbers and
flags; which packets share them is chosen freely where it matters (`Pair`, `DirectionKey`).
The splitting of a configuration line at blanks, comments and letter case. Texts,
summaries, driver statistics, the counters by reason other than the constricted ones, time
stamps and byte order. Memory growth of the two maps, for which the code has no bound that
could be checked.
