----------------------------- MODULE OfflineFeed -----------------------------
(***************************************************************************)
(* The offline pipeline: RunOfflinePipeline (src/main.cpp), the loop of    *)
(* OfflinePacketFeed::Run (src/offline/OfflinePacketFeed.cpp), PcapReader  *)
(* (src/offline/PcapReader.cpp) and a PcapWriter on the output file.       *)
(*                                                                         *)
(* The input is a file of a known size whose bytes read as anything; it is *)
(* read once, front to back, so its fields are chosen when they are read.  *)
(* Of the policy's decision only the length matters here: some of the      *)
(* captured bytes, never more (LiveCapturePolicy, RecordSane).             *)
(***************************************************************************)
EXTENDS PcapWriter

CONSTANTS
    FileSize,   \* the sizes of input files
    Length      \* the lengths a record's header may state

ASSUME FeedAssumption == FileSize \subseteq Nat /\ Length \subseteq Nat

kClassicPcapGlobalHeaderSize == 24
kClassicPcapPacketHeaderSize == 16

VARIABLES
    pc,       \* where the program is
    reader,   \* PcapReader: file_size_, next_input_offset_,
              \* next_packet_index_ and has_error_
    record,   \* the record in hand, and the length decided for it
    file,     \* output_stream and the file behind it
    result    \* the OfflinePacketFeedResult

feedVars == <<pc, reader, record, file, result>>

Reader == [file_size : FileSize, next_input_offset : Nat,
           next_packet_index : Nat, has_error : BOOLEAN]
Record == [captured : Nat, output_len : Nat]
NoRecord == [captured |-> 0, output_len |-> 0]
FeedResult == [packets : Nat, bytes_input : Nat, bytes_output : Nat,
               bytes_saved : Int, error : BOOLEAN]

Remaining == reader.file_size - reader.next_input_offset
RemainingData == Remaining - kClassicPcapPacketHeaderSize

FeedInit ==
    /\ pc = "open_input"
    /\ reader \in [file_size : FileSize, next_input_offset : {0},
                   next_packet_index : {0}, has_error : {FALSE}]
    /\ record = NoRecord
    /\ file = NewFile
    /\ result = [packets |-> 0, bytes_input |-> 0, bytes_output |-> 0,
                 bytes_saved |-> 0, error |-> FALSE]

GoTo(from, to) == pc = from /\ pc' = to

\* Returns an error.
Fail(from, to) ==
    /\ GoTo(from, to)
    /\ result' = [result EXCEPT !.error = TRUE]

-----------------------------------------------------------------------------
(* Opening.                                                                *)

\* The global header is read and found good: a magic number, version 2.4, a
\* snaplen and Ethernet.
OpenInput ==
    /\ GoTo("open_input", "open_output")
    /\ reader.file_size >= kClassicPcapGlobalHeaderSize
    /\ reader' = [reader EXCEPT
                    !.next_input_offset = kClassicPcapGlobalHeaderSize]
    /\ UNCHANGED <<record, file, result>>

\* No file, too short, or one of the fields is wrong.
OpenInputFails ==
    /\ Fail("open_input", "done")
    /\ reader' = [reader EXCEPT !.has_error = TRUE]
    /\ UNCHANGED <<record, file>>

\* The file is created, or truncated; nothing is written to it yet.
OpenOutput ==
    /\ \/ GoTo("open_output", "read") /\ UNCHANGED result
       \/ Fail("open_output", "done")
    /\ UNCHANGED <<reader, record, file>>

-----------------------------------------------------------------------------
(* Reading: the ways ReadNext returns.                                     *)

ReadEnd ==
    /\ GoTo("read", "finish")
    /\ Remaining = 0
    /\ UNCHANGED <<reader, record, file, result>>

\* ReadNext sets an error and returns nothing.
ReadError ==
    /\ GoTo("read", "finish")
    /\ reader' = [reader EXCEPT !.has_error = TRUE]
    /\ UNCHANGED <<record, file, result>>

\* The file ends inside a record header.
ReadTail == 0 < Remaining /\ RemainingData < 0 /\ ReadError

ReadBadLengths(captured, original) ==
    RemainingData >= 0 /\ captured > original /\ ReadError

\* The file ends inside a record's data.
ReadCutRecord(captured, original) ==
    /\ RemainingData >= 0
    /\ captured <= original /\ captured > RemainingData
    /\ ReadError

\* A read yields less than the size read at Open promised.
ReadShort == RemainingData >= 0 /\ ReadError

\* The record's data does not fit in memory: what is thrown ends the loop and Run.
ReadThrows(captured, original) ==
    /\ Fail("read", "close")
    /\ RemainingData >= 0
    /\ captured <= original
    /\ 0 < captured /\ captured <= RemainingData
    /\ UNCHANGED <<reader, record, file>>

\* Mutant: what is left of the file is not compared with the record.
ReadRecordUnchecked(captured, original) ==
    /\ GoTo("read", "write")
    /\ RemainingData >= 0
    /\ captured <= original
    /\ reader' = [reader EXCEPT
          !.next_input_offset = @ + kClassicPcapPacketHeaderSize + captured,
          !.next_packet_index = @ + 1]
    /\ \E len \in 0 .. captured :
          record' = [captured |-> captured, output_len |-> len]
    /\ UNCHANGED <<file, result>>

\* A whole record, of which the policy keeps output_len bytes.
ReadRecord(captured, original) ==
    /\ GoTo("read", "write")
    /\ RemainingData >= 0
    /\ captured <= original
    /\ captured <= RemainingData
    /\ reader' = [reader EXCEPT
          !.next_input_offset = @ + kClassicPcapPacketHeaderSize + captured,
          !.next_packet_index = @ + 1]
    /\ \E len \in 0 .. captured :
          record' = [captured |-> captured, output_len |-> len]
    /\ UNCHANGED <<file, result>>

-----------------------------------------------------------------------------
(* Writing.                                                                *)

\* Mutant: a failed write is not noticed.
WriteUnchecked(from, to) ==
    /\ file' \in Puts(file)
    /\ GoTo(from, to)
    /\ UNCHANGED <<reader, record, result>>

\* A write that throws ends the loop and Run.
Write(from, to) ==
    /\ file' \in Puts(file)
    /\ \/ file'.good /\ GoTo(from, to) /\ UNCHANGED result
       \/ ~file'.good /\ Fail(from, "close")
    /\ UNCHANGED <<reader, record>>

\* WritePacket puts the global header before the first record.
WriteGlobalHeader == ~HeaderWritten(file) /\ Write("write", "write")
WriteRecord == HeaderWritten(file) /\ Write("write", "data")
WriteData == Write("data", "count")

CountPacket ==
    /\ GoTo("count", "read")
    /\ result' = [result EXCEPT !.packets = @ + 1,
                                !.bytes_input = @ + record.captured,
                                !.bytes_output = @ + record.output_len]
    /\ UNCHANGED <<reader, record, file>>

\* Mutant: an error of the reader looks like the end of the file.
FinishBlind ==
    /\ GoTo("finish", "close")
    /\ result' = [result EXCEPT
                    !.bytes_saved = result.bytes_input - result.bytes_output]
    /\ UNCHANGED <<reader, record, file>>

\* After the loop: the reader's error, or the bytes saved.
Finish ==
    /\ GoTo("finish", "close")
    /\ result' = IF reader.has_error
                 THEN [result EXCEPT !.error = TRUE]
                 ELSE [result EXCEPT !.bytes_saved =
                          result.bytes_input - result.bytes_output]
    /\ UNCHANGED <<reader, record, file>>

\* Run returns: the stream's destructor flushes and closes the file.
Close ==
    /\ GoTo("close", "done")
    /\ file' = Closed(file)
    /\ UNCHANGED <<reader, record, result>>

FeedNext ==
    \/ OpenInput \/ OpenInputFails \/ OpenOutput
    \/ ReadEnd \/ ReadTail \/ ReadShort
    \/ \E captured, original \in Length :
          \/ ReadBadLengths(captured, original)
          \/ ReadCutRecord(captured, original)
          \/ ReadThrows(captured, original)
          \/ ReadRecord(captured, original)
    \/ WriteGlobalHeader \/ WriteRecord \/ WriteData \/ CountPacket
    \/ Finish \/ Close

FeedSpec == FeedInit /\ [][FeedNext]_feedVars

\* What RunOfflinePipeline returns.
ExitCode == IF result.error THEN 1 ELSE 0

-----------------------------------------------------------------------------
(* Properties.                                                             *)

\* The variables have their types, and the reader never stands behind the end
\* of its file: the branch at line 222 of PcapReader.cpp is never taken.
FeedTypeOK ==
    /\ pc \in {"open_input", "open_output", "read", "write", "data", "count",
               "finish", "close", "done"}
    /\ reader \in Reader
    /\ reader.next_input_offset <= reader.file_size
    /\ record \in Record
    /\ file \in File
    /\ result \in FeedResult

\* A feed that reports success has accounted for every byte of its input: the
\* headers, and the bytes of the packets it counted; none is left over, none
\* was counted twice (OfflinePacketFeed.cpp:71-102, PcapReader.cpp:213-306).
InputAccounted ==
    pc = "done" /\ ExitCode = 0 =>
        /\ reader.file_size =
             kClassicPcapGlobalHeaderSize + result.bytes_input
               + kClassicPcapPacketHeaderSize * result.packets
        /\ result.bytes_saved = result.bytes_input - result.bytes_output
        /\ result.bytes_saved >= 0

\* The output stream was given the records of exactly the packets counted, behind
\* a global header; a bad record in the middle of the input costs none of those
\* before it, and only a failed write leaves a record unfinished (lines 71-98).
PrefixWritten ==
    /\ CompleteRecords(file.put) =
         result.packets + (IF pc = "count" THEN 1 ELSE 0)
    /\ pc \in {"read", "finish"} => result.packets = reader.next_packet_index
    /\ pc = "done" /\ file.good => ~EndsInRecord(file.put)

\* README.md:3: "it writes classic PCAP output": a successful feed leaves at
\* least a global header in its output.
OutputIsPcap == pc = "done" /\ ExitCode = 0 => HeaderWritten(file)

\* The feed keeps what RecordingContract promises of its output, however the
\* input ends and wherever a write fails: each packet is counted once, behind
\* its record, nothing follows a failed write, and exit code 0 means that none
\* failed (lines 71-103, PcapWriter.cpp:29-70).
Contract == INSTANCE RecordingContract WITH
    given <- file.put, kept <- file.disk, broken <- ~file.good,
    counted <- result.packets,
    outcome <- IF pc # "done" THEN "running"
               ELSE IF ExitCode = 0 THEN "success" ELSE "failure"
ImplementsContract == Contract!RecordingSpec
=============================================================================
