-------------------------- MODULE OfflineFeedProofs --------------------------
(***************************************************************************)
(* The offline pipeline accounts for its input and writes what it counts,  *)
(* for every input file, disk and length.  The invariant ties the reader's *)
(* offset, the counters and the chunks put to each other at every step of  *)
(* the loop; neither property is inductive without it.                     *)
(***************************************************************************)
EXTENDS OfflineFeed, PcapWriterProofs

\* The chunks of n packets: none if there is no packet and no header yet.
ChunksOf(n, put) == put = 1 + 2 * n \/ (n = 0 /\ put = 0)

\* The bytes the counters stand for.
BytesCounted == 24 + result.bytes_input + 16 * result.packets

FeedInv ==
    /\ FeedTypeOK
    /\ record.output_len <= record.captured
    /\ result.bytes_output <= result.bytes_input
    /\ pc \in {"open_input", "open_output"} =>
         /\ result.packets = 0 /\ result.bytes_input = 0
         /\ file = NewFile
         /\ reader.next_packet_index = 0
         /\ pc = "open_output" => reader.next_input_offset = 24
    /\ pc \in {"open_input", "open_output", "read", "write", "data", "count"} =>
         ~result.error /\ file.good /\ ~reader.has_error
    /\ pc \in {"read", "finish"} =>
         /\ ~result.error /\ file.good
         /\ reader.next_packet_index = result.packets
         /\ reader.next_input_offset = BytesCounted
         /\ ChunksOf(result.packets, file.put)
    /\ pc \in {"write", "data", "count"} =>
         /\ reader.next_packet_index = result.packets + 1
         /\ reader.next_input_offset = BytesCounted + 16 + record.captured
    /\ pc = "write" => ChunksOf(result.packets, file.put)
    /\ pc = "data" => file.put = 2 + 2 * result.packets
    /\ pc = "count" => file.put = 3 + 2 * result.packets
    /\ pc = "finish" =>
         reader.has_error \/ reader.next_input_offset = reader.file_size
    /\ pc \in {"close", "done"} =>
         /\ ~result.error => /\ file.good
                             /\ reader.file_size = BytesCounted
                             /\ result.bytes_saved =
                                  result.bytes_input - result.bytes_output
         /\ \/ ChunksOf(result.packets, file.put)
            \/ ~file.good /\ file.put = 2 + 2 * result.packets

-----------------------------------------------------------------------------
(* What the steps do to the records.                                       *)

\* The reader moves past a record of n bytes.
LEMMA ReaderMoves ==
    ASSUME NEW r \in Reader, NEW s, NEW n \in Nat,
           s = [r EXCEPT !.next_input_offset =
                            @ + kClassicPcapPacketHeaderSize + n,
                         !.next_packet_index = @ + 1]
    PROVE  /\ s \in Reader
           /\ s.file_size = r.file_size /\ s.has_error = r.has_error
           /\ s.next_input_offset = r.next_input_offset + 16 + n
           /\ s.next_packet_index = r.next_packet_index + 1
<1> USE DEF kClassicPcapPacketHeaderSize
<1>1. /\ r.file_size \in FileSize /\ r.next_input_offset \in Nat
      /\ r.next_packet_index \in Nat /\ r.has_error \in BOOLEAN
  BY DEF Reader
<1>2. s = [file_size |-> r.file_size,
           next_input_offset |-> r.next_input_offset + 16 + n,
           next_packet_index |-> r.next_packet_index + 1,
           has_error |-> r.has_error]
  BY DEF Reader
<1>3. r.next_input_offset + 16 + n \in Nat /\ r.next_packet_index + 1 \in Nat
  BY <1>1
<1> QED  BY <1>1, <1>2, <1>3 DEF Reader

LEMMA ResultFails ==
    ASSUME NEW r \in FeedResult, NEW s, s = [r EXCEPT !.error = TRUE]
    PROVE  /\ s \in FeedResult /\ s.error
           /\ s.packets = r.packets /\ s.bytes_input = r.bytes_input
           /\ s.bytes_output = r.bytes_output
BY DEF FeedResult

-----------------------------------------------------------------------------
(* The invariant.                                                          *)

LEMMA FeedInitInv == FeedInit => FeedInv
<1> SUFFICES ASSUME FeedInit  PROVE FeedInv
  OBVIOUS
<1>1. PICK size \in FileSize :
        reader = [file_size |-> size, next_input_offset |-> 0,
                  next_packet_index |-> 0, has_error |-> FALSE]
  BY DEF FeedInit
<1>2. /\ reader \in Reader /\ reader.file_size = size
      /\ reader.next_input_offset = 0
      /\ reader.next_packet_index = 0 /\ ~reader.has_error
  BY <1>1 DEF Reader
<1>3. record \in Record /\ record.output_len = 0 /\ record.captured = 0
  BY DEF FeedInit, NoRecord, Record
<1>4. file \in File /\ file = NewFile /\ file.good
  BY DiskSpaceAssumption DEF FeedInit, NewFile, File
<1>5. /\ result \in FeedResult /\ result.packets = 0 /\ ~result.error
      /\ result.bytes_input = 0 /\ result.bytes_output = 0
  BY DEF FeedInit, FeedResult
<1>6. pc = "open_input" /\ size \in Nat
  BY FeedAssumption DEF FeedInit
<1> QED  BY <1>2, <1>3, <1>4, <1>5, <1>6 DEF FeedInv, FeedTypeOK

LEMMA FeedNextInv == FeedInv /\ [FeedNext]_feedVars => FeedInv'
<1> SUFFICES ASSUME FeedInv, [FeedNext]_feedVars  PROVE FeedInv'
  OBVIOUS
<1>1. /\ reader \in Reader /\ record \in Record /\ file \in File
      /\ result \in FeedResult
      /\ reader.next_input_offset <= reader.file_size
      /\ record.output_len <= record.captured
      /\ result.bytes_output <= result.bytes_input
  BY DEF FeedInv, FeedTypeOK
<1>2. /\ reader.file_size \in Nat /\ reader.next_input_offset \in Nat
      /\ reader.next_packet_index \in Nat
      /\ record.captured \in Nat /\ record.output_len \in Nat
      /\ result.packets \in Nat /\ result.bytes_input \in Nat
      /\ result.bytes_output \in Nat /\ file.put \in Nat
  BY <1>1, FeedAssumption DEF Reader, Record, FeedResult, File
<1>3. CASE OpenInput
  <2>1. /\ pc = "open_input" /\ pc' = "open_output"
        /\ UNCHANGED <<record, file, result>>
        /\ 24 <= reader.file_size
    BY <1>3 DEF OpenInput, GoTo, kClassicPcapGlobalHeaderSize
  <2>2. /\ reader' \in Reader /\ reader'.next_input_offset = 24
        /\ reader'.file_size = reader.file_size
        /\ reader'.next_packet_index = reader.next_packet_index
        /\ reader'.has_error = reader.has_error
    BY <1>1, <1>3 DEF OpenInput, Reader, kClassicPcapGlobalHeaderSize
  <2> QED  BY <1>1, <1>2, <2>1, <2>2 DEF FeedInv, FeedTypeOK
<1>4. CASE OpenInputFails
  <2>1. /\ pc = "open_input" /\ pc' = "done" /\ UNCHANGED <<record, file>>
        /\ result' = [result EXCEPT !.error = TRUE]
    BY <1>4 DEF OpenInputFails, Fail, GoTo
  <2>2. /\ reader' \in Reader /\ reader'.file_size = reader.file_size
        /\ reader'.next_input_offset = reader.next_input_offset
    BY <1>1, <1>4 DEF OpenInputFails, Reader
  <2>3. result.packets = 0 /\ file.put = 0
    BY <2>1 DEF FeedInv, NewFile
  <2> QED
    BY <1>1, <1>2, <2>1, <2>2, <2>3, ResultFails
       DEF FeedInv, FeedTypeOK, ChunksOf
<1>5. CASE OpenOutput
  <2>1. /\ pc = "open_output" /\ UNCHANGED <<reader, record, file>>
        /\ \/ pc' = "read" /\ UNCHANGED result
           \/ pc' = "done" /\ result' = [result EXCEPT !.error = TRUE]
    BY <1>5 DEF OpenOutput, Fail, GoTo
  <2>2. /\ result.packets = 0 /\ result.bytes_input = 0
        /\ file.put = 0 /\ file.good /\ reader.next_packet_index = 0
        /\ reader.next_input_offset = 24
        /\ ~result.error /\ ~reader.has_error
    BY <2>1 DEF FeedInv, NewFile
  <2>3. CASE pc' = "read" /\ UNCHANGED result
    BY <1>1, <1>2, <2>1, <2>2, <2>3
       DEF FeedInv, FeedTypeOK, ChunksOf, BytesCounted
  <2>4. CASE pc' = "done" /\ result' = [result EXCEPT !.error = TRUE]
    BY <1>1, <1>2, <2>1, <2>2, <2>4, ResultFails
       DEF FeedInv, FeedTypeOK, ChunksOf
  <2> QED  BY <2>1, <2>3, <2>4
<1>6. CASE ReadEnd
  <2>1. /\ pc = "read" /\ pc' = "finish" /\ Remaining = 0
        /\ UNCHANGED <<reader, record, file, result>>
    BY <1>6 DEF ReadEnd, GoTo
  <2>2. reader.next_input_offset = reader.file_size
    BY <1>2, <2>1 DEF Remaining
  <2> QED  BY <1>1, <2>1, <2>2 DEF FeedInv, FeedTypeOK, ChunksOf, BytesCounted
<1>7. CASE ReadError
  <2>1. /\ pc = "read" /\ pc' = "finish" /\ UNCHANGED <<record, file, result>>
    BY <1>7 DEF ReadError, GoTo
  <2>2. /\ reader' \in Reader /\ reader'.has_error
        /\ reader'.file_size = reader.file_size
        /\ reader'.next_input_offset = reader.next_input_offset
        /\ reader'.next_packet_index = reader.next_packet_index
    BY <1>1, <1>7 DEF ReadError, Reader
  <2> QED  BY <1>1, <2>1, <2>2 DEF FeedInv, FeedTypeOK, ChunksOf, BytesCounted
<1>8. ASSUME NEW captured \in Length, NEW original \in Length,
             ReadRecord(captured, original)
      PROVE  FeedInv'
  <2>1. PICK len \in 0 .. captured :
          record' = [captured |-> captured, output_len |-> len]
    BY <1>8 DEF ReadRecord
  <2>2. captured \in Nat
    BY FeedAssumption
  <2>3. /\ reader' \in Reader
        /\ reader'.file_size = reader.file_size
        /\ reader'.next_input_offset = reader.next_input_offset + 16 + captured
        /\ reader'.next_packet_index = reader.next_packet_index + 1
        /\ reader'.has_error = reader.has_error
    BY <1>1, <1>8, <2>2, ReaderMoves DEF ReadRecord
  <2>4. reader'.next_input_offset <= reader'.file_size
    BY <1>2, <1>8, <2>2, <2>3
       DEF ReadRecord, Remaining, RemainingData, kClassicPcapPacketHeaderSize
  <2>5. /\ record' \in Record /\ record'.captured = captured
        /\ record'.output_len <= record'.captured
    BY <2>1, <2>2 DEF Record
  <2>6. pc = "read" /\ pc' = "write" /\ UNCHANGED <<file, result>>
    BY <1>8 DEF ReadRecord, GoTo
  <2>7. /\ reader.next_packet_index = result.packets
        /\ reader.next_input_offset = BytesCounted
        /\ ChunksOf(result.packets, file.put)
        /\ ~result.error /\ file.good /\ ~reader.has_error
    BY <2>6 DEF FeedInv
  <2>8. /\ ChunksOf(result.packets, file.put)'
        /\ reader'.next_input_offset = BytesCounted' + 16 + record'.captured
    BY <2>3, <2>5, <2>6, <2>7 DEF ChunksOf, BytesCounted
  <2> QED
    BY <1>1, <1>2, <2>2, <2>3, <2>4, <2>5, <2>6, <2>7, <2>8
       DEF FeedInv, FeedTypeOK
<1>9. ASSUME NEW from \in {"write", "data"},
             NEW to \in {"write", "data", "count"}, Write(from, to)
      PROVE  /\ pc = from /\ file' \in File /\ UNCHANGED <<reader, record>>
             /\ \/ /\ pc' = to /\ UNCHANGED result
                   /\ file'.good /\ file'.put = file.put + 1
                \/ /\ pc' = "close" /\ ~file'.good /\ file'.put = file.put
                   /\ result' \in FeedResult /\ result'.error
                   /\ result'.packets = result.packets
                   /\ result'.bytes_input = result.bytes_input
                   /\ result'.bytes_output = result.bytes_output
  <2>1. pc = from /\ UNCHANGED <<reader, record>> /\ file' \in Puts(file)
    BY <1>9 DEF Write, Fail, GoTo
  <2>2. file.good
    BY <2>1 DEF FeedInv
  <2>3. /\ file' \in File
        /\ file'.good => file'.put = file.put + 1
        /\ ~file'.good => file'.put = file.put
    BY <1>1, <2>1, <2>2, PutsOne
  <2>4. CASE file'.good /\ GoTo(from, to) /\ UNCHANGED result
    BY <2>1, <2>3, <2>4 DEF GoTo
  <2>5. CASE ~file'.good /\ Fail(from, "close")
    BY <1>1, <2>1, <2>3, <2>5, ResultFails DEF Fail, GoTo
  <2> QED  BY <1>9, <2>4, <2>5 DEF Write
<1>10. CASE WriteGlobalHeader
  <2>1. file.put = 0 /\ Write("write", "write")
    BY <1>2, <1>10 DEF WriteGlobalHeader, HeaderWritten
  <2>2. pc = "write"
    BY <1>9, <2>1
  <2>3. result.packets = 0
    BY <1>2, <2>1, <2>2 DEF FeedInv, ChunksOf
  <2> QED
    BY <1>1, <1>2, <1>9, <2>1, <2>2, <2>3
       DEF FeedInv, FeedTypeOK, ChunksOf, BytesCounted
<1>11. CASE WriteRecord
  <2>1. file.put > 0 /\ Write("write", "data")
    BY <1>2, <1>11 DEF WriteRecord, HeaderWritten
  <2>2. pc = "write"
    BY <1>9, <2>1
  <2>3. file.put = 1 + 2 * result.packets
    BY <1>2, <2>1, <2>2 DEF FeedInv, ChunksOf
  <2> QED
    BY <1>1, <1>2, <1>9, <2>1, <2>2, <2>3
       DEF FeedInv, FeedTypeOK, ChunksOf, BytesCounted
<1>12. CASE WriteData
  <2>1. Write("data", "count")
    BY <1>12 DEF WriteData
  <2>2. pc = "data"
    BY <1>9, <2>1
  <2>3. file.put = 2 + 2 * result.packets
    BY <2>2 DEF FeedInv
  <2> QED
    BY <1>1, <1>2, <1>9, <2>1, <2>2, <2>3
       DEF FeedInv, FeedTypeOK, ChunksOf, BytesCounted
<1>13. CASE CountPacket
  <2>1. pc = "count" /\ pc' = "read" /\ UNCHANGED <<reader, record, file>>
    BY <1>13 DEF CountPacket, GoTo
  <2>2. /\ result' \in FeedResult /\ result'.error = result.error
        /\ result'.packets = result.packets + 1
        /\ result'.bytes_input = result.bytes_input + record.captured
        /\ result'.bytes_output = result.bytes_output + record.output_len
    <3>1. result.bytes_saved \in Int /\ result.error \in BOOLEAN
      BY <1>1 DEF FeedResult
    <3>2. result' = [packets |-> result.packets + 1,
                     bytes_input |-> result.bytes_input + record.captured,
                     bytes_output |-> result.bytes_output + record.output_len,
                     bytes_saved |-> result.bytes_saved,
                     error |-> result.error]
      BY <1>1, <1>13 DEF CountPacket, FeedResult
    <3>3. /\ result.packets + 1 \in Nat
          /\ result.bytes_input + record.captured \in Nat
          /\ result.bytes_output + record.output_len \in Nat
      BY <1>2
    <3> QED  BY <3>1, <3>2, <3>3 DEF FeedResult
  <2>3. /\ file.put = 3 + 2 * result.packets
        /\ reader.next_packet_index = result.packets + 1
        /\ reader.next_input_offset = BytesCounted + 16 + record.captured
        /\ ~result.error /\ file.good /\ ~reader.has_error
    BY <2>1 DEF FeedInv
  <2>4. reader.next_input_offset = BytesCounted'
    BY <1>2, <2>2, <2>3 DEF BytesCounted
  <2>5. ChunksOf(result.packets, file.put)'
    BY <1>2, <2>1, <2>2, <2>3 DEF ChunksOf
  <2> QED
    BY <1>1, <1>2, <2>1, <2>2, <2>3, <2>4, <2>5 DEF FeedInv, FeedTypeOK
<1>14. CASE Finish
  <2>1. /\ pc = "finish" /\ pc' = "close" /\ UNCHANGED <<reader, record, file>>
    BY <1>14 DEF Finish, GoTo
  <2>2. /\ ~result.error /\ reader.next_input_offset = BytesCounted
        /\ ChunksOf(result.packets, file.put)
        /\ reader.has_error \/ reader.next_input_offset = reader.file_size
    BY <2>1 DEF FeedInv
  <2>3. CASE reader.has_error
    BY <1>1, <1>2, <1>14, <2>1, <2>2, <2>3, ResultFails
       DEF Finish, FeedInv, FeedTypeOK, ChunksOf
  <2>4. CASE ~reader.has_error
    <3>1. /\ result' \in FeedResult /\ result'.error = result.error
          /\ result'.packets = result.packets
          /\ result'.bytes_input = result.bytes_input
          /\ result'.bytes_output = result.bytes_output
          /\ result'.bytes_saved = result.bytes_input - result.bytes_output
      BY <1>1, <1>2, <1>14, <2>4 DEF Finish, FeedResult
    <3> QED
      BY <1>1, <1>2, <2>1, <2>2, <2>4, <3>1
         DEF FeedInv, FeedTypeOK, ChunksOf, BytesCounted
  <2> QED  BY <2>3, <2>4
<1>15. CASE Close
  <2>1. /\ pc = "close" /\ pc' = "done" /\ UNCHANGED <<reader, record, result>>
        /\ file' = Closed(file)
    BY <1>15 DEF Close, GoTo
  <2>2. file' \in File /\ file'.put = file.put /\ file'.good = file.good
    BY <1>1, <2>1, ClosedKeeps
  <2> QED
    BY <1>1, <2>1, <2>2 DEF FeedInv, FeedTypeOK, ChunksOf, BytesCounted
<1>16. CASE UNCHANGED feedVars
  BY <1>16 DEF feedVars, FeedInv, FeedTypeOK, ChunksOf, BytesCounted
<1>17. CASE ReadTail \/ ReadShort
            \/ \E captured, original \in Length :
                  \/ ReadBadLengths(captured, original)
                  \/ ReadCutRecord(captured, original)
  BY <1>7, <1>17 DEF ReadTail, ReadShort, ReadBadLengths, ReadCutRecord
<1>18. ASSUME NEW captured \in Length, NEW original \in Length,
              ReadThrows(captured, original)
       PROVE  FeedInv'
  <2>1. /\ pc = "read" /\ pc' = "close" /\ UNCHANGED <<reader, record, file>>
        /\ result' = [result EXCEPT !.error = TRUE]
    BY <1>18 DEF ReadThrows, Fail, GoTo
  <2>2. ChunksOf(result.packets, file.put)
    BY <2>1 DEF FeedInv
  <2> QED
    BY <1>1, <1>2, <2>1, <2>2, ResultFails DEF FeedInv, FeedTypeOK, ChunksOf
<1> QED
  BY <1>3, <1>4, <1>5, <1>6, <1>8, <1>10, <1>11, <1>12, <1>13, <1>14, <1>15,
     <1>16, <1>17, <1>18 DEF FeedNext

LEMMA FeedInvHolds == FeedSpec => []FeedInv
BY FeedInitInv, FeedNextInv, PTL DEF FeedSpec

-----------------------------------------------------------------------------
(* The properties.                                                         *)

\* Type correctness, and the reader never stands behind the end of its file.
THEOREM FeedTypeCorrect == FeedSpec => []FeedTypeOK
<1>1. FeedInv => FeedTypeOK
  BY DEF FeedInv
<1> QED  BY <1>1, FeedInvHolds, PTL

\* A successful feed accounts for every byte of its input.
THEOREM InputIsAccounted == FeedSpec => []InputAccounted
<1>1. FeedInv => InputAccounted
  BY FeedAssumption DEF FeedInv, FeedTypeOK, FeedResult, BytesCounted,
     InputAccounted, ExitCode, kClassicPcapGlobalHeaderSize,
     kClassicPcapPacketHeaderSize
<1> QED  BY <1>1, FeedInvHolds, PTL

\* The output holds the records of exactly the packets counted.
THEOREM PrefixIsWritten == FeedSpec => []PrefixWritten
<1>1. ASSUME NEW n \in Nat, NEW put \in Nat
      PROVE  /\ ChunksOf(n, put) =>
                  CompleteRecords(put) = n /\ ~EndsInRecord(put)
             /\ put = 2 + 2 * n => CompleteRecords(put) = n
             /\ put = 3 + 2 * n => CompleteRecords(put) = n + 1
  BY DEF ChunksOf, CompleteRecords, EndsInRecord
<1>2. FeedInv => PrefixWritten
  <2> SUFFICES ASSUME FeedInv  PROVE PrefixWritten
    OBVIOUS
  <2>1. result.packets \in Nat /\ file.put \in Nat
    BY DEF FeedInv, FeedTypeOK, FeedResult, File
  <2>2. pc \in {"open_input", "open_output"} =>
          ChunksOf(result.packets, file.put)
    BY DEF FeedInv, ChunksOf, NewFile
  <2>3. CompleteRecords(file.put) =
          result.packets + (IF pc = "count" THEN 1 ELSE 0)
    BY <1>1, <2>1, <2>2 DEF FeedInv, FeedTypeOK
  <2> QED  BY <1>1, <2>1, <2>3 DEF FeedInv, PrefixWritten
<1> QED  BY <1>2, FeedInvHolds, PTL

-----------------------------------------------------------------------------
(* The refinement: every step is a step of RecordingContract, or stutters. *)

LEMMA FeedTypes ==
    ASSUME FeedInv
    PROVE  /\ file \in File /\ file.put \in Nat /\ file.good \in BOOLEAN
           /\ result \in FeedResult /\ result.packets \in Nat
           /\ result.error \in BOOLEAN
BY DEF FeedInv, FeedTypeOK, File, FeedResult

LEMMA WriteRefines ==
    ASSUME FeedInv, NEW from \in {"write", "data"}, NEW to, to # "done",
           Write(from, to)
    PROVE  Contract!Gives \/ Contract!Breaks
<1>1. /\ pc = from /\ pc # "done" /\ pc' # "done"
      /\ file' \in Puts(file)
      /\ \/ file'.good /\ UNCHANGED result
         \/ ~file'.good /\ result' = [result EXCEPT !.error = TRUE]
  BY DEF Write, Fail, GoTo
<1>2. file.good /\ file.put # 3 + 2 * result.packets
  BY <1>1, FeedTypes DEF FeedInv, ChunksOf
<1>3. /\ file'.good => /\ file'.put = file.put + 1
                       /\ \/ file'.disk = file.disk
                          \/ file'.disk = file.put + 1 /\ file.put < DiskSpace
      /\ ~file'.good => /\ file'.put = file.put
                        /\ file'.disk = DiskSpace /\ file.put >= DiskSpace
  BY <1>1, <1>2, FeedTypes, PutsOne
<1>4. CASE file'.good /\ UNCHANGED result
  BY <1>1, <1>2, <1>3, <1>4
     DEF Contract!Gives, Contract!Running, Contract!RecordComplete
<1>5. CASE ~file'.good /\ result' = [result EXCEPT !.error = TRUE]
  <2>1. result'.packets = result.packets
    BY <1>5, FeedTypes, ResultFails
  <2> QED
    BY <1>1, <1>2, <1>3, <1>5, <2>1
       DEF Contract!Breaks, Contract!Running, Contract!RecordComplete
<1> QED  BY <1>1, <1>4, <1>5

LEMMA CountRefines ==
    ASSUME FeedInv, CountPacket
    PROVE  Contract!Counts
<1>1. pc = "count" /\ pc' = "read" /\ UNCHANGED file
  BY DEF CountPacket, GoTo
<1>2. result'.packets = result.packets + 1
  BY FeedTypes DEF CountPacket, FeedResult
<1>3. file.good /\ file.put = 3 + 2 * result.packets
  BY <1>1 DEF FeedInv
<1> QED
  BY <1>1, <1>2, <1>3
     DEF Contract!Counts, Contract!Running, Contract!RecordComplete

\* The input or the output cannot be opened: nothing was written.
LEMMA OpenFailureRefines ==
    ASSUME FeedInv, NEW from \in {"open_input", "open_output"},
           Fail(from, "done"), UNCHANGED file
    PROVE  Contract!Ends
<1>1. /\ pc = from /\ pc' = "done"
      /\ result' = [result EXCEPT !.error = TRUE]
  BY DEF Fail, GoTo
<1>2. /\ file.put = 0 /\ file.disk = 0 /\ file.good = TRUE
      /\ result.packets = 0
  BY <1>1 DEF FeedInv, NewFile
<1>3. ExitCode' = 1 /\ result'.packets = result.packets
  BY <1>1, FeedTypes, ResultFails DEF ExitCode
<1> QED
  BY <1>1, <1>2, <1>3, DiskSpaceAssumption
     DEF Contract!Ends, Contract!AllCounted

\* The end of Run: what a successful feed wrote is counted.
LEMMA CloseRefines ==
    ASSUME FeedInv, Close
    PROVE  Contract!Ends
<1>1. /\ pc = "close" /\ pc' = "done" /\ UNCHANGED result
      /\ file' = Closed(file)
  BY DEF Close, GoTo
<1>2. /\ file'.put = file.put /\ file'.good = file.good
      /\ file'.disk = OnDisk(file.put)
  BY <1>1, FeedTypes, ClosedKeeps
<1>3. /\ ~result.error => file.good
      /\ ChunksOf(result.packets, file.put) \/ ~file.good
  BY <1>1 DEF FeedInv
<1>4. ~file.good => ExitCode' = 1
  BY <1>1, <1>3 DEF ExitCode
<1>5. ExitCode' = 0 \/ ExitCode' = 1
  BY DEF ExitCode
<1>6. ~file.good \/ Contract!AllCounted
  BY <1>3, FeedTypes DEF ChunksOf, Contract!AllCounted
<1> QED
  BY <1>1, <1>2, <1>4, <1>5, <1>6 DEF Contract!Ends, OnDisk

LEMMA InitRefines == FeedInit => Contract!RecordingInit
BY DEF FeedInit, NewFile, Contract!RecordingInit

LEMMA StepRefines ==
    FeedInv /\ [FeedNext]_feedVars
      => [Contract!RecordingNext]_(Contract!contractVars)
<1> SUFFICES ASSUME FeedInv, [FeedNext]_feedVars
             PROVE  \/ Contract!RecordingNext
                    \/ UNCHANGED Contract!contractVars
  OBVIOUS
\* What leaves the file and the count alone, before the end or after it.
<1>1. ASSUME UNCHANGED <<file, result.packets>>,
             \/ pc # "done" /\ pc' # "done"
             \/ pc' = pc /\ UNCHANGED result
      PROVE  UNCHANGED Contract!contractVars
  BY <1>1 DEF Contract!contractVars, ExitCode
<1>2. CASE \/ OpenInput \/ ReadEnd \/ ReadTail \/ ReadShort
           \/ \E captured, original \in Length :
                 \/ ReadBadLengths(captured, original)
                 \/ ReadCutRecord(captured, original)
                 \/ ReadRecord(captured, original)
  <2>1. pc # "done" /\ pc' # "done" /\ UNCHANGED <<file, result>>
    BY <1>2 DEF OpenInput, ReadEnd, ReadTail, ReadShort, ReadBadLengths,
       ReadCutRecord, ReadRecord, ReadError, GoTo
  <2> QED  BY <1>1, <2>1
<1>3. CASE OpenInputFails \/ OpenOutput
  <2>1. CASE GoTo("open_output", "read") /\ UNCHANGED <<file, result>>
    BY <1>1, <2>1 DEF GoTo
  <2>2. CASE /\ Fail("open_input", "done") \/ Fail("open_output", "done")
             /\ UNCHANGED file
    BY <2>2, OpenFailureRefines DEF Contract!RecordingNext
  <2> QED  BY <1>3, <2>1, <2>2 DEF OpenInputFails, OpenOutput
<1>4. CASE WriteGlobalHeader \/ WriteRecord \/ WriteData
  <2>1. Contract!Gives \/ Contract!Breaks
    BY <1>4, WriteRefines DEF WriteGlobalHeader, WriteRecord, WriteData
  <2> QED  BY <2>1 DEF Contract!RecordingNext
<1>5. CASE CountPacket
  BY <1>5, CountRefines DEF Contract!RecordingNext
<1>6. CASE Finish \/ \E captured, original \in Length :
                       ReadThrows(captured, original)
  <2>1. pc # "done" /\ pc' # "done" /\ UNCHANGED file
    BY <1>6 DEF Finish, ReadThrows, Fail, GoTo
  <2>2. result'.packets = result.packets
    BY <1>6, FeedTypes DEF Finish, ReadThrows, Fail, FeedResult
  <2> QED  BY <1>1, <2>1, <2>2
<1>7. CASE Close
  BY <1>7, CloseRefines DEF Contract!RecordingNext
<1>8. CASE UNCHANGED feedVars
  BY <1>1, <1>8 DEF feedVars
<1> QED  BY <1>2, <1>3, <1>4, <1>5, <1>6, <1>7, <1>8 DEF FeedNext

\* The feed keeps RecordingContract, for every input, disk and length: each
\* packet is counted once, behind its record, nothing follows a failed write,
\* and exit code 0 means that none failed (OfflinePacketFeed.cpp:71-103).
THEOREM FeedKeepsContract == FeedSpec => ImplementsContract
<1>1. FeedInv /\ [FeedNext]_feedVars
        => [Contract!RecordingNext]_(Contract!contractVars)
  BY StepRefines
<1> QED
  BY <1>1, InitRefines, FeedInvHolds, PTL
  DEF FeedSpec, ImplementsContract, Contract!RecordingSpec
=============================================================================
