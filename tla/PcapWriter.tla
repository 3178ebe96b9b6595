----------------------------- MODULE PcapWriter -----------------------------
(***************************************************************************)
(* PcapWriter (src/writer/PcapWriter.cpp) on a std::ofstream.  The file is *)
(* counted in chunks: the global header is the first, and each packet adds *)
(* its record header and its bytes.  The stream holds chunks back and      *)
(* flushes them at writes the program does not choose; a flush fails if    *)
(* the disk cannot take all of it.  These operators are used by the        *)
(* programs that own a writer.                                             *)
(***************************************************************************)
EXTENDS Integers

CONSTANT DiskSpace      \* chunks the disk can hold

ASSUME DiskSpaceAssumption == DiskSpace \in Nat

\* A stream and its file: chunks put into the stream, chunks on the disk, and
\* whether the stream is good.  global_header_written_ is put > 0.
File == [put : Nat, disk : 0 .. DiskSpace, good : BOOLEAN]
NewFile == [put |-> 0, disk |-> 0, good |-> TRUE]

OnDisk(n) == IF n <= DiskSpace THEN n ELSE DiskSpace

\* What one write of a chunk may do: stay in the buffer, or flush it.
Puts(f) ==
    IF ~f.good THEN {f}
    ELSE {[f EXCEPT !.put = @ + 1],
          IF f.put < DiskSpace
          THEN [f EXCEPT !.put = @ + 1, !.disk = f.put + 1]
          ELSE [f EXCEPT !.disk = DiskSpace, !.good = FALSE]}

\* The stream's destructor flushes what is left; nobody sees whether it could.
Closed(f) == [f EXCEPT !.disk = OnDisk(f.put)]

HeaderWritten(f) == f.put > 0

\* The records the first n chunks of a file hold completely, and whether the
\* last of them is cut short.
CompleteRecords(n) == IF n = 0 THEN 0 ELSE (n - 1) \div 2
EndsInRecord(n) == n > 0 /\ (n - 1) % 2 = 1
=============================================================================
