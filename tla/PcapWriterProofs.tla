-------------------------- MODULE PcapWriterProofs --------------------------
(***************************************************************************)
(* What a write and the closing of the stream do to the file, for the      *)
(* programs that own a writer.                                             *)
(***************************************************************************)
EXTENDS PcapWriter, TLAPS

\* A write leaves the chunk in the stream, or flushes it with all before it, or
\* leaves the error and a full disk.
LEMMA PutsOne ==
    ASSUME NEW f \in File, NEW g \in Puts(f), f.good
    PROVE  /\ g \in File
           /\ g.good => /\ g.put = f.put + 1
                        /\ \/ g.disk = f.disk
                           \/ g.disk = f.put + 1 /\ f.put < DiskSpace
           /\ ~g.good => /\ g.put = f.put
                         /\ g.disk = DiskSpace /\ f.put >= DiskSpace
<1>1. f.put \in Nat /\ f.disk \in 0 .. DiskSpace /\ f.good = TRUE
  BY DEF File
<1>2. CASE g = [f EXCEPT !.put = @ + 1]
  BY <1>1, <1>2 DEF File
<1>3. CASE f.put < DiskSpace /\ g = [f EXCEPT !.put = @ + 1, !.disk = f.put + 1]
  <2>1. g = [put |-> f.put + 1, disk |-> f.put + 1, good |-> TRUE]
    BY <1>1, <1>3 DEF File
  <2>2. f.put + 1 \in 0 .. DiskSpace /\ f.put + 1 \in Nat
    BY <1>1, <1>3, DiskSpaceAssumption
  <2> QED  BY <1>1, <1>3, <2>1, <2>2 DEF File
<1>4. CASE f.put >= DiskSpace /\ g = [f EXCEPT !.disk = DiskSpace, !.good = FALSE]
  <2>1. g = [put |-> f.put, disk |-> DiskSpace, good |-> FALSE]
    BY <1>1, <1>4 DEF File
  <2>2. DiskSpace \in 0 .. DiskSpace
    BY DiskSpaceAssumption
  <2> QED  BY <1>1, <1>4, <2>1, <2>2 DEF File
<1>5. f.put < DiskSpace \/ f.put >= DiskSpace
  BY <1>1, DiskSpaceAssumption
<1> QED  BY <1>1, <1>2, <1>3, <1>4, <1>5 DEF Puts

\* The destructor leaves what was put.
LEMMA ClosedKeeps ==
    ASSUME NEW f \in File
    PROVE  /\ Closed(f) \in File
           /\ Closed(f).put = f.put /\ Closed(f).good = f.good
           /\ Closed(f).disk = OnDisk(f.put)
<1>1. f.put \in Nat
  BY DEF File
<1>2. OnDisk(f.put) \in 0 .. DiskSpace
  BY <1>1, DiskSpaceAssumption DEF OnDisk
<1> QED  BY <1>2 DEF File, Closed

\* A file of n packets, one of them begun, or one more complete.
LEMMA RecordCount ==
    ASSUME NEW n \in Nat
    PROVE  /\ CompleteRecords(2 * n + 1) = n
           /\ ~EndsInRecord(2 * n + 1)
           /\ CompleteRecords(2 * n + 2) = n
           /\ CompleteRecords(2 * n + 3) = n + 1
           /\ CompleteRecords(0) = 0
<1>1. (2 * n) \div 2 = n /\ (2 * n + 1) \div 2 = n
  OBVIOUS
<1>2. (2 * n + 2) \div 2 = n + 1 /\ (2 * n) % 2 = 0
  OBVIOUS
<1> QED  BY <1>1, <1>2 DEF CompleteRecords, EndsInRecord
=============================================================================
