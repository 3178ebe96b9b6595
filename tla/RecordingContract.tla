------------------------- MODULE RecordingContract -------------------------
(***************************************************************************)
(* What both programs that write a PCAP promise of their output, whatever  *)
(* they read and however they end: a global header and then the packets,   *)
(* each as a record header and its bytes, each counted once and only when  *)
(* all of it was written.  After a failed write nothing more is written.   *)
(* Success means that nothing failed and no record is left unfinished.     *)
(***************************************************************************)
EXTENDS Integers

CONSTANT DiskSpace      \* pieces the disk can hold

VARIABLES
    given,      \* pieces written: the global header, then two per packet
    kept,       \* how many of them are on the disk
    broken,     \* a write has failed
    counted,    \* the packets reported as written
    outcome     \* "running", and at the end "success" or "failure"

contractVars == <<given, kept, broken, counted, outcome>>

Running == outcome = "running" /\ ~broken

\* Every packet written is counted, and none is unfinished.
AllCounted == given = 1 + 2 * counted \/ (given = 0 /\ counted = 0)
RecordComplete == given = 3 + 2 * counted

RecordingInit ==
    /\ given = 0 /\ kept = 0
    /\ broken = FALSE
    /\ counted = 0
    /\ outcome = "running"

\* A piece stays in memory, or takes all that waits there to the disk.
Gives ==
    /\ Running /\ ~RecordComplete
    /\ given' = given + 1
    /\ \/ kept' = kept
       \/ kept' = given + 1 /\ given < DiskSpace
    /\ UNCHANGED <<broken, counted, outcome>>

Breaks ==
    /\ Running /\ ~RecordComplete
    /\ given >= DiskSpace
    /\ kept' = DiskSpace
    /\ broken' = TRUE
    /\ UNCHANGED <<given, counted, outcome>>

Counts ==
    /\ Running /\ RecordComplete
    /\ counted' = counted + 1
    /\ UNCHANGED <<given, kept, broken, outcome>>

\* The end takes to the disk what is still in memory, as far as it fits.
Ends ==
    /\ outcome = "running"
    /\ broken \/ AllCounted
    /\ outcome' \in IF broken THEN {"failure"} ELSE {"success", "failure"}
    /\ kept' = IF given <= DiskSpace THEN given ELSE DiskSpace
    /\ UNCHANGED <<given, broken, counted>>

RecordingNext == Gives \/ Breaks \/ Counts \/ Ends

RecordingSpec == RecordingInit /\ [][RecordingNext]_contractVars
=============================================================================
