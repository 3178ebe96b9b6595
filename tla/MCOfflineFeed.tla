---------------------------- MODULE MCOfflineFeed ----------------------------
(***************************************************************************)
(* OfflineFeed with inputs that end at, before and behind the boundaries   *)
(* of a global header and of up to three records.                          *)
(***************************************************************************)
EXTENDS OfflineFeed

MCFileSize == {0, 23, 24, 25, 39, 40, 42, 57, 58, 60, 74, 76}
MCLength == 0 .. 2 \cup {30}
=============================================================================
