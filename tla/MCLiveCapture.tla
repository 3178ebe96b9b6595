---------------------------- MODULE MCLiveCapture ----------------------------
(***************************************************************************)
(* LiveCapture for TLC: both limits, each of them and none, and a handle   *)
(* whose reads never time out.                                             *)
(***************************************************************************)
EXTENDS LiveCapture

Options(packets, duration, timeout) ==
    [max_packets |-> packets, duration |-> duration, timeout |-> timeout]
MCConfig == {Options(0, FALSE, TRUE), Options(2, FALSE, TRUE),
             Options(0, TRUE, TRUE), Options(2, TRUE, TRUE)}
MCNoTimeout == {Options(2, TRUE, FALSE)}
=============================================================================
