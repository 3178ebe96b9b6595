-------------------------- MODULE LiveCaptureProofs --------------------------
(***************************************************************************)
(* The invariants of LiveCapture hold for every configuration, any number  *)
(* of packets and a disk of any size.                                      *)
(*                                                                         *)
(* The inductive invariant Sound ties each place in the program to what    *)
(* has been put into the file, to the reason and to the counters there.    *)
(***************************************************************************)
EXTENDS LiveCapture, PcapWriterProofs

Before == {"main", "open", "output", "global_header"}
Looping == {"loop", "limits", "clock", "next_ex", "record", "data", "count"}
Waiting == {"clock", "next_ex", "record", "data", "count"}
After == {"reason", "close", "done"}

\* The chunks of the packet in hand that have been put into the file.
InHand == IF pc = "data" THEN 1 ELSE IF pc = "count" THEN 2 ELSE 0

FileSound ==
    /\ pc \in Before => file = NewFile /\ result.packets_written = 0
    /\ pc \in Looping =>
         file.good /\ file.put = 2 * result.packets_written + 1 + InHand
    /\ pc \in After =>
         /\ ~result.error => file.good
         /\ \/ file.put = 2 * result.packets_written + 1
            \/ ~file.good /\ file.put = 2 * result.packets_written + 2
            \/ result.error /\ file.put = 0 /\ result.packets_written = 0

ReasonSound ==
    /\ pc \notin After => /\ result.termination_reason = "Stopped"
                          /\ result.receive_errors = 0
    /\ result.termination_reason = "Error" <=> result.error
    /\ pc = "reason" /\ result.termination_reason = "Stopped" => stop_requested
    /\ pc \in {"close", "done"} => result.termination_reason # "Stopped"
    /\ result.termination_reason = "Interrupted" => stop_requested
    /\ result.termination_reason = "MaxPacketsReached" =>
         /\ config.max_packets # 0
         /\ result.packets_written = config.max_packets
    /\ result.termination_reason = "DurationReached" =>
         config.duration /\ duration_over

LimitSound ==
    config.max_packets # 0 =>
        /\ result.packets_written <= config.max_packets
        /\ pc \in Waiting => result.packets_written < config.max_packets

StopSound ==
    /\ after_stop \in 0 .. 1
    /\ after_stop = 1 => stop_requested
    /\ pc \in Before \cup (Looping \ {"loop"}) => after_stop = 0

Sound == TypeOK /\ FileSound /\ ReasonSound /\ LimitSound /\ StopSound

-----------------------------------------------------------------------------
(* What the updates of a result leave behind.                              *)

LEMMA ResultStops ==
    ASSUME NEW r \in Result, NEW reason \in Reason, NEW s,
           s = [r EXCEPT !.termination_reason = reason]
    PROVE  /\ s \in Result /\ s.termination_reason = reason
           /\ s.error = r.error /\ s.packets_written = r.packets_written
           /\ s.receive_errors = r.receive_errors
BY DEF Result

LEMMA ResultFails ==
    ASSUME NEW r \in Result, NEW s,
           s = [r EXCEPT !.termination_reason = "Error", !.error = TRUE]
    PROVE  /\ s \in Result /\ s.termination_reason = "Error"
           /\ s.error = TRUE /\ s.packets_written = r.packets_written
BY DEF Result, Reason

LEMMA ResultReceiveError ==
    ASSUME NEW r \in Result, NEW s, r.receive_errors = 0,
           s = [r EXCEPT !.termination_reason = "Error", !.error = TRUE,
                         !.receive_errors = @ + 1]
    PROVE  /\ s \in Result /\ s.termination_reason = "Error"
           /\ s.error = TRUE /\ s.packets_written = r.packets_written
<1>1. s = [termination_reason |-> "Error", error |-> TRUE,
           packets_written |-> r.packets_written,
           receive_errors |-> r.receive_errors + 1]
  BY DEF Result
<1>2. r.receive_errors + 1 \in 0 .. 1 /\ r.packets_written \in Nat
  BY DEF Result
<1> QED  BY <1>1, <1>2 DEF Result, Reason

LEMMA ResultCounts ==
    ASSUME NEW r \in Result, NEW s, s = [r EXCEPT !.packets_written = @ + 1]
    PROVE  /\ s \in Result /\ s.packets_written = r.packets_written + 1
           /\ s.termination_reason = r.termination_reason
           /\ s.error = r.error /\ s.receive_errors = r.receive_errors
<1>1. s = [termination_reason |-> r.termination_reason, error |-> r.error,
           packets_written |-> r.packets_written + 1,
           receive_errors |-> r.receive_errors]
  BY DEF Result
<1>2. r.packets_written \in Nat /\ r.packets_written + 1 \in Nat
  BY DEF Result
<1> QED  BY <1>1, <1>2 DEF Result

-----------------------------------------------------------------------------
(* The invariant.                                                          *)

LEMMA SoundInit == Init => Sound
<1> SUFFICES ASSUME Init  PROVE Sound
  OBVIOUS
<1>1. /\ file = NewFile /\ file \in File
      /\ file.put = 0 /\ file.good
  BY DiskSpaceAssumption DEF Init, NewFile, File
<1>2. /\ result \in Result /\ result.termination_reason = "Stopped"
      /\ result.error = FALSE /\ result.packets_written = 0
      /\ result.receive_errors = 0
  BY DEF Init, Result, Reason
<1>3. config \in Config /\ config.max_packets \in Nat
  BY ConfigAssumption DEF Init, CaptureOptions
<1>4. /\ pc = "main" /\ stop_requested = FALSE /\ duration_over = FALSE
      /\ nonblocking = FALSE /\ after_stop = 0
  BY DEF Init
<1>5. TypeOK
  BY <1>1, <1>2, <1>3, <1>4 DEF TypeOK, ProgramCounter
<1>6. FileSound /\ ReasonSound
  BY <1>1, <1>2, <1>4
     DEF FileSound, ReasonSound, NewFile, Before, Looping, After
<1>7. LimitSound /\ StopSound
  BY <1>2, <1>3, <1>4 DEF LimitSound, StopSound, Before, Looping, Waiting
<1> QED  BY <1>5, <1>6, <1>7 DEF Sound

LEMMA SoundStep == Sound /\ [Next]_vars => Sound'
<1> SUFFICES ASSUME Sound, [Next]_vars  PROVE Sound'
  OBVIOUS
<1>1. /\ config \in Config /\ file \in File /\ result \in Result
      /\ pc \in ProgramCounter /\ after_stop \in 0 .. 1
      /\ stop_requested \in BOOLEAN /\ duration_over \in BOOLEAN
      /\ nonblocking \in BOOLEAN
  BY DEF Sound, TypeOK, StopSound
<1>2. /\ config.max_packets \in Nat /\ result.packets_written \in Nat
      /\ file.put \in Nat
      /\ result.termination_reason \in Reason /\ result.error \in BOOLEAN
  BY <1>1, ConfigAssumption DEF CaptureOptions, Result, File
<1> USE DEF GoTo, rest, Before, Looping, Waiting, After, InHand,
            ProgramCounter, TypeOK, FileSound, ReasonSound, LimitSound,
            StopSound, Sound
<1>3. CASE InstallHandlers
  <2>1. TypeOK'
    BY <1>1, <1>2, <1>3 DEF InstallHandlers
  <2>2. FileSound'
    BY <1>1, <1>2, <1>3 DEF InstallHandlers
  <2>3. ReasonSound' /\ LimitSound' /\ StopSound'
    BY <1>1, <1>2, <1>3 DEF InstallHandlers
  <2> QED  BY <2>1, <2>2, <2>3
<1>4. CASE CheckStop
  BY <1>1, <1>2, <1>4 DEF CheckStop
<1>5. CASE NextPacket
  BY <1>1, <1>2, <1>5 DEF NextPacket
<1>6. CASE NextNothing
  BY <1>1, <1>2, <1>6 DEF NextNothing
<1>7. CASE OpenHandle
  <2>1. /\ pc = "open"
        /\ UNCHANGED <<config, file, stop_requested, duration_over, after_stop>>
        /\ nonblocking' \in BOOLEAN
    BY <1>1, <1>7, NonblockAssumption DEF OpenHandle, Fail
  <2>2. CASE pc' = "output" /\ UNCHANGED result
    BY <1>1, <1>2, <2>1, <2>2
  <2>3. CASE /\ pc' = "done"
             /\ result' = [result EXCEPT !.termination_reason = "Error",
                                         !.error = TRUE]
    <3>1. /\ result' \in Result /\ result'.termination_reason = "Error"
          /\ result'.error = TRUE
          /\ result'.packets_written = result.packets_written
      BY <1>1, <2>3, ResultFails
    <3>2. file.put = 0 /\ result.packets_written = 0
      BY <2>1 DEF NewFile
    <3> QED  BY <1>1, <1>2, <2>1, <2>3, <3>1, <3>2
  <2> QED  BY <1>7, <2>2, <2>3 DEF OpenHandle, Fail
<1>8. CASE OpenOutput
  <2>1. /\ pc = "output"
        /\ UNCHANGED <<config, file, stop_requested, duration_over>>
        /\ UNCHANGED <<nonblocking, after_stop>>
        /\ nonblocking' \in BOOLEAN
    BY <1>1, <1>8 DEF OpenOutput, Fail
  <2>2. CASE pc' = "global_header" /\ UNCHANGED result
    BY <1>1, <1>2, <2>1, <2>2
  <2>3. CASE /\ pc' = "done"
             /\ result' = [result EXCEPT !.termination_reason = "Error",
                                         !.error = TRUE]
    <3>1. /\ result' \in Result /\ result'.termination_reason = "Error"
          /\ result'.error = TRUE
          /\ result'.packets_written = result.packets_written
      BY <1>1, <2>3, ResultFails
    <3>2. file.put = 0 /\ result.packets_written = 0
      BY <2>1 DEF NewFile
    <3> QED  BY <1>1, <1>2, <2>1, <2>3, <3>1, <3>2
  <2> QED  BY <1>8, <2>2, <2>3 DEF OpenOutput, Fail
<1>9. CASE WriteGlobalHeader
  <2>1. /\ pc = "global_header" /\ file' \in Puts(file)
        /\ UNCHANGED rest
        /\ \/ file'.good /\ pc' = "loop" /\ UNCHANGED result
           \/ /\ ~file'.good /\ pc' = "close"
              /\ result' = [result EXCEPT !.termination_reason = "Error",
                                          !.error = TRUE]
    BY <1>9 DEF WriteGlobalHeader, Write, Fail
  <2>2. file.good
    BY <2>1 DEF NewFile
  <2>3. /\ file' \in File
        /\ file'.good => file'.put = file.put + 1
        /\ ~file'.good => file'.put = file.put
    BY <1>1, <2>1, <2>2, PutsOne
  <2>4. CASE file'.good
    BY <1>1, <1>2, <2>1, <2>3, <2>4 DEF NewFile
  <2>5. CASE ~file'.good
    <3>1. /\ result' \in Result /\ result'.termination_reason = "Error"
          /\ result'.error = TRUE
          /\ result'.packets_written = result.packets_written
      BY <1>1, <2>1, <2>5, ResultFails
    <3> QED  BY <1>1, <1>2, <2>1, <2>3, <2>5, <3>1 DEF NewFile
  <2> QED  BY <2>4, <2>5
<1>10. CASE WriteRecord
  <2>1. /\ pc = "record" /\ file' \in Puts(file)
        /\ UNCHANGED rest
        /\ \/ file'.good /\ pc' = "data" /\ UNCHANGED result
           \/ /\ ~file'.good /\ pc' = "reason"
              /\ result' = [result EXCEPT !.termination_reason = "Error",
                                          !.error = TRUE]
    BY <1>10 DEF WriteRecord, Write, Fail
  <2>2. file.good
    BY <2>1 DEF NewFile
  <2>3. /\ file' \in File
        /\ file'.good => file'.put = file.put + 1
        /\ ~file'.good => file'.put = file.put
    BY <1>1, <2>1, <2>2, PutsOne
  <2>4. CASE file'.good
    BY <1>1, <1>2, <2>1, <2>3, <2>4 DEF NewFile
  <2>5. CASE ~file'.good
    <3>1. /\ result' \in Result /\ result'.termination_reason = "Error"
          /\ result'.error = TRUE
          /\ result'.packets_written = result.packets_written
      BY <1>1, <2>1, <2>5, ResultFails
    <3> QED  BY <1>1, <1>2, <2>1, <2>3, <2>5, <3>1 DEF NewFile
  <2> QED  BY <2>4, <2>5
<1>11. CASE WriteData
  <2>1. /\ pc = "data" /\ file' \in Puts(file)
        /\ UNCHANGED rest
        /\ \/ file'.good /\ pc' = "count" /\ UNCHANGED result
           \/ /\ ~file'.good /\ pc' = "reason"
              /\ result' = [result EXCEPT !.termination_reason = "Error",
                                          !.error = TRUE]
    BY <1>11 DEF WriteData, Write, Fail
  <2>2. file.good
    BY <2>1 DEF NewFile
  <2>3. /\ file' \in File
        /\ file'.good => file'.put = file.put + 1
        /\ ~file'.good => file'.put = file.put
    BY <1>1, <2>1, <2>2, PutsOne
  <2>4. CASE file'.good
    BY <1>1, <1>2, <2>1, <2>3, <2>4 DEF NewFile
  <2>5. CASE ~file'.good
    <3>1. /\ result' \in Result /\ result'.termination_reason = "Error"
          /\ result'.error = TRUE
          /\ result'.packets_written = result.packets_written
      BY <1>1, <2>1, <2>5, ResultFails
    <3> QED  BY <1>1, <1>2, <2>1, <2>3, <2>5, <3>1 DEF NewFile
  <2> QED  BY <2>4, <2>5
<1>12. CASE CheckMaxPackets
  <2>1. pc = "limits" /\ UNCHANGED <<rest, file>>
    BY <1>12 DEF CheckMaxPackets, Limit
  <2>2. CASE config.max_packets # 0
                 /\ result.packets_written >= config.max_packets
    <3>1. /\ pc' = "reason"
          /\ result' = [result EXCEPT !.termination_reason = "MaxPacketsReached"]
      BY <1>12, <2>2 DEF CheckMaxPackets, Limit
    <3>2. /\ result' \in Result
          /\ result'.termination_reason = "MaxPacketsReached"
          /\ result'.error = result.error
          /\ result'.packets_written = result.packets_written
      BY <1>1, <3>1, ResultStops DEF Reason
    <3> QED  BY <1>1, <1>2, <2>1, <2>2, <3>1, <3>2
  <2>3. CASE ~(/\ config.max_packets # 0
               /\ result.packets_written >= config.max_packets)
    <3>1. pc' = "clock" /\ result' = result
      BY <1>12, <2>3 DEF CheckMaxPackets, Limit
    <3> QED  BY <1>1, <1>2, <2>1, <2>3, <3>1
  <2> QED  BY <2>2, <2>3
<1>13. CASE CheckDuration
  <2>1. pc = "clock" /\ UNCHANGED <<rest, file>>
    BY <1>13 DEF CheckDuration, Limit
  <2>2. CASE config.duration /\ duration_over
    <3>1. /\ pc' = "reason"
          /\ result' = [result EXCEPT !.termination_reason = "DurationReached"]
      BY <1>13, <2>2 DEF CheckDuration, Limit
    <3>2. /\ result' \in Result
          /\ result'.termination_reason = "DurationReached"
          /\ result'.error = result.error
          /\ result'.packets_written = result.packets_written
      BY <1>1, <3>1, ResultStops DEF Reason
    <3> QED  BY <1>1, <1>2, <2>1, <2>2, <3>1, <3>2
  <2>3. CASE ~(config.duration /\ duration_over)
    <3>1. pc' = "next_ex" /\ result' = result
      BY <1>13, <2>3 DEF CheckDuration, Limit
    <3> QED  BY <1>1, <1>2, <2>1, <2>3, <3>1
  <2> QED  BY <2>2, <2>3
<1>14. CASE NextBreak
  <2>1. /\ pc = "next_ex" /\ pc' = "reason" /\ UNCHANGED <<rest, file>>
        /\ result' = [result EXCEPT !.termination_reason = "CaptureLoopEnded"]
    BY <1>14 DEF NextBreak
  <2>2. /\ result' \in Result
        /\ result'.termination_reason = "CaptureLoopEnded"
        /\ result'.error = result.error
        /\ result'.packets_written = result.packets_written
    BY <1>1, <2>1, ResultStops DEF Reason
  <2> QED  BY <1>1, <1>2, <2>1, <2>2
<1>15. CASE NextError
  <2>1. pc = "next_ex" /\ pc' = "reason" /\ UNCHANGED <<rest, file>>
    BY <1>15 DEF NextError
  <2>2. result.receive_errors = 0
    BY <2>1
  <2>3. /\ result' \in Result /\ result'.termination_reason = "Error"
        /\ result'.error = TRUE
        /\ result'.packets_written = result.packets_written
    BY <1>1, <1>15, <2>2, ResultReceiveError DEF NextError
  <2> QED  BY <1>1, <1>2, <2>1, <2>3
<1>16. CASE CountPacket
  <2>1. /\ pc = "count" /\ pc' = "loop"
        /\ UNCHANGED <<config, stop_requested, duration_over, nonblocking, file>>
        /\ after_stop = 0
        /\ after_stop' = IF stop_requested THEN 1 ELSE 0
    BY <1>16 DEF CountPacket
  <2>2. /\ result' \in Result
        /\ result'.packets_written = result.packets_written + 1
        /\ result'.termination_reason = result.termination_reason
        /\ result'.error = result.error
        /\ result'.receive_errors = result.receive_errors
    BY <1>1, <1>16, ResultCounts DEF CountPacket
  <2> QED  BY <1>1, <1>2, <2>1, <2>2
<1>17. CASE ResolveReason
  <2>1. pc = "reason" /\ pc' = "close" /\ UNCHANGED <<rest, file>>
    BY <1>17 DEF ResolveReason
  <2>2. CASE stop_requested /\ result.termination_reason = "Stopped"
    <3>1. /\ result' \in Result
          /\ result'.termination_reason = "Interrupted"
          /\ result'.error = result.error
          /\ result'.packets_written = result.packets_written
      BY <1>1, <1>17, <2>2, ResultStops DEF ResolveReason, Reason
    <3> QED  BY <1>1, <1>2, <2>1, <2>2, <3>1
  <2>3. CASE ~(stop_requested /\ result.termination_reason = "Stopped")
    BY <1>1, <1>2, <1>17, <2>1, <2>3 DEF ResolveReason
  <2> QED  BY <2>2, <2>3
<1>18. CASE CloseOutput
  <2>1. file' \in File /\ file'.put = file.put /\ file'.good = file.good
    BY <1>1, <1>18, ClosedKeeps DEF CloseOutput
  <2> QED  BY <1>1, <1>2, <1>18, <2>1 DEF CloseOutput
<1>19. CASE RequestStop
  BY <1>1, <1>2, <1>19 DEF RequestStop
<1>20. CASE DurationPasses
  BY <1>1, <1>2, <1>20 DEF DurationPasses
<1>21. CASE UNCHANGED vars
  BY <1>1, <1>2, <1>21 DEF vars
<1> QED
  BY <1>3, <1>4, <1>5, <1>6, <1>7, <1>8, <1>9, <1>10, <1>11, <1>12, <1>13,
     <1>14, <1>15, <1>16, <1>17, <1>18, <1>19, <1>20, <1>21 DEF Next,
     CaptureStep

\* Every reachable state is sound.
THEOREM SoundAlways == Spec => []Sound
<1>1. Init => Sound
  BY SoundInit
<1>2. Sound /\ [Next]_vars => Sound'
  BY SoundStep
<1> QED  BY <1>1, <1>2, PTL DEF Spec

-----------------------------------------------------------------------------
(* What the invariant says at the end of a capture.                        *)

\* The program's data keep their types (NpcapCapture.cpp:133-333).
THEOREM LiveTypeCorrect == Spec => []TypeOK
<1>1. Sound => TypeOK
  BY DEF Sound
<1> QED  BY <1>1, SoundAlways, PTL

\* The reported reason is what happened, for every race of the stop flag, the
\* limits, the driver's failures and failed writes (NpcapCapture.cpp:237-308).
THEOREM ReasonAlwaysTruthful == Spec => []ReasonTruthful
<1>1. Sound => ReasonTruthful
  <2> SUFFICES ASSUME Sound, pc = "done"  PROVE ReasonTruthful
    BY DEF ReasonTruthful
  <2>1. /\ result.error \in BOOLEAN
        /\ result.termination_reason = "Error" <=> result.error
    BY DEF Sound, TypeOK, Result, ReasonSound
  <2>2. ExitCode = 1 <=> result.termination_reason = "Error"
    BY <2>1 DEF ExitCode
  <2> QED  BY <2>1, <2>2 DEF Sound, ReasonSound, ReasonTruthful
<1> QED  BY <1>1, SoundAlways, PTL

\* The counters agree with the file, wherever a write failed
\* (NpcapCapture.cpp:229-235, 289-302).
THEOREM CountsAlwaysMatchFile == Spec => []CountsMatchFile
<1>1. Sound => CountsMatchFile
  <2> SUFFICES ASSUME Sound  PROVE CountsMatchFile
    OBVIOUS
  <2> DEFINE n == result.packets_written
  <2>1. n \in Nat /\ config.max_packets # 0 => n <= config.max_packets
    BY DEF Sound, TypeOK, Result, LimitSound
  <2>2. n \in Nat
    BY DEF Sound, TypeOK, Result
  <2>3. /\ CompleteRecords(2 * n + 1) = n /\ ~EndsInRecord(2 * n + 1)
        /\ CompleteRecords(2 * n + 2) = n
        /\ CompleteRecords(2 * n + 3) = n + 1
        /\ CompleteRecords(0) = 0
    BY <2>2, RecordCount
  <2>4. CASE pc \in Before
    <3>1. file.put = 0 /\ n = 0
      BY <2>4 DEF Sound, FileSound, NewFile
    <3> QED  BY <2>1, <2>2, <2>3, <2>4, <3>1 DEF CountsMatchFile, Before
  <2>5. CASE pc \in Looping
    <3>1. file.put = 2 * n + 1 + InHand
      BY <2>5 DEF Sound, FileSound
    <3>2. CompleteRecords(file.put) = n + (IF pc = "count" THEN 1 ELSE 0)
      BY <2>2, <2>3, <3>1 DEF InHand
    <3> QED  BY <2>1, <2>2, <2>5, <3>2 DEF CountsMatchFile, Looping
  <2>6. CASE pc \in After
    <3>1. CompleteRecords(file.put) = n
      BY <2>2, <2>3, <2>6 DEF Sound, FileSound
    <3>2. ExitCode = 0 => file.put = 2 * n + 1
      BY <2>6 DEF Sound, FileSound, ExitCode
    <3> QED
      BY <2>1, <2>2, <2>3, <2>6, <3>1, <3>2
         DEF CountsMatchFile, HeaderWritten, After
  <2> QED
    BY <2>4, <2>5, <2>6 DEF Sound, TypeOK, ProgramCounter, Before, Looping,
       After
<1> QED  BY <1>1, SoundAlways, PTL

\* A stop request lets at most the packet in hand through
\* (NpcapCapture.cpp:237).
THEOREM StopsAlwaysWithinOnePacket == Spec => []StopsWithinOnePacket
<1>1. Sound => StopsWithinOnePacket
  BY DEF Sound, StopSound, StopsWithinOnePacket
<1> QED  BY <1>1, SoundAlways, PTL

-----------------------------------------------------------------------------
(* The refinement: every step is a step of RecordingContract, or stutters. *)

LEMMA SoundTypes ==
    ASSUME Sound
    PROVE  /\ file \in File /\ file.put \in Nat /\ file.good \in BOOLEAN
           /\ result \in Result /\ result.packets_written \in Nat
           /\ result.error \in BOOLEAN
           /\ result.termination_reason = "Error" <=> result.error
BY DEF Sound, TypeOK, File, Result, ReasonSound

LEMMA WriteRefines ==
    ASSUME Sound, NEW from \in {"global_header", "record", "data"},
           NEW to, to # "done", NEW failed, failed # "done",
           Write(from, to, failed)
    PROVE  Contract!Gives \/ Contract!Breaks
<1>1. /\ pc = from /\ pc # "done" /\ pc' # "done"
      /\ file' \in Puts(file)
      /\ \/ file'.good /\ UNCHANGED result
         \/ /\ ~file'.good
            /\ result' = [result EXCEPT !.termination_reason = "Error",
                                        !.error = TRUE]
  BY DEF Write, Fail, GoTo
<1>2. file.good /\ file.put # 3 + 2 * result.packets_written
  <2>1. CASE pc = "global_header"
    BY <2>1 DEF Sound, FileSound, Before, NewFile
  <2>2. CASE pc \in {"record", "data"}
    BY <2>2, SoundTypes DEF Sound, FileSound, Looping, InHand
  <2> QED  BY <1>1, <2>1, <2>2
<1>3. /\ file'.good => /\ file'.put = file.put + 1
                       /\ \/ file'.disk = file.disk
                          \/ file'.disk = file.put + 1 /\ file.put < DiskSpace
      /\ ~file'.good => /\ file'.put = file.put
                        /\ file'.disk = DiskSpace /\ file.put >= DiskSpace
  BY <1>1, <1>2, SoundTypes, PutsOne
<1>4. CASE file'.good /\ UNCHANGED result
  BY <1>1, <1>2, <1>3, <1>4
     DEF Contract!Gives, Contract!Running, Contract!RecordComplete
<1>5. CASE /\ ~file'.good
           /\ result' = [result EXCEPT !.termination_reason = "Error",
                                       !.error = TRUE]
  <2>1. result'.packets_written = result.packets_written
    BY <1>5, SoundTypes, ResultFails
  <2> QED
    BY <1>1, <1>2, <1>3, <1>5, <2>1
       DEF Contract!Breaks, Contract!Running, Contract!RecordComplete
<1> QED  BY <1>1, <1>4, <1>5

LEMMA CountRefines ==
    ASSUME Sound, CountPacket
    PROVE  Contract!Counts
<1>1. /\ pc = "count" /\ pc' = "loop" /\ UNCHANGED file
      /\ result'.packets_written = result.packets_written + 1
  BY SoundTypes, ResultCounts DEF CountPacket, GoTo
<1>2. file.good /\ file.put = 3 + 2 * result.packets_written
  BY <1>1, SoundTypes DEF Sound, FileSound, Looping, InHand
<1> QED
  BY <1>1, <1>2 DEF Contract!Counts, Contract!Running, Contract!RecordComplete

\* The handle or the output cannot be opened: the file was never written.
LEMMA OpenFailureRefines ==
    ASSUME Sound, NEW from \in {"open", "output"}, Fail(from, "done"),
           UNCHANGED file
    PROVE  Contract!Ends
<1>1. /\ pc = from /\ pc' = "done"
      /\ result' = [result EXCEPT !.termination_reason = "Error",
                                  !.error = TRUE]
  BY DEF Fail, GoTo
<1>2. /\ file.put = 0 /\ file.disk = 0 /\ file.good = TRUE
      /\ result.packets_written = 0
  BY <1>1 DEF Sound, FileSound, Before, NewFile
<1>3. ExitCode' = 1 /\ result'.packets_written = result.packets_written
  BY <1>1, SoundTypes, ResultFails DEF ExitCode
<1> QED
  BY <1>1, <1>2, <1>3, DiskSpaceAssumption
     DEF Contract!Ends, Contract!AllCounted

\* The end of Run: what a successful capture wrote is counted.
LEMMA CloseRefines ==
    ASSUME Sound, CloseOutput
    PROVE  Contract!Ends
<1>1. /\ pc = "close" /\ pc' = "done" /\ UNCHANGED result
      /\ file' = Closed(file)
  BY DEF CloseOutput, GoTo
<1>2. /\ file'.put = file.put /\ file'.good = file.good
      /\ file'.disk = OnDisk(file.put)
  BY <1>1, SoundTypes, ClosedKeeps
<1>3. /\ ~result.error => file.good
      /\ \/ file.put = 2 * result.packets_written + 1
         \/ ~file.good
         \/ file.put = 0 /\ result.packets_written = 0
  BY <1>1 DEF Sound, FileSound, After
<1>4. ~file.good => ExitCode' = 1
  BY <1>1, <1>3 DEF ExitCode
<1>5. ExitCode' = 0 \/ ExitCode' = 1
  BY DEF ExitCode
<1>6. ~file.good \/ Contract!AllCounted
  BY <1>3, SoundTypes DEF Contract!AllCounted
<1> QED
  BY <1>1, <1>2, <1>4, <1>5, <1>6 DEF Contract!Ends, OnDisk

LEMMA InitRefines == Init => Contract!RecordingInit
BY DEF Init, NewFile, Contract!RecordingInit

LEMMA StepRefines ==
    Sound /\ [Next]_vars
      => [Contract!RecordingNext]_(Contract!contractVars)
<1> SUFFICES ASSUME Sound, [Next]_vars
             PROVE  \/ Contract!RecordingNext
                    \/ UNCHANGED Contract!contractVars
  OBVIOUS
\* What leaves the file and the count alone, before the end or after it.
<1>1. ASSUME UNCHANGED <<file, result.packets_written>>,
             \/ pc # "done" /\ pc' # "done"
             \/ pc' = pc /\ UNCHANGED result
      PROVE  UNCHANGED Contract!contractVars
  BY <1>1 DEF Contract!contractVars, ExitCode
<1>2. CASE InstallHandlers \/ CheckStop \/ NextPacket \/ NextNothing
  <2>1. pc # "done" /\ pc' # "done" /\ UNCHANGED <<file, result>>
    BY <1>2 DEF InstallHandlers, CheckStop, NextPacket, NextNothing, GoTo
  <2> QED  BY <1>1, <2>1
<1>3. CASE CheckMaxPackets \/ CheckDuration \/ NextBreak \/ ResolveReason
  <2>1. /\ pc # "done" /\ pc' # "done" /\ UNCHANGED file
        /\ \/ UNCHANGED result
           \/ \E reason \in Reason :
                 result' = [result EXCEPT !.termination_reason = reason]
    BY <1>3 DEF CheckMaxPackets, CheckDuration, Limit, NextBreak,
       ResolveReason, GoTo, Reason
  <2>2. result'.packets_written = result.packets_written
    BY <2>1, SoundTypes, ResultStops
  <2> QED  BY <1>1, <2>1, <2>2
<1>4. CASE NextError
  <2>1. /\ pc = "next_ex" /\ pc' = "reason" /\ UNCHANGED file
        /\ result' = [result EXCEPT !.termination_reason = "Error",
                                    !.error = TRUE, !.receive_errors = @ + 1]
    BY <1>4 DEF NextError, GoTo
  <2>2. result'.packets_written = result.packets_written
    BY <2>1, SoundTypes, ResultReceiveError
       DEF Sound, ReasonSound, After
  <2> QED  BY <1>1, <2>1, <2>2
<1>5. CASE OpenHandle \/ OpenOutput
  <2>1. CASE GoTo("open", "output") \/ GoTo("output", "global_header")
    <3>1. pc # "done" /\ pc' # "done" /\ UNCHANGED <<file, result>>
      BY <1>5, <2>1 DEF OpenHandle, OpenOutput, Fail, GoTo
    <3> QED  BY <1>1, <3>1
  <2>2. CASE Fail("open", "done") \/ Fail("output", "done")
    <3>1. UNCHANGED file
      BY <1>5 DEF OpenHandle, OpenOutput
    <3> QED
      BY <2>2, <3>1, OpenFailureRefines DEF Contract!RecordingNext
  <2> QED  BY <1>5, <2>1, <2>2 DEF OpenHandle, OpenOutput
<1>6. CASE WriteGlobalHeader \/ WriteRecord \/ WriteData
  <2>1. Contract!Gives \/ Contract!Breaks
    BY <1>6, WriteRefines DEF WriteGlobalHeader, WriteRecord, WriteData
  <2> QED  BY <2>1 DEF Contract!RecordingNext
<1>7. CASE CountPacket
  BY <1>7, CountRefines DEF Contract!RecordingNext
<1>8. CASE CloseOutput
  BY <1>8, CloseRefines DEF Contract!RecordingNext
<1>9. CASE RequestStop \/ DurationPasses \/ UNCHANGED vars
  <2>1. UNCHANGED <<pc, file, result>>
    BY <1>9 DEF RequestStop, DurationPasses, vars
  <2> QED  BY <1>1, <2>1
<1> QED
  BY <1>2, <1>3, <1>4, <1>5, <1>6, <1>7, <1>8, <1>9 DEF Next, CaptureStep

\* The capture keeps RecordingContract, for every configuration, any number of
\* packets and a disk of any size: each packet is counted once, behind its
\* record, nothing follows a failed write, and exit code 0 means that none
\* failed (NpcapCapture.cpp:216-235, 289-303, 330-333).
THEOREM CaptureKeepsContract == Spec => ImplementsContract
<1>1. Sound /\ [Next]_vars
        => [Contract!RecordingNext]_(Contract!contractVars)
  BY StepRefines
<1> QED
  BY <1>1, InitRefines, SoundAlways, PTL
  DEF Spec, ImplementsContract, Contract!RecordingSpec
=============================================================================
