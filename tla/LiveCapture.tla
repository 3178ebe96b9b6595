----------------------------- MODULE LiveCapture -----------------------------
(***************************************************************************)
(* A live capture: RunLiveCapture (src/main.cpp) and the loop of           *)
(* NpcapCapture::Run (src/capture/NpcapCapture.cpp), with the console      *)
(* control handler that runs on a thread of its own, the clock, the driver *)
(* behind pcap_next_ex and the output file.                                *)
(*                                                                         *)
(* What a packet holds and how much of it the policy keeps is left out:    *)
(* the loop depends on it only through the writes.                         *)
(***************************************************************************)
EXTENDS PcapWriter

CONSTANTS
    Config,            \* the configurations a program may run with
    NonblockOutcomes,  \* what pcap_setnonblock(1) may answer: success or not
    PacketBound        \* bound on the packets the driver delivers

\* max_packets, 0 for no limit; whether duration_sec and read_timeout_ms are
\* other than 0.
CaptureOptions == [max_packets : Nat, duration : BOOLEAN, timeout : BOOLEAN]
ASSUME ConfigAssumption == Config \subseteq CaptureOptions
ASSUME PacketBoundAssumption == PacketBound \in Nat
ASSUME NonblockAssumption ==
    NonblockOutcomes \subseteq BOOLEAN /\ NonblockOutcomes # {}

VARIABLES
    config,           \* config_
    pc,               \* where the capture thread is
    stop_requested,   \* g_stop_requested
    duration_over,    \* the clock: duration_sec have passed since start_time
    nonblocking,      \* nonblocking_mode_enabled
    file,             \* output_stream and the file behind it
    result,           \* the NpcapCaptureRunResult
    after_stop        \* ghost: packets written since the stop was requested

vars == <<config, pc, stop_requested, duration_over, nonblocking, file, result,
          after_stop>>

\* What most steps of the capture thread leave alone.
rest == <<config, stop_requested, duration_over, nonblocking, after_stop>>

Reason == {"Stopped", "MaxPacketsReached", "DurationReached", "Interrupted",
           "CaptureLoopEnded", "Error"}
Result == [termination_reason : Reason, error : BOOLEAN,
           packets_written : Nat, receive_errors : 0 .. 1]

ProgramCounter == {"main", "open", "output", "global_header", "loop", "limits",
                   "clock", "next_ex", "record", "data", "count", "reason",
                   "close", "done"}

Init ==
    /\ config \in Config
    /\ pc = "main"
    /\ stop_requested = FALSE
    /\ duration_over = FALSE
    /\ nonblocking = FALSE
    /\ file = NewFile
    /\ result = [termination_reason |-> "Stopped", error |-> FALSE,
                 packets_written |-> 0, receive_errors |-> 0]
    /\ after_stop = 0

-----------------------------------------------------------------------------
(* The capture thread.                                                     *)

GoTo(from, to) == pc = from /\ pc' = to

\* Leaves the function or the loop with an error.
Fail(from, to) ==
    /\ GoTo(from, to)
    /\ result' = [result EXCEPT !.termination_reason = "Error", !.error = TRUE]

\* g_stop_requested is cleared before the handlers are installed.
InstallHandlers ==
    /\ GoTo("main", "open")
    /\ stop_requested' = FALSE
    /\ UNCHANGED <<config, duration_over, nonblocking, file, result, after_stop>>

\* pcap_open_live, pcap_setnonblock (whose failure is a warning only) and the
\* datalink check.
OpenHandle ==
    /\ nonblocking' \in NonblockOutcomes
    /\ \/ GoTo("open", "output") /\ UNCHANGED result
       \/ Fail("open", "done")
    /\ UNCHANGED <<config, stop_requested, duration_over, file, after_stop>>

OpenOutput ==
    /\ \/ GoTo("output", "global_header") /\ UNCHANGED result
       \/ Fail("output", "done")
    /\ UNCHANGED <<rest, file>>

\* Mutant: a failed write is not noticed.
WriteUnchecked(from, to, failed) ==
    /\ file' \in Puts(file)
    /\ GoTo(from, to)
    /\ UNCHANGED <<rest, result>>

\* A write moves on if the stream is still good and throws otherwise; what is
\* thrown at a write ends the loop, before the loop it ends Run.
Write(from, to, failed) ==
    /\ file' \in Puts(file)
    /\ \/ file'.good /\ GoTo(from, to) /\ UNCHANGED result
       \/ ~file'.good /\ Fail(from, failed)
    /\ UNCHANGED rest

WriteGlobalHeader == Write("global_header", "loop", "close")

\* The loop condition, then the two limits, in this order.
CheckStop ==
    /\ GoTo("loop", IF stop_requested THEN "reason" ELSE "limits")
    /\ UNCHANGED <<rest, file, result>>

Limit(from, reached, reason, next) ==
    /\ GoTo(from, IF reached THEN "reason" ELSE next)
    /\ result' = IF reached THEN [result EXCEPT !.termination_reason = reason]
                            ELSE result
    /\ UNCHANGED <<rest, file>>

CheckMaxPackets ==
    Limit("limits", config.max_packets # 0
                       /\ result.packets_written >= config.max_packets,
          "MaxPacketsReached", "clock")
CheckDuration ==
    Limit("clock", config.duration /\ duration_over, "DurationReached", "next_ex")

\* pcap_next_ex has a packet.
NextPacket ==
    /\ GoTo("next_ex", "record")
    /\ result.packets_written < PacketBound
    /\ UNCHANGED <<rest, file, result>>

\* Mutants: an idle interface is polled without testing the limits, or without
\* testing the stop flag.
NextNothingStopOnly ==
    /\ nonblocking \/ config.timeout
    /\ GoTo("next_ex", IF stop_requested THEN "reason" ELSE "next_ex")
    /\ UNCHANGED <<rest, file, result>>
NextNothingLimitsOnly ==
    /\ nonblocking \/ config.timeout
    /\ GoTo("next_ex", "limits")
    /\ UNCHANGED <<rest, file, result>>

\* pcap_next_ex returns 0: at once, or when the read timeout is over.
NextNothing ==
    /\ nonblocking \/ config.timeout
    /\ GoTo("next_ex", "loop")
    /\ UNCHANGED <<rest, file, result>>

\* pcap_next_ex returns PCAP_ERROR_BREAK.
NextBreak ==
    /\ GoTo("next_ex", "reason")
    /\ result' = [result EXCEPT !.termination_reason = "CaptureLoopEnded"]
    /\ UNCHANGED <<rest, file>>

\* pcap_next_ex fails, or succeeds without data.
NextError ==
    /\ GoTo("next_ex", "reason")
    /\ result' = [result EXCEPT !.termination_reason = "Error", !.error = TRUE,
                                !.receive_errors = @ + 1]
    /\ UNCHANGED <<rest, file>>

\* WritePacket: the record header, then the bytes; then the packet is counted.
WriteRecord == Write("record", "data", "reason")
WriteData == Write("data", "count", "reason")

\* Mutant: the next packet is read without evaluating the loop condition.
CountPacketOnward ==
    /\ GoTo("count", "limits")
    /\ result' = [result EXCEPT !.packets_written = @ + 1]
    /\ after_stop' = IF stop_requested THEN after_stop + 1 ELSE after_stop
    /\ UNCHANGED <<config, stop_requested, duration_over, nonblocking, file>>

CountPacket ==
    /\ GoTo("count", "loop")
    /\ result' = [result EXCEPT !.packets_written = @ + 1]
    /\ after_stop' = IF stop_requested THEN after_stop + 1 ELSE after_stop
    /\ UNCHANGED <<config, stop_requested, duration_over, nonblocking, file>>

\* Mutant: a stop request overrides the reason the loop ended for.
ResolveReasonAlways ==
    /\ GoTo("reason", "close")
    /\ result' = IF stop_requested
                 THEN [result EXCEPT !.termination_reason = "Interrupted"]
                 ELSE result
    /\ UNCHANGED <<rest, file>>

\* After the loop, a stop request explains a loop that ended for no other
\* reason.
ResolveReason ==
    /\ GoTo("reason", "close")
    /\ result' = IF stop_requested /\ result.termination_reason = "Stopped"
                 THEN [result EXCEPT !.termination_reason = "Interrupted"]
                 ELSE result
    /\ UNCHANGED <<rest, file>>

\* Run returns: the stream's destructor flushes and closes the file.
CloseOutput ==
    /\ GoTo("close", "done")
    /\ file' = Closed(file)
    /\ UNCHANGED <<rest, result>>

\* What RunLiveCapture returns, lines 183-191 of main.cpp.
ExitCode ==
    IF result.error \/ result.termination_reason = "Error" THEN 1 ELSE 0

-----------------------------------------------------------------------------
(* The rest of the world.                                                  *)

\* Ctrl+C or Ctrl+Break, any number of times.
RequestStop ==
    /\ pc # "main"
    /\ stop_requested' = TRUE
    /\ UNCHANGED <<config, pc, duration_over, nonblocking, file, result,
                   after_stop>>

\* The clock passes start_time + duration_sec.
DurationPasses ==
    /\ pc \notin {"main", "open", "output"}
    /\ duration_over' = TRUE
    /\ UNCHANGED <<config, pc, stop_requested, nonblocking, file, result,
                   after_stop>>

CaptureStep ==
    \/ InstallHandlers \/ OpenHandle \/ OpenOutput \/ WriteGlobalHeader
    \/ CheckStop \/ CheckMaxPackets \/ CheckDuration
    \/ NextNothing \/ NextBreak \/ NextError
    \/ WriteRecord \/ WriteData \/ CountPacket
    \/ ResolveReason \/ CloseOutput

Next == CaptureStep \/ NextPacket \/ RequestStop \/ DurationPasses

Spec == Init /\ [][Next]_vars

\* The capture thread is never descheduled for ever, and time passes.  A
\* packet need never arrive and the driver need never fail.
ThreadStep == CaptureStep /\ ~(NextBreak \/ NextError)
FairSpec == Spec /\ WF_vars(ThreadStep) /\ WF_vars(DurationPasses)

-----------------------------------------------------------------------------
(* Properties.                                                             *)

TypeOK ==
    /\ config \in Config
    /\ pc \in ProgramCounter
    /\ stop_requested \in BOOLEAN
    /\ duration_over \in BOOLEAN
    /\ nonblocking \in BOOLEAN
    /\ file \in File
    /\ result \in Result
    /\ after_stop \in Nat

\* The reason a finished capture reports is what happened, whatever raced with
\* it: "stopped" is never reported, a limit only when it was reached and an
\* interruption only after a request; an error is an error in the exit code,
\* the reason and the message alike (lines 237-308, main.cpp:183-191).
ReasonTruthful ==
    pc = "done" =>
        LET reason == result.termination_reason IN
        /\ reason # "Stopped"
        /\ reason = "Interrupted" => stop_requested
        /\ reason = "MaxPacketsReached" =>
             config.max_packets # 0
             /\ result.packets_written = config.max_packets
        /\ reason = "DurationReached" => config.duration /\ duration_over
        /\ reason = "Error" <=> result.error
        /\ ExitCode = 1 <=> reason = "Error"

\* The counters agree with the file: a packet is counted when all of its record
\* was written, a record is left unfinished only by a failed write that ends
\* the capture with an error, and a successful capture has its global header
\* even if it saw no packet (lines 229-235, 289-302).
CountsMatchFile ==
    /\ CompleteRecords(file.put) =
         result.packets_written + (IF pc = "count" THEN 1 ELSE 0)
    /\ pc = "done" /\ ExitCode = 0 =>
         HeaderWritten(file) /\ ~EndsInRecord(file.put)
    /\ config.max_packets # 0 => result.packets_written <= config.max_packets

\* A stop request lets at most the packet in hand through (line 237).
StopsWithinOnePacket == after_stop <= 1

\* A stop request ends the capture (lines 237, 252-257).
StopHonoured == stop_requested ~> pc = "done"

\* config.example.ini:27: "Capture stops when either max_packets or duration_sec
\* is reached", on an idle interface too (lines 243-257).
DurationHonoured == (config.duration /\ duration_over) ~> pc = "done"

\* RELEASE_NOTES.md:13: "Clean Ctrl+C / Ctrl+Break shutdown with valid partial
\* PCAP output": what an interrupted capture reports as written is in the file.
InterruptedOutputValid ==
    pc = "done" /\ result.termination_reason = "Interrupted" =>
        /\ HeaderWritten([file EXCEPT !.put = file.disk])
        /\ CompleteRecords(file.disk) = result.packets_written

\* The capture keeps what RecordingContract promises of its output, through
\* every race of limits, stop requests, driver errors and failed writes: each
\* packet is counted once, behind its record, nothing follows a failed write,
\* and exit code 0 means that none failed (lines 216-235, 289-303, 330-333).
Contract == INSTANCE RecordingContract WITH
    given <- file.put, kept <- file.disk, broken <- ~file.good,
    counted <- result.packets_written,
    outcome <- IF pc # "done" THEN "running"
               ELSE IF ExitCode = 0 THEN "success" ELSE "failure"
ImplementsContract == Contract!RecordingSpec
=============================================================================
