------------------------------- MODULE Startup -------------------------------
(***************************************************************************)
(* What the program does before it captures or feeds anything: main,       *)
(* RunListInterfaces and the first half of RunLiveCapture (src/main.cpp),  *)
(* ConfigLoader::LoadFromFile and the calls that ask what this build and   *)
(* this machine support.  LiveCapture and OfflineFeed begin where this     *)
(* ends.                                                                   *)
(***************************************************************************)
EXTENDS ConfigLoader

VARIABLES
    pc,          \* where main is; "live" and "offline": it has begun to run
    arguments,   \* argv: one of the four forms it may have, or another
    machine,     \* HasSupport() of both kinds and CheckNpcapRuntimeAvailable()
    exit_code    \* what main returned

startupVars == <<pc, arguments, machine, exit_code>>

Arguments == {"--help", "--list-interfaces", "--config",
              "--config --offline-input", "other"}
Machine == [support : BOOLEAN, runtime : BOOLEAN]
ProgramCounter == {"main", "load", "run", "live", "offline", "exit"}

StartupInit ==
    /\ LoaderInit
    /\ pc = "main"
    /\ arguments \in Arguments
    /\ machine \in Machine
    /\ exit_code = 0

Exit(from, code) == pc = from /\ pc' = "exit" /\ exit_code' = code

GoTo(from, to) == pc = from /\ pc' = to /\ UNCHANGED exit_code

PrintUsage ==
    /\ arguments \in {"--help", "other"}
    /\ Exit("main", IF arguments = "--help" THEN 0 ELSE 1)
    /\ UNCHANGED <<loaderVars, arguments, machine>>

\* pcap_findalldevs may fail, and may find nothing.
RunListInterfaces ==
    /\ arguments = "--list-interfaces"
    /\ \/ machine.support /\ machine.runtime /\ Exit("main", 0)
       \/ Exit("main", 1)
    /\ UNCHANGED <<loaderVars, arguments, machine>>

\* The file opens, and its text is read, as far as reading goes.
LoadFromFile ==
    /\ arguments \in {"--config", "--config --offline-input"}
    /\ GoTo("main", "load") \/ Exit("main", 1)
    /\ UNCHANGED <<loaderVars, arguments, machine>>

LoadText ==
    /\ pc = "load" /\ LoadFromString
    /\ UNCHANGED startupVars

\* Mutant: the error of the loader is not looked at.
CheckConfigSkipped ==
    /\ load # "reading"
    /\ GoTo("load", "run")
    /\ UNCHANGED <<loaderVars, arguments, machine>>

CheckConfig ==
    /\ \/ load = "failed" /\ Exit("load", 1)
       \/ load = "loaded" /\ GoTo("load", "run")
    /\ UNCHANGED <<loaderVars, arguments, machine>>

RunOfflinePipeline ==
    /\ arguments = "--config --offline-input"
    /\ GoTo("run", "offline")
    /\ UNCHANGED <<loaderVars, arguments, machine>>

\* Npcap is there, and an interface is named.
LiveCaptureReady ==
    machine.support /\ machine.runtime /\ config[Interface] # <<Empty>>

RunLiveCapture ==
    /\ arguments = "--config"
    /\ \/ LiveCaptureReady /\ GoTo("run", "live")
       \/ ~LiveCaptureReady /\ Exit("run", 1)
    /\ UNCHANGED <<loaderVars, arguments, machine>>

StartupNext ==
    \/ PrintUsage \/ RunListInterfaces \/ LoadFromFile \/ LoadText
    \/ CheckConfig \/ RunOfflinePipeline \/ RunLiveCapture

StartupSpec == StartupInit /\ [][StartupNext]_<<loaderVars, startupVars>>

-----------------------------------------------------------------------------
(* Properties.                                                             *)

Started == pc \in {"live", "offline"}

StartupTypeOK ==
    /\ LoaderTypeOK
    /\ pc \in ProgramCounter
    /\ arguments \in Arguments
    /\ machine \in Machine
    /\ exit_code \in {0, 1}

\* A text with an error in it starts nothing, although the lines before the
\* error were assigned; a program that runs does what the whole text says, with
\* limits other than 0, ports that are ports, and an interface if it captures
\* (ConfigLoader.cpp:440-460, main.cpp:143-148, 221-230).
RunsWhatTextSays ==
    Started =>
        /\ TextFits
        /\ \A o \in Option : Means(o, config[o])
        /\ \A o \in LimitOption : config[o] > 0
        /\ pc = "live" => ~Means(Interface, <<Empty>>)
=============================================================================
