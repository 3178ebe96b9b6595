---------------------------- MODULE ConfigLoader ----------------------------
(***************************************************************************)
(* ConfigLoader::LoadFromString (src/config/ConfigLoader.cpp): an INI text *)
(* read line by line into a PolicyConfig, and the validation behind it.    *)
(*                                                                         *)
(* A line is what is left of it without its comment and the blanks around  *)
(* it, split at '[', ']' and '='; names are compared in lower case.  A     *)
(* value is the list of what stands between its commas; of a list of ports *)
(* only its members matter.  The text is read once, front to back, so a    *)
(* line is chosen when it is read.                                         *)
(***************************************************************************)
EXTENDS Integers, Sequences

CONSTANTS
    Name,        \* names of sections and keys
    Empty,       \* the empty string
    Token,       \* what may stand between commas in a value
    NumberOf,    \* the number a token spells, NaN if it spells none
    Line,        \* the lines a text may have
    LineBound,   \* bound on the lines of a text
    Uint32Max,   \* the largest 32-bit and 64-bit number, scaled down for TLC
    Uint64Max

NaN == -1
LineKind == {"blank", "header", "unterminated", "no_equals", "assignment"}

\* The words the options below start with can be written in a text, too.
ASSUME TokenAssumption ==
    {Empty, "npcap", "output.pcap", "final_only"} \subseteq Token
ASSUME NumberAssumption == NumberOf \in [Token -> Nat \cup {NaN}]
ASSUME WidthAssumption ==
    /\ Uint32Max \in Nat /\ Uint64Max \in Nat
    /\ 65535 <= Uint32Max /\ Uint32Max <= Uint64Max
ASSUME LineAssumption ==
    /\ Line \subseteq [kind : LineKind, name : Name, value : Seq(Token)]
    /\ LineBound \in Nat

\* The keys, by how their values are read, and the sections they belong to.
BoolKey == {"enabled", "promiscuous", "require_dcid_match",
            "allow_short_header_without_known_dcid"}
\* Both must not be 0.
LimitKey == {"default_snaplen", "max_capture_len"}
Uint32Key == LimitKey \cup
    {"read_timeout_ms", "min_saved_bytes_per_packet",
     "app_data_keep_record_bytes", "app_data_continuation_keep_bytes",
     "short_header_keep_packet_bytes"}
Uint64Key == {"max_packets", "duration_sec"}
TextKey == {"backend", "interface", "output", "app_data_continuation_policy"}
Key == BoolKey \cup Uint32Key \cup Uint64Key \cup {"ports"} \cup TextKey

KeysOf == [
    capture |-> LimitKey \cup Uint64Key \cup
        {"backend", "interface", "promiscuous", "output", "read_timeout_ms"},
    general |-> {"min_saved_bytes_per_packet"},
    tls |-> {"enabled", "ports", "app_data_continuation_policy",
             "app_data_keep_record_bytes", "app_data_continuation_keep_bytes"},
    quic |-> {"enabled", "ports", "require_dcid_match",
              "allow_short_header_without_known_dcid",
              "short_header_keep_packet_bytes"},
    stats |-> {"enabled"}]
Section == DOMAIN KeysOf
ASSUME EmptyAssumption == Empty \notin Section

Option == {o \in [section : Section, key : Key] : o.key \in KeysOf[o.section]}
LimitOption == {o \in Option : o.key \in LimitKey}
Interface == [section |-> "capture", key |-> "interface"]

Default == [
    enabled |-> TRUE, promiscuous |-> TRUE, require_dcid_match |-> TRUE,
    allow_short_header_without_known_dcid |-> FALSE,
    default_snaplen |-> 65535, max_capture_len |-> 65535,
    read_timeout_ms |-> 100, min_saved_bytes_per_packet |-> 16,
    app_data_keep_record_bytes |-> 256, app_data_continuation_keep_bytes |-> 64,
    short_header_keep_packet_bytes |-> 64,
    max_packets |-> 0, duration_sec |-> 0,
    ports |-> {443, 8443}, backend |-> <<"npcap">>, interface |-> <<Empty>>,
    output |-> <<"output.pcap">>,
    app_data_continuation_policy |-> <<"final_only">>]

VARIABLES
    text,               \* the lines read so far
    current_section,    \* the section they lie in, Empty before the first
    config,             \* result.config: a value for each option
    load                \* whether the loader is reading, or how it returned

loaderVars == <<text, current_section, config, load>>

-----------------------------------------------------------------------------
(* Values.                                                                 *)

\* Mutant: a value that does not fit is taken as far as it goes.
SpellsPrefix(value, max) == value # <<>> /\ NumberOf[value[1]] # NaN

\* ParseUint32 and ParseUint64: a number that fits its type, alone.
Spells(value, max) == Len(value) = 1 /\ NumberOf[value[1]] \in 0 .. max

\* ParseBool.
TrueWord == {<<"true">>, <<"1">>}
FalseWord == {<<"false">>, <<"0">>}

\* ParsePorts.
PortNumber == 0 .. 65535
SpellsPorts(value) ==
    \A i \in 1 .. Len(value) : NumberOf[value[i]] \in PortNumber

\* Of the values of app_data_continuation_policy only one is supported.
AcceptsText(key, value) ==
    CASE key = "backend" -> value = <<"npcap">>
      [] key = "interface" -> TRUE
      [] key = "output" -> value # <<Empty>>
      [] key = "app_data_continuation_policy" -> value = <<"final_only">>

Accepts(key, value) ==
    \/ key \in BoolKey /\ value \in TrueWord \cup FalseWord
    \/ key \in Uint32Key /\ Spells(value, Uint32Max)
    \/ key \in Uint64Key /\ Spells(value, Uint64Max)
    \/ key = "ports" /\ SpellsPorts(value)
    \/ key \in TextKey /\ AcceptsText(key, value)

Parsed(key, value) ==
    CASE key \in BoolKey -> value \in TrueWord
      [] key \in Uint32Key \cup Uint64Key -> NumberOf[value[1]]
      [] key = "ports" -> {NumberOf[value[i]] : i \in 1 .. Len(value)}
      [] key \in TextKey -> value

-----------------------------------------------------------------------------
LoaderInit ==
    /\ text = <<>>
    /\ current_section = Empty
    /\ config = [o \in Option |-> Default[o.key]]
    /\ load = "reading"

\* std::getline has another line.
GetLine(line) ==
    /\ load = "reading" /\ Len(text) < LineBound
    /\ text' = Append(text, line)

SkipLine(line) ==
    /\ GetLine(line) /\ line.kind = "blank"
    /\ UNCHANGED <<current_section, config, load>>

EnterSection(line) ==
    /\ GetLine(line) /\ line.kind = "header" /\ line.name # Empty
    /\ current_section' = line.name
    /\ UNCHANGED <<config, load>>

\* The option a line assigns to; none before the first section.
Target(line) == [section |-> current_section, key |-> line.name]

Assignable(line) ==
    /\ line.kind = "assignment"
    /\ Target(line) \in Option /\ Accepts(line.name, line.value)

\* Mutant: ports are parsed straight into the configuration.
AssignValueAppends(line) ==
    /\ GetLine(line) /\ Assignable(line)
    /\ LET o == Target(line) IN
       config' = [config EXCEPT ![o] = IF o.key = "ports"
                                       THEN @ \cup Parsed(o.key, line.value)
                                       ELSE Parsed(o.key, line.value)]
    /\ UNCHANGED <<current_section, load>>

AssignValue(line) ==
    /\ GetLine(line) /\ Assignable(line)
    /\ config' = [config EXCEPT ![Target(line)] =
                                   Parsed(line.name, line.value)]
    /\ UNCHANGED <<current_section, load>>

\* Returns at once with an error; what was assigned before stays assigned.
RejectLine(line) ==
    /\ GetLine(line)
    /\ \/ line.kind \in {"unterminated", "no_equals"}
       \/ line.kind = "header" /\ line.name = Empty
       \/ line.kind = "assignment" /\ ~Assignable(line)
    /\ load' = "failed"
    /\ UNCHANGED <<current_section, config>>

\* Mutant: one of the two limits is not validated.
LimitsValidOne == \E o \in LimitOption : config[o] # 0

LimitsValid == \A o \in LimitOption : config[o] # 0

\* The end of the text, anywhere: the limits are looked at when all is read.
EndOfText ==
    /\ load = "reading"
    /\ load' = IF LimitsValid THEN "loaded" ELSE "failed"
    /\ UNCHANGED <<text, current_section, config>>

LoadFromString ==
    \/ \E line \in Line : \/ SkipLine(line) \/ EnterSection(line)
                          \/ AssignValue(line) \/ RejectLine(line)
    \/ EndOfText

-----------------------------------------------------------------------------
(* The meaning of a text, taken as a whole.                                *)

\* Line i lies in section s: that is the last header's name.
LiesIn(i, s) ==
    \E j \in 1 .. i :
        /\ text[j].kind = "header" /\ text[j].name = s
        /\ \A k \in j + 1 .. i : text[k].kind # "header"

Assigns(i, o) ==
    text[i].kind = "assignment" /\ LiesIn(i, o.section) /\ text[i].name = o.key

\* v is what the text says of o: the last assignment to it, wherever its
\* section was opened, or the default.
Means(o, v) ==
    \/ \E i \in 1 .. Len(text) :
          /\ Assigns(i, o) /\ v = Parsed(o.key, text[i].value)
          /\ \A k \in i + 1 .. Len(text) : ~Assigns(k, o)
    \/ v = Default[o.key] /\ \A i \in 1 .. Len(text) : ~Assigns(i, o)

LineFits(i) ==
    \/ text[i].kind = "blank"
    \/ text[i].kind = "header" /\ text[i].name # Empty
    \/ \E o \in Option : Assigns(i, o) /\ Accepts(o.key, text[i].value)

TextFits ==
    /\ \A i \in 1 .. Len(text) : LineFits(i)
    /\ \A o \in LimitOption : ~Means(o, 0)

-----------------------------------------------------------------------------
(* Properties.                                                             *)

\* What an option's value may be; a limit is 0 only until it is validated.
ValueOf(key) ==
    CASE key \in BoolKey -> BOOLEAN
      [] key \in Uint32Key -> 0 .. Uint32Max
      [] key \in Uint64Key -> 0 .. Uint64Max
      [] key = "ports" -> SUBSET PortNumber
      [] key \in TextKey -> Seq(Token)

LoaderTypeOK ==
    /\ text \in Seq(Line) /\ Len(text) <= LineBound
    /\ current_section \in Name \cup {Empty}
    /\ DOMAIN config = Option
    /\ \A o \in Option : config[o] \in ValueOf(o.key)
    /\ load \in {"reading", "loaded", "failed"}

\* The last assignment to an option counts, in whatever part of its section it
\* stands, and replaces the ones before it, lists included; an option that is
\* not assigned has its default (lines 146, 405-449).
LastAssignmentCounts ==
    load # "failed" => \A o \in Option : Means(o, config[o])

\* The loader accepts a text exactly when every line of it fits and no limit is
\* 0 in the end; a limit of 0 that a later line corrects is no error
\* (lines 400-460).
AcceptsWhatFits == load # "reading" => (load = "loaded" <=> TextFits)
=============================================================================
