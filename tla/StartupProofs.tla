---------------------------- MODULE StartupProofs ----------------------------
(***************************************************************************)
(* The loader reads a text as it is meant, for every set of lines, and     *)
(* what starts runs with what the text says.  The invariant ties the       *)
(* section and the configuration in hand to the lines read so far; each    *)
(* step adds one line, and what the lines before it mean does not change.  *)
(***************************************************************************)
EXTENDS Startup, TLAPS

-----------------------------------------------------------------------------
(* Values.                                                                 *)

\* A key has one type.
LEMMA OneType ==
    ASSUME NEW key \in Key
    PROVE  /\ key \in BoolKey => /\ key \notin Uint32Key \cup Uint64Key
                                 /\ key # "ports" /\ key \notin TextKey
           /\ key \in Uint32Key => /\ key \notin Uint64Key /\ key # "ports"
                                   /\ key \notin TextKey
           /\ key \in Uint64Key => key # "ports" /\ key \notin TextKey
           /\ key = "ports" => key \notin TextKey
BY DEF BoolKey, LimitKey, Uint32Key, Uint64Key, TextKey

\* An accepted value parses to a value of the option's type.
LEMMA ParsedFits ==
    ASSUME NEW key \in Key, NEW value \in Seq(Token), Accepts(key, value)
    PROVE  Parsed(key, value) \in ValueOf(key)
<1>1. CASE key \in BoolKey
  <2>0. /\ key \notin Uint32Key /\ key \notin Uint64Key
        /\ key # "ports" /\ key \notin TextKey
    BY <1>1, OneType
  <2>1. ValueOf(key) = BOOLEAN
    BY <1>1, <2>0 DEF ValueOf
  <2>2. Parsed(key, value) = (value \in TrueWord)
    BY <1>1, <2>0 DEF Parsed
  <2> QED  BY <2>1, <2>2
<1>2. CASE key \in Uint32Key
  <2>0. /\ key \notin BoolKey /\ key \notin Uint64Key
        /\ key # "ports" /\ key \notin TextKey
    BY <1>2, OneType
  <2>1. Spells(value, Uint32Max)
    BY <1>2, <2>0 DEF Accepts
  <2>2. Parsed(key, value) = NumberOf[value[1]]
    BY <1>2, <2>0 DEF Parsed
  <2>3. ValueOf(key) = 0 .. Uint32Max
    BY <1>2, <2>0 DEF ValueOf
  <2> QED  BY <2>1, <2>2, <2>3 DEF Spells
<1>3. CASE key \in Uint64Key
  <2>0. /\ key \notin BoolKey /\ key \notin Uint32Key
        /\ key # "ports" /\ key \notin TextKey
    BY <1>3, OneType
  <2>1. Spells(value, Uint64Max)
    BY <1>3, <2>0 DEF Accepts
  <2>2. Parsed(key, value) = NumberOf[value[1]]
    BY <1>3, <2>0 DEF Parsed
  <2>3. ValueOf(key) = 0 .. Uint64Max
    BY <1>3, <2>0 DEF ValueOf
  <2> QED  BY <2>1, <2>2, <2>3 DEF Spells
<1>4. CASE key = "ports"
  <2>0. /\ key \notin BoolKey /\ key \notin Uint32Key
        /\ key \notin Uint64Key /\ key \notin TextKey
    BY <1>4, OneType
  <2>1. SpellsPorts(value)
    BY <1>4, <2>0 DEF Accepts
  <2>2. Parsed(key, value) = {NumberOf[value[i]] : i \in 1 .. Len(value)}
    BY <1>4, <2>0 DEF Parsed
  <2>3. ValueOf(key) = SUBSET PortNumber
    BY <1>4, <2>0 DEF ValueOf
  <2>4. {NumberOf[value[i]] : i \in 1 .. Len(value)} \in SUBSET PortNumber
    BY <2>1 DEF SpellsPorts
  <2> QED  BY <2>2, <2>3, <2>4
<1>5. CASE key \in TextKey
  <2>0. /\ key \notin BoolKey /\ key \notin Uint32Key
        /\ key \notin Uint64Key /\ key # "ports"
    BY <1>5, OneType
  <2>1. ValueOf(key) = Seq(Token) /\ Parsed(key, value) = value
    BY <1>5, <2>0 DEF Parsed, ValueOf
  <2> QED  BY <2>1
<1> QED  BY <1>1, <1>2, <1>3, <1>4, <1>5 DEF Key

\* So is every default.
LEMMA DefaultFits ==
    ASSUME NEW key \in Key
    PROVE  Default[key] \in ValueOf(key)
<1>1. CASE key \in BoolKey
  <2>0. /\ key \notin Uint32Key /\ key \notin Uint64Key
        /\ key # "ports" /\ key \notin TextKey
    BY <1>1, OneType
  <2>1. ValueOf(key) = BOOLEAN
    BY <1>1, <2>0 DEF ValueOf
  <2>2. /\ Default["enabled"] = TRUE /\ Default["promiscuous"] = TRUE
        /\ Default["require_dcid_match"] = TRUE
        /\ Default["allow_short_header_without_known_dcid"] = FALSE
    BY DEF Default
  <2>3. Default[key] \in BOOLEAN
    BY <1>1, <2>2 DEF BoolKey
  <2> QED  BY <2>1, <2>3
<1>2. CASE key \in Uint32Key
  <2>0. /\ key \notin BoolKey /\ key \notin Uint64Key
        /\ key # "ports" /\ key \notin TextKey
    BY <1>2, OneType
  <2>1. ValueOf(key) = 0 .. Uint32Max
    BY <1>2, <2>0 DEF ValueOf
  <2>2. /\ Default["default_snaplen"] = 65535
        /\ Default["max_capture_len"] = 65535
        /\ Default["read_timeout_ms"] = 100
        /\ Default["min_saved_bytes_per_packet"] = 16
        /\ Default["app_data_keep_record_bytes"] = 256
        /\ Default["app_data_continuation_keep_bytes"] = 64
        /\ Default["short_header_keep_packet_bytes"] = 64
    BY DEF Default
  <2>3. Default[key] \in Nat /\ Default[key] <= 65535
    <3>1. CASE key \in LimitKey
      BY <2>2, <3>1 DEF LimitKey
    <3>2. CASE key \notin LimitKey
      BY <1>2, <2>2, <3>2 DEF Uint32Key
    <3> QED  BY <3>1, <3>2
  <2>4. Default[key] \in 0 .. Uint32Max
    BY <2>3, WidthAssumption
  <2> QED  BY <2>1, <2>4
<1>3. CASE key \in Uint64Key
  <2>0. /\ key \notin BoolKey /\ key \notin Uint32Key
        /\ key # "ports" /\ key \notin TextKey
    BY <1>3, OneType
  <2>1. ValueOf(key) = 0 .. Uint64Max
    BY <1>3, <2>0 DEF ValueOf
  <2>2. Default["max_packets"] = 0 /\ Default["duration_sec"] = 0
    BY DEF Default
  <2>3. Default[key] = 0
    BY <1>3, <2>2 DEF Uint64Key
  <2> QED  BY <2>1, <2>3, WidthAssumption
<1>4. CASE key = "ports"
  <2>0. /\ key \notin BoolKey /\ key \notin Uint32Key
        /\ key \notin Uint64Key /\ key \notin TextKey
    BY <1>4, OneType
  <2>1. ValueOf(key) = SUBSET PortNumber
    BY <1>4, <2>0 DEF ValueOf
  <2>2. Default["ports"] = {443, 8443}
    BY DEF Default
  <2>3. {443, 8443} \subseteq PortNumber
    BY DEF PortNumber
  <2> QED  BY <1>4, <2>1, <2>2, <2>3
<1>5. CASE key \in TextKey
  <2>0. /\ key \notin BoolKey /\ key \notin Uint32Key
        /\ key \notin Uint64Key /\ key # "ports"
    BY <1>5, OneType
  <2>1. ValueOf(key) = Seq(Token)
    BY <1>5, <2>0 DEF ValueOf
  <2>2. /\ Default["backend"] = <<"npcap">>
        /\ Default["output"] = <<"output.pcap">>
        /\ Default["app_data_continuation_policy"] = <<"final_only">>
    BY DEF Default
  <2>5. Default["interface"] = <<Empty>>
    BY DEF Default
  <2>3. \A t \in Token : <<t>> \in Seq(Token)
    OBVIOUS
  <2>4. \E t \in Token : Default[key] = <<t>>
    BY <1>5, <2>2, <2>5, TokenAssumption DEF TextKey
  <2> QED  BY <2>1, <2>3, <2>4
<1> QED  BY <1>1, <1>2, <1>3, <1>4, <1>5 DEF Key

-----------------------------------------------------------------------------
(* What one more line changes.                                             *)

\* A text of n lines gets another one.
Adds(line, n) ==
    /\ text \in Seq(Line) /\ line \in Line
    /\ n \in Nat /\ n = Len(text)
    /\ text' = Append(text, line)

\* The lines before the added one keep their places.
LEMMA AddedLine ==
    ASSUME NEW line, NEW n, Adds(line, n)
    PROVE  /\ text' \in Seq(Line) /\ Len(text') = n + 1
           /\ text'[n + 1] = line
           /\ \A i \in 1 .. n : text'[i] = text[i]
BY DEF Adds

\* Where they lie does not change.
LEMMA LiesInKept ==
    ASSUME NEW line, NEW n, Adds(line, n), NEW i \in 1 .. n, NEW s
    PROVE  LiesIn(i, s)' <=> LiesIn(i, s)
<1>1. \A j \in 1 .. i : j \in 1 .. n
  BY DEF Adds
<1>2. \A j \in 1 .. i : \A k \in j + 1 .. i : k \in 1 .. n
  BY DEF Adds
<1> QED  BY <1>1, <1>2, AddedLine DEF LiesIn

\* The last line lies in its own section if it is a header, and where the line
\* before it lies otherwise.
LEMMA LiesInAdded ==
    ASSUME NEW line, NEW n, Adds(line, n), NEW s
    PROVE  LiesIn(n + 1, s)' <=>
             IF line.kind = "header" THEN line.name = s ELSE LiesIn(n, s)
<1>1. n \in Nat
  BY DEF Adds
<1>2. CASE line.kind = "header"
  <2>1. ASSUME LiesIn(n + 1, s)'  PROVE line.name = s
    <3>1. PICK j \in 1 .. n + 1 :
            /\ text'[j].kind = "header" /\ text'[j].name = s
            /\ \A k \in j + 1 .. n + 1 : text'[k].kind # "header"
      BY <2>1 DEF LiesIn
    <3>2. j = n + 1
      BY <1>1, <1>2, <3>1, AddedLine
    <3> QED  BY <3>1, <3>2, AddedLine
  <2>2. ASSUME line.name = s  PROVE LiesIn(n + 1, s)'
    <3>1. /\ n + 1 \in 1 .. n + 1
          /\ text'[n + 1].kind = "header" /\ text'[n + 1].name = s
          /\ \A k \in (n + 1) + 1 .. n + 1 : text'[k].kind # "header"
      BY <1>1, <1>2, <2>2, AddedLine
    <3> QED  BY <3>1 DEF LiesIn
  <2> QED  BY <1>2, <2>1, <2>2
<1>3. CASE line.kind # "header"
  <2>1. ASSUME LiesIn(n + 1, s)'  PROVE LiesIn(n, s)
    <3>1. PICK j \in 1 .. n + 1 :
            /\ text'[j].kind = "header" /\ text'[j].name = s
            /\ \A k \in j + 1 .. n + 1 : text'[k].kind # "header"
      BY <2>1 DEF LiesIn
    <3>2. j \in 1 .. n
      BY <1>1, <1>3, <3>1, AddedLine
    <3>3. \A k \in j + 1 .. n : k \in 1 .. n /\ k \in j + 1 .. n + 1
      BY <1>1, <3>2
    <3> QED  BY <3>1, <3>2, <3>3, AddedLine DEF LiesIn
  <2>2. ASSUME LiesIn(n, s)  PROVE LiesIn(n + 1, s)'
    <3>1. PICK j \in 1 .. n :
            /\ text[j].kind = "header" /\ text[j].name = s
            /\ \A k \in j + 1 .. n : text[k].kind # "header"
      BY <2>2 DEF LiesIn
    <3>2. j \in 1 .. n + 1
      BY <1>1, <3>1
    <3>3. \A k \in j + 1 .. n + 1 :
             k = n + 1 \/ (k \in j + 1 .. n /\ k \in 1 .. n)
      BY <1>1, <3>1
    <3>4. \A k \in j + 1 .. n + 1 : text'[k].kind # "header"
      BY <1>3, <3>1, <3>3, AddedLine
    <3> QED  BY <3>1, <3>2, <3>4, AddedLine DEF LiesIn
  <2> QED  BY <1>3, <2>1, <2>2
<1> QED  BY <1>2, <1>3

\* Nor does what they assign.
LEMMA AssignsKept ==
    ASSUME NEW line, NEW n, Adds(line, n), NEW i \in 1 .. n, NEW o
    PROVE  Assigns(i, o)' <=> Assigns(i, o)
BY AddedLine, LiesInKept DEF Assigns

\* The section in hand is the one the last line lies in.
SectionSound ==
    load # "failed" =>
        \A s \in Section : LiesIn(Len(text), s) <=> s = current_section

\* The added line assigns what the section in hand makes of it.
LEMMA AssignsAdded ==
    ASSUME NEW line, NEW n, Adds(line, n), SectionSound, load = "reading",
           NEW o \in Option
    PROVE  Assigns(n + 1, o)' <=> line.kind = "assignment" /\ o = Target(line)
<1>1. o \in [section : Section, key : Key]
  BY DEF Option
<1>2. o = Target(line) <=> o.section = current_section /\ o.key = line.name
  BY <1>1 DEF Target
<1>3. CASE line.kind = "assignment"
  <2>1. LiesIn(n + 1, o.section)' <=> LiesIn(n, o.section)
    BY <1>3, LiesInAdded
  <2>2. LiesIn(n, o.section) <=> o.section = current_section
    BY <1>1 DEF SectionSound, Adds
  <2> QED  BY <1>2, <1>3, <2>1, <2>2, AddedLine DEF Assigns
<1>4. CASE line.kind # "assignment"
  BY <1>4, AddedLine DEF Assigns
<1> QED  BY <1>3, <1>4

\* The added line has the last word on the option it assigns.
LEMMA MeansAdded ==
    ASSUME NEW line, NEW n, Adds(line, n), NEW o, NEW v
    PROVE  Means(o, v)' <=>
             IF Assigns(n + 1, o)' THEN v = Parsed(o.key, line.value)
             ELSE Means(o, v)
<1>1. n \in Nat /\ Len(text) = n /\ Len(text') = n + 1
  BY AddedLine DEF Adds
<1>2. CASE Assigns(n + 1, o)'
  <2>1. ASSUME Means(o, v)'  PROVE v = Parsed(o.key, line.value)
    <3>1. ~\A i \in 1 .. n + 1 : ~Assigns(i, o)'
      BY <1>1, <1>2
    <3>2. PICK i \in 1 .. n + 1 :
            /\ Assigns(i, o)' /\ v = Parsed(o.key, text'[i].value)
            /\ \A k \in i + 1 .. n + 1 : ~Assigns(k, o)'
      BY <1>1, <2>1, <3>1 DEF Means
    <3>3. i = n + 1
      BY <1>1, <1>2, <3>2
    <3> QED  BY <3>2, <3>3, AddedLine
  <2>2. ASSUME v = Parsed(o.key, line.value)  PROVE Means(o, v)'
    <3>1. n + 1 \in 1 .. n + 1 /\ v = Parsed(o.key, text'[n + 1].value)
      BY <1>1, <2>2, AddedLine
    <3>2. \A k \in (n + 1) + 1 .. n + 1 : ~Assigns(k, o)'
      BY <1>1
    <3> QED  BY <1>1, <1>2, <3>1, <3>2 DEF Means
  <2> QED  BY <1>2, <2>1, <2>2
<1>3. CASE ~Assigns(n + 1, o)'
  <2>1. \A i \in 1 .. n : /\ Assigns(i, o)' <=> Assigns(i, o)
                         /\ text'[i] = text[i]
    BY AssignsKept, AddedLine
  <2>2. (\A i \in 1 .. n + 1 : ~Assigns(i, o)')
          <=> \A i \in 1 .. n : ~Assigns(i, o)
    BY <1>1, <1>3, <2>1
  <2>3. ASSUME NEW i \in 1 .. n
        PROVE  (\A k \in i + 1 .. n + 1 : ~Assigns(k, o)')
                 <=> \A k \in i + 1 .. n : ~Assigns(k, o)
    <3>1. \A k \in i + 1 .. n + 1 : k = n + 1 \/ k \in i + 1 .. n
      BY <1>1
    <3>2. \A k \in i + 1 .. n : k \in 1 .. n /\ k \in i + 1 .. n + 1
      BY <1>1
    <3> QED  BY <1>3, <2>1, <3>1, <3>2
  <2> DEFINE Last(i) == /\ Assigns(i, o) /\ v = Parsed(o.key, text[i].value)
                        /\ \A k \in i + 1 .. n : ~Assigns(k, o)
             LastAfter(i) == /\ Assigns(i, o)'
                             /\ v = Parsed(o.key, text'[i].value)
                             /\ \A k \in i + 1 .. n + 1 : ~Assigns(k, o)'
  <2>4. \A i \in 1 .. n : LastAfter(i) <=> Last(i)
    BY <2>1, <2>3
  <2>5. ~LastAfter(n + 1)
    BY <1>3
  <2> HIDE DEF Last, LastAfter
  <2>6. (\E i \in 1 .. n + 1 : LastAfter(i)) <=> \E i \in 1 .. n : Last(i)
    BY <1>1, <2>4, <2>5
  <2> USE DEF Last, LastAfter
  <2>7. Means(o, v)' <=> \/ \E i \in 1 .. n + 1 : LastAfter(i)
                         \/ /\ v = Default[o.key]
                            /\ \A i \in 1 .. n + 1 : ~Assigns(i, o)'
    BY <1>1 DEF Means
  <2>8. Means(o, v) <=> \/ \E i \in 1 .. n : Last(i)
                        \/ /\ v = Default[o.key]
                           /\ \A i \in 1 .. n : ~Assigns(i, o)
    BY <1>1 DEF Means
  <2> HIDE DEF Last, LastAfter
  <2> QED  BY <1>3, <2>2, <2>6, <2>7, <2>8
<1> QED  BY <1>2, <1>3

\* A text says one thing of an option.
LEMMA MeansOnce ==
    ASSUME text \in Seq(Line), NEW o, NEW v, NEW w, Means(o, v), Means(o, w)
    PROVE  v = w
<1>1. Len(text) \in Nat
  OBVIOUS
<1>2. CASE \A i \in 1 .. Len(text) : ~Assigns(i, o)
  BY <1>2 DEF Means
<1>3. CASE ~\A i \in 1 .. Len(text) : ~Assigns(i, o)
  <2>1. PICK i \in 1 .. Len(text) :
          /\ Assigns(i, o) /\ v = Parsed(o.key, text[i].value)
          /\ \A k \in i + 1 .. Len(text) : ~Assigns(k, o)
    BY <1>3 DEF Means
  <2>2. PICK j \in 1 .. Len(text) :
          /\ Assigns(j, o) /\ w = Parsed(o.key, text[j].value)
          /\ \A k \in j + 1 .. Len(text) : ~Assigns(k, o)
    BY <1>3 DEF Means
  <2>3. j \notin i + 1 .. Len(text) /\ i \notin j + 1 .. Len(text)
    BY <2>1, <2>2
  <2>4. i = j
    BY <1>1, <2>3
  <2> QED  BY <2>1, <2>2, <2>4
<1> QED  BY <1>2, <1>3

\* A line that fits goes on fitting.
LEMMA FitsKept ==
    ASSUME NEW line, NEW n, Adds(line, n), NEW i \in 1 .. n
    PROVE  LineFits(i)' <=> LineFits(i)
BY AssignsKept, AddedLine DEF LineFits

\* Whether the added line fits.
LEMMA FitsAdded ==
    ASSUME NEW line, NEW n, Adds(line, n), SectionSound, load = "reading"
    PROVE  LineFits(n + 1)' <=>
             \/ line.kind = "blank"
             \/ line.kind = "header" /\ line.name # Empty
             \/ Assignable(line)
<1>1. (\E o \in Option : Assigns(n + 1, o)' /\ Accepts(o.key, line.value))
        <=> Assignable(line)
  <2>1. Target(line).key = line.name
    BY DEF Target
  <2>2. \A o \in Option : Assigns(n + 1, o)' <=>
                            line.kind = "assignment" /\ o = Target(line)
    BY AssignsAdded
  <2> QED  BY <2>1, <2>2 DEF Assignable
<1>2. text'[n + 1] = line
  BY AddedLine
<1> QED  BY <1>1, <1>2 DEF LineFits

-----------------------------------------------------------------------------
(* The loader's invariant.                                                 *)

LinesSound == load # "failed" => \A i \in 1 .. Len(text) : LineFits(i)
LimitsSound == load = "loaded" => LimitsValid

LoaderInv ==
    /\ LoaderTypeOK /\ SectionSound /\ LinesSound /\ LastAssignmentCounts
    /\ LimitsSound /\ AcceptsWhatFits

\* Before the first line every option has its default.
LEMMA LoaderInitInv == LoaderInit => LoaderInv
<1> SUFFICES ASSUME LoaderInit  PROVE LoaderInv
  OBVIOUS
<1>1. text = <<>> /\ Len(text) = 0 /\ load = "reading"
  BY DEF LoaderInit
<1>2. \A o \in Option : config[o] = Default[o.key] /\ o.key \in Key
  BY DEF LoaderInit, Option
<1>3. LoaderTypeOK
  <2>1. \A o \in Option : config[o] \in ValueOf(o.key)
    BY <1>2, DefaultFits
  <2>2. DOMAIN config = Option
    BY DEF LoaderInit
  <2>3. current_section \in Name \cup {Empty}
    BY DEF LoaderInit
  <2>4. text \in Seq(Line) /\ Len(text) <= LineBound
    BY <1>1, LineAssumption
  <2> QED  BY <1>1, <2>1, <2>2, <2>3, <2>4 DEF LoaderTypeOK
<1>4. SectionSound
  <2>1. \A s : ~LiesIn(0, s)
    BY DEF LiesIn
  <2>2. current_section \notin Section
    BY EmptyAssumption DEF LoaderInit
  <2> QED  BY <1>1, <2>1, <2>2 DEF SectionSound
<1>5. LinesSound /\ LimitsSound /\ AcceptsWhatFits
  BY <1>1 DEF LinesSound, LimitsSound, AcceptsWhatFits
<1>6. LastAssignmentCounts
  BY <1>1, <1>2 DEF LastAssignmentCounts, Means
<1> QED  BY <1>3, <1>4, <1>5, <1>6 DEF LoaderInv

\* What the steps that read a line have in common.
LEMMA LineRead ==
    ASSUME LoaderInv, NEW line \in Line, GetLine(line)
    PROVE  \E n \in Nat : Adds(line, n) /\ n < LineBound
<1>1. text \in Seq(Line) /\ Len(text) \in Nat
  BY DEF LoaderInv, LoaderTypeOK
<1> QED  BY <1>1 DEF GetLine, Adds

\* A line that fits and assigns nothing leaves every meaning as it was.
LEMMA QuietLine ==
    ASSUME LoaderInv, load = "reading", NEW line, NEW n, Adds(line, n),
           line.kind # "assignment", UNCHANGED config
    PROVE  LastAssignmentCounts'
<1>1. \A o \in Option : ~Assigns(n + 1, o)'
  BY AssignsAdded DEF LoaderInv
<1>2. \A o \in Option : Means(o, config[o])
  BY DEF LoaderInv, LastAssignmentCounts
<1>3. ASSUME NEW o \in Option  PROVE Means(o, config[o])'
  <2>1. PICK v : v = config[o]
    OBVIOUS
  <2>2. Means(o, v)' <=> Means(o, v)
    BY <1>1, MeansAdded
  <2>3. Means(o, v)'
    BY <1>2, <2>1, <2>2
  <2>4. v = config[o]'
    BY <2>1
  <2> QED  BY <2>3, <2>4 DEF Means
<1> QED  BY <1>3 DEF LastAssignmentCounts

\* An assignment that fits changes what its option means, and only that.
LEMMA AssignedLine ==
    ASSUME LoaderInv, load = "reading", NEW line, NEW n, Adds(line, n),
           Assignable(line),
           config' = [config EXCEPT ![Target(line)] =
                                       Parsed(line.name, line.value)]
    PROVE  LastAssignmentCounts'
<1>1. \A o \in Option : Assigns(n + 1, o)' <=> o = Target(line)
  BY AssignsAdded DEF LoaderInv, Assignable
<1>2. \A o \in Option : Means(o, config[o])
  BY DEF LoaderInv, LastAssignmentCounts
<1>3. DOMAIN config = Option /\ Target(line) \in Option
  BY DEF LoaderInv, LoaderTypeOK, Assignable
<1>4. Target(line).key = line.name
  BY DEF Target
<1>5. ASSUME NEW o \in Option  PROVE Means(o, config[o])'
  <2>1. PICK v : v = config'[o]
    OBVIOUS
  <2>2. Means(o, v)'
    <3>1. CASE o = Target(line)
      <4>1. v = Parsed(o.key, line.value)
        BY <1>3, <1>4, <2>1, <3>1
      <4> QED  BY <1>1, <3>1, <4>1, MeansAdded
    <3>2. CASE o # Target(line)
      <4>1. v = config[o]
        BY <1>3, <2>1, <3>2
      <4>2. Means(o, v)' <=> Means(o, v)
        BY <1>1, <3>2, MeansAdded
      <4> QED  BY <1>2, <4>1, <4>2
    <3> QED  BY <3>1, <3>2
  <2>3. v = config[o]'
    BY <2>1
  <2> QED  BY <2>2, <2>3 DEF Means
<1> QED  BY <1>5 DEF LastAssignmentCounts

\* The lines fit, with one more that does.
LEMMA FittingLine ==
    ASSUME LoaderInv, load = "reading", NEW line, NEW n, Adds(line, n),
           LineFits(n + 1)'
    PROVE  LinesSound'
<1>1. \A i \in 1 .. n : LineFits(i)
  BY DEF LoaderInv, LinesSound, Adds
<1>2. \A i \in 1 .. n : LineFits(i)'
  BY <1>1, FitsKept
<1>3. n \in Nat /\ Len(text') = n + 1
  BY AddedLine DEF Adds
<1> QED  BY <1>2, <1>3 DEF LinesSound

\* The last line's section, whether a header has just opened it or not.
LEMMA SectionKept ==
    ASSUME LoaderInv, load = "reading", NEW line, NEW n, Adds(line, n),
           current_section' = IF line.kind = "header" THEN line.name
                              ELSE current_section
    PROVE  SectionSound'
<1>1. \A s \in Section : LiesIn(n, s) <=> s = current_section
  BY DEF LoaderInv, SectionSound, Adds
<1>2. Len(text') = n + 1
  BY AddedLine
<1>3. \A s \in Section : LiesIn(n + 1, s)' <=> s = current_section'
  BY <1>1, LiesInAdded
<1>4. (n + 1)' = n + 1
  OBVIOUS
<1> QED  BY <1>2, <1>3 DEF SectionSound, LiesIn

\* The end of the text: whether a limit means 0 is whether it is 0.
LEMMA LimitsMeant ==
    ASSUME LoaderInv, load # "failed"
    PROVE  LimitsValid <=> \A o \in LimitOption : ~Means(o, 0)
<1>1. \A o \in LimitOption : Means(o, config[o])
  BY DEF LoaderInv, LastAssignmentCounts, LimitOption
<1>2. text \in Seq(Line)
  BY DEF LoaderInv, LoaderTypeOK
<1>3. \A o \in LimitOption : Means(o, 0) <=> config[o] = 0
  BY <1>1, <1>2, MeansOnce
<1> QED  BY <1>3 DEF LimitsValid

\* Each step of the loader keeps all of it.
LEMMA LoaderNextInv ==
    LoaderInv /\ [LoadFromString]_loaderVars => LoaderInv'
<1> SUFFICES ASSUME LoaderInv, [LoadFromString]_loaderVars  PROVE LoaderInv'
  OBVIOUS
<1> USE DEF LoaderInv
<1>1. ASSUME NEW line \in Line, GetLine(line)
      PROVE  /\ text' \in Seq(Line) /\ Len(text') <= LineBound
             /\ line.name \in Name /\ line.value \in Seq(Token)
  <2>1. PICK n \in Nat : Adds(line, n) /\ n < LineBound
    BY <1>1, LineRead
  <2>2. text' \in Seq(Line) /\ Len(text') <= LineBound
    BY <2>1, AddedLine, LineAssumption
  <2> QED  BY <2>2, LineAssumption
<1>2. ASSUME NEW line \in Line, SkipLine(line)  PROVE LoaderInv'
  <2>1. GetLine(line) /\ line.kind = "blank" /\ load = "reading"
        /\ UNCHANGED <<current_section, config, load>>
    BY <1>2 DEF SkipLine, GetLine
  <2>2. PICK n \in Nat : Adds(line, n)
    BY <2>1, LineRead
  <2>3. LoaderTypeOK'
    BY <1>1, <2>1 DEF LoaderTypeOK
  <2>4. SectionSound'
    BY <2>1, <2>2, SectionKept
  <2>5. LinesSound'
    BY <2>1, <2>2, FittingLine, FitsAdded
  <2>6. LastAssignmentCounts'
    BY <2>1, <2>2, QuietLine
  <2>7. LimitsSound' /\ AcceptsWhatFits'
    BY <2>1 DEF LimitsSound, AcceptsWhatFits
  <2> QED  BY <2>3, <2>4, <2>5, <2>6, <2>7
<1>3. ASSUME NEW line \in Line, EnterSection(line)  PROVE LoaderInv'
  <2>1. GetLine(line) /\ line.kind = "header" /\ line.name # Empty
        /\ load = "reading" /\ current_section' = line.name
        /\ UNCHANGED <<config, load>>
    BY <1>3 DEF EnterSection, GetLine
  <2>2. PICK n \in Nat : Adds(line, n)
    BY <2>1, LineRead
  <2>3. LoaderTypeOK'
    BY <1>1, <2>1 DEF LoaderTypeOK
  <2>4. SectionSound'
    BY <2>1, <2>2, SectionKept
  <2>5. LinesSound'
    BY <2>1, <2>2, FittingLine, FitsAdded
  <2>6. LastAssignmentCounts'
    BY <2>1, <2>2, QuietLine
  <2>7. LimitsSound' /\ AcceptsWhatFits'
    BY <2>1 DEF LimitsSound, AcceptsWhatFits
  <2> QED  BY <2>3, <2>4, <2>5, <2>6, <2>7
<1>4. ASSUME NEW line \in Line, AssignValue(line)  PROVE LoaderInv'
  <2>1. GetLine(line) /\ Assignable(line) /\ line.kind = "assignment"
        /\ load = "reading" /\ UNCHANGED <<current_section, load>>
        /\ config' = [config EXCEPT ![Target(line)] =
                                        Parsed(line.name, line.value)]
    BY <1>4 DEF AssignValue, GetLine, Assignable
  <2>2. PICK n \in Nat : Adds(line, n)
    BY <2>1, LineRead
  <2>3. LoaderTypeOK'
    <3>1. /\ DOMAIN config = Option
          /\ \A o \in Option : config[o] \in ValueOf(o.key)
      BY DEF LoaderTypeOK
    <3>2. Target(line) \in Option /\ Target(line).key = line.name
          /\ line.name \in Key /\ Accepts(line.name, line.value)
      BY <2>1 DEF Assignable, Target, Option
    <3>3. Parsed(line.name, line.value) \in ValueOf(line.name)
      BY <1>1, <2>1, <3>2, ParsedFits
    <3>4. DOMAIN config' = Option
      BY <2>1, <3>1
    <3>5. \A o \in Option : config'[o] \in ValueOf(o.key)
      BY <2>1, <3>1, <3>2, <3>3
    <3> QED  BY <1>1, <2>1, <3>4, <3>5 DEF LoaderTypeOK
  <2>4. SectionSound'
    BY <2>1, <2>2, SectionKept
  <2>5. LinesSound'
    BY <2>1, <2>2, FittingLine, FitsAdded
  <2>6. LastAssignmentCounts'
    BY <2>1, <2>2, AssignedLine
  <2>7. LimitsSound' /\ AcceptsWhatFits'
    BY <2>1 DEF LimitsSound, AcceptsWhatFits
  <2> QED  BY <2>3, <2>4, <2>5, <2>6, <2>7
<1>5. ASSUME NEW line \in Line, RejectLine(line)  PROVE LoaderInv'
  <2>1. GetLine(line) /\ load = "reading" /\ load' = "failed"
        /\ UNCHANGED <<current_section, config>>
    BY <1>5 DEF RejectLine, GetLine
  <2>2. PICK n \in Nat : Adds(line, n)
    BY <2>1, LineRead
  <2>3. LoaderTypeOK'
    BY <1>1, <2>1 DEF LoaderTypeOK
  <2>4. ~LineFits(n + 1)'
    <3>1. ~(\/ line.kind = "blank"
            \/ line.kind = "header" /\ line.name # Empty
            \/ Assignable(line))
      BY <1>5 DEF RejectLine, Assignable
    <3> QED  BY <2>1, <2>2, <3>1, FitsAdded
  <2>5. n + 1 \in 1 .. Len(text')
    BY <2>2, AddedLine
  <2>6. ~TextFits'
    BY <2>4, <2>5 DEF TextFits
  <2>7. AcceptsWhatFits'
    BY <2>1, <2>6 DEF AcceptsWhatFits
  <2>8. SectionSound' /\ LinesSound' /\ LastAssignmentCounts' /\ LimitsSound'
    BY <2>1 DEF SectionSound, LinesSound, LastAssignmentCounts, LimitsSound
  <2> QED  BY <2>3, <2>7, <2>8
<1>6. CASE EndOfText
  <2>1. load = "reading" /\ UNCHANGED <<text, current_section, config>>
        /\ load' = IF LimitsValid THEN "loaded" ELSE "failed"
    BY <1>6 DEF EndOfText
  <2>2. LoaderTypeOK'
    BY <2>1 DEF LoaderTypeOK
  <2>3. /\ \A i, o : Assigns(i, o)' <=> Assigns(i, o)
        /\ \A i : LineFits(i)' <=> LineFits(i)
        /\ \A o, v : Means(o, v)' <=> Means(o, v)
        /\ \A i, s : LiesIn(i, s)' <=> LiesIn(i, s)
    BY <2>1 DEF Assigns, LineFits, Means, LiesIn
  <2>4. LimitsValid' <=> LimitsValid
    BY <2>1 DEF LimitsValid
  <2>5. SectionSound'
    BY <2>1, <2>3 DEF SectionSound, LiesIn
  <2>6. LinesSound' /\ LimitsSound'
    BY <2>1, <2>3, <2>4 DEF LinesSound, LimitsSound, LineFits, Assigns, LiesIn
  <2>7. LastAssignmentCounts'
    BY <2>1, <2>3 DEF LastAssignmentCounts, Means, Assigns, LiesIn
  <2>8. TextFits <=> LimitsValid
    BY <2>1, LimitsMeant DEF TextFits, LinesSound
  <2>9. TextFits' <=> TextFits
    BY <2>1 DEF TextFits, LineFits, Means, Assigns, LiesIn
  <2>10. AcceptsWhatFits'
    BY <2>1, <2>8, <2>9 DEF AcceptsWhatFits
  <2> QED  BY <2>2, <2>5, <2>6, <2>7, <2>10
<1>7. CASE UNCHANGED loaderVars
  BY <1>7 DEF loaderVars, LoaderTypeOK, SectionSound, LinesSound, LimitsSound,
              LastAssignmentCounts, AcceptsWhatFits, TextFits, LimitsValid,
              Means, LineFits, Assigns, LiesIn
<1> QED  BY <1>2, <1>3, <1>4, <1>5, <1>6, <1>7 DEF LoadFromString

-----------------------------------------------------------------------------
(* main.                                                                   *)

\* Nothing goes on with a configuration that is not loaded, or captures without
\* the name of an interface.
Flow ==
    /\ pc \in {"run", "live", "offline"} => load = "loaded"
    /\ pc = "live" => config[Interface] # <<Empty>>

StartupInv == StartupTypeOK /\ LoaderInv /\ Flow

\* The program starts with the defaults, before the first line.
LEMMA StartupInitInv == StartupInit => StartupInv
BY LoaderInitInv DEF StartupInit, StartupInv, StartupTypeOK, Flow, LoaderInv,
                     ProgramCounter

\* While the text is not read on, what is known of it stays known.
LEMMA LoaderIdle ==
    ASSUME LoaderInv, UNCHANGED loaderVars
    PROVE  LoaderInv'
BY LoaderNextInv

\* Every step keeps the invariant: the loader's by LoaderNextInv, main's because
\* it goes on only behind a check of what it needs.
LEMMA StartupNextInv ==
    StartupInv /\ [StartupNext]_<<loaderVars, startupVars>> => StartupInv'
<1> SUFFICES ASSUME StartupInv, [StartupNext]_<<loaderVars, startupVars>>
             PROVE  StartupInv'
  OBVIOUS
<1> USE DEF StartupInv
<1>0. ASSUME UNCHANGED loaderVars
      PROVE  LoaderInv' /\ LoaderTypeOK' /\ load' = load /\ config' = config
  <2>1. LoaderInv'
    BY <1>0, LoaderIdle
  <2> QED  BY <1>0, <2>1 DEF LoaderInv, loaderVars
<1>1. CASE PrintUsage
  BY <1>0, <1>1 DEF PrintUsage, Exit, StartupTypeOK, Flow, ProgramCounter
<1>2. CASE RunListInterfaces
  BY <1>0, <1>2 DEF RunListInterfaces, Exit, StartupTypeOK, Flow,
                    ProgramCounter
<1>3. CASE LoadFromFile
  BY <1>0, <1>3 DEF LoadFromFile, GoTo, Exit, StartupTypeOK, Flow,
                    ProgramCounter
<1>4. CASE LoadText
  <2>1. LoaderInv'
    BY <1>4, LoaderNextInv DEF LoadText
  <2>2. StartupTypeOK'
    BY <1>4, <2>1 DEF LoadText, startupVars, StartupTypeOK, LoaderInv
  <2>3. Flow'
    BY <1>4 DEF LoadText, startupVars, Flow
  <2> QED  BY <2>1, <2>2, <2>3
<1>5. CASE CheckConfig
  BY <1>0, <1>5 DEF CheckConfig, GoTo, Exit, StartupTypeOK, Flow,
                    ProgramCounter
<1>6. CASE RunOfflinePipeline
  BY <1>0, <1>6 DEF RunOfflinePipeline, GoTo, StartupTypeOK, Flow,
                    ProgramCounter
<1>7. CASE RunLiveCapture
  BY <1>0, <1>7 DEF RunLiveCapture, LiveCaptureReady, GoTo, Exit,
                    StartupTypeOK, Flow, ProgramCounter
<1>8. CASE UNCHANGED <<loaderVars, startupVars>>
  BY <1>0, <1>8 DEF startupVars, StartupTypeOK, Flow
<1> QED
  BY <1>1, <1>2, <1>3, <1>4, <1>5, <1>6, <1>7, <1>8 DEF StartupNext

\* The invariant holds whatever the text, the arguments and the machine.
THEOREM StartupAlways == StartupSpec => []StartupInv
<1>1. StartupInit => StartupInv
  BY StartupInitInv
<1>2. StartupInv /\ [StartupNext]_<<loaderVars, startupVars>> => StartupInv'
  BY StartupNextInv
<1> QED  BY <1>1, <1>2, PTL DEF StartupSpec

\* A number that is kept fits the type the configuration has for it, for every
\* width of the two types (ConfigLoader.cpp:84-118).
THEOREM StartupTypeCorrect == StartupSpec => []StartupTypeOK
<1>1. StartupInv => StartupTypeOK
  BY DEF StartupInv
<1> QED  BY <1>1, StartupAlways, PTL

\* For every set of lines a text may be made of, the configuration is what the
\* last assignments say (ConfigLoader.cpp:146, 405-449).
THEOREM LastAssignmentAlwaysCounts == StartupSpec => []LastAssignmentCounts
<1>1. StartupInv => LastAssignmentCounts
  BY DEF StartupInv, LoaderInv
<1> QED  BY <1>1, StartupAlways, PTL

\* The loader accepts the texts that fit, and no others, although it decides
\* line by line (ConfigLoader.cpp:400-460).
THEOREM AcceptsAlwaysWhatFits == StartupSpec => []AcceptsWhatFits
<1>1. StartupInv => AcceptsWhatFits
  BY DEF StartupInv, LoaderInv
<1> QED  BY <1>1, StartupAlways, PTL

\* What runs, runs with a text that was read to its end and fits, and with what
\* that text says (ConfigLoader.cpp:440-460, main.cpp:143-148, 221-230).
THEOREM RunsAlwaysWhatTextSays == StartupSpec => []RunsWhatTextSays
<1>1. ASSUME StartupInv, Started
      PROVE  RunsWhatTextSays
  <2>1. load = "loaded" /\ LoaderInv
    BY <1>1 DEF StartupInv, Flow, Started
  <2>2. TextFits
    BY <2>1 DEF LoaderInv, AcceptsWhatFits
  <2>3. \A o \in Option : Means(o, config[o])
    BY <2>1 DEF LoaderInv, LastAssignmentCounts
  <2>4. ASSUME NEW o \in LimitOption  PROVE config[o] > 0
    <3>1. o \in Option /\ o.key \in LimitKey /\ o.key \in Key
      BY <2>4 DEF LimitOption, Option
    <3>2. o.key \in Uint32Key /\ o.key \notin BoolKey
          /\ o.key \notin Uint64Key /\ o.key # "ports"
          /\ o.key \notin TextKey
      BY <3>1, OneType DEF Uint32Key
    <3>3. ValueOf(o.key) = 0 .. Uint32Max
      BY <3>2 DEF ValueOf
    <3>4. config[o] \in 0 .. Uint32Max
      BY <2>1, <3>1, <3>3 DEF LoaderInv, LoaderTypeOK
    <3>5. config[o] # 0
      BY <2>1, <2>4 DEF LoaderInv, LimitsSound, LimitsValid
    <3> QED  BY <3>4, <3>5
  <2>5. ASSUME pc = "live"  PROVE ~Means(Interface, <<Empty>>)
    <3>1. Interface \in Option
      <4>1. "interface" \in KeysOf["capture"] /\ "capture" \in Section
        BY DEF KeysOf, Section
      <4>2. "interface" \in Key
        BY DEF Key, TextKey
      <4> QED  BY <4>1, <4>2 DEF Interface, Option
    <3>2. Means(Interface, config[Interface])
      BY <2>3, <3>1
    <3>3. config[Interface] # <<Empty>>
      BY <1>1, <2>5 DEF StartupInv, Flow
    <3>4. text \in Seq(Line)
      BY <2>1 DEF LoaderInv, LoaderTypeOK
    <3> QED  BY <3>2, <3>3, <3>4, MeansOnce
  <2> QED  BY <2>2, <2>3, <2>4, <2>5 DEF RunsWhatTextSays
<1>2. StartupInv => RunsWhatTextSays
  BY <1>1 DEF RunsWhatTextSays
<1> QED  BY <1>2, StartupAlways, PTL
=============================================================================
