---------------------------- MODULE StartupProofs ----------------------------
(***************************************************************************)
(* Proofs about the configuration of the server, about the start and the   *)
(* end of the program, and about what clients know of it from one start to *)
(* the next.                                                               *)
(*                                                                         *)
(* The server is configured as it was written: one lemma for each kind of  *)
(* option says that the parser goes past it as its own words mean, if the  *)
(* arguments behind it begin with a name; others say that options put      *)
(* behind one another, from the command line or from a file with or        *)
(* without quotes, are such arguments.                                     *)
(*                                                                         *)
(* It dies on the way for the three reasons EndsInOrder names and no       *)
(* other.  What ends it is a second cleanup, or dnssd where there is none: *)
(* the invariant says that before the end only a failed step cleans up,    *)
(* that without one dnssd is there from its start to the announcements,    *)
(* and that a start without a reset makes one call of reconnect.           *)
(*                                                                         *)
(* What is announced is served: the invariant says how far the server, the *)
(* knowledge it has of dnssd and the announcements are at each step.       *)
(*                                                                         *)
(* Clients stay paired: the invariant names the key that every start comes *)
(* to, and follows a registration into the list and into the file.         *)
(***************************************************************************)
EXTENDS Server, Modular, SequenceTheorems

-----------------------------------------------------------------------------
\* The settings after one more option.
Members == DOMAIN Config!Defaults
Effect(s, l) ==
  [m \in Members |-> IF m \in DOMAIN l.sets THEN l.sets[m]
                     ELSE IF m \in l.turns THEN ~s[m]
                     ELSE IF m \in DOMAIN l.adds THEN Append(s[m], l.adds[m])
                     ELSE s[m]]
AreSettings(s) == s = [m \in Members |-> s[m]]

\* What is behind an option's values, if anything is, is the next one.
IsName(text) == \E name : text = Config!Option(name) /\ name \notin {"", ":"}

\* The parser is at an option.
Reading(l) ==
  /\ outcome = "parsing" /\ AreSettings(settings)
  /\ at \in Nat \ {0} /\ Len(argv) \in Nat /\ Len(l.args) \in Nat \ {0}
  /\ at + Len(l.args) - 1 <= Len(argv)
  /\ \A j \in 1 .. Len(l.args) : argv[at + j - 1] = l.args[j]
  /\ at + Len(l.args) <= Len(argv) => IsName(argv[at + Len(l.args)])

\* It goes past it, as the option says by its own words, or ends.
Passed(l) ==
  \/ /\ l.ok /\ settings' = Effect(settings, l) /\ at' = at + Len(l.args)
     /\ outcome' = IF at + Len(l.args) - 1 >= Len(argv) THEN "done" ELSE "parsing"
     /\ UNCHANGED <<written, source, argv>>
  \/ ~l.ok /\ outcome' \in {"exit", "undefined"} /\ UNCHANGED <<written, source, argv, at, settings>>

\* What the parser makes of an option: what that says, but -r says a flip to
\* it, and what it does not know says nothing.
Heard(l) ==
  IF Config!IsOf(l, "r")
  THEN [args |-> l.args, turns |-> {}, adds |-> <<>>, sets |-> [videoflip |-> Config!Value(l)],
        ok |-> Config!HasValue(l) /\ Config!Value(l) \in Config!Flips]
  ELSE IF Config!IsUnknown(l)
  THEN [args |-> l.args, turns |-> {}, adds |-> <<>>, sets |-> <<>>, ok |-> TRUE]
  ELSE l

-----------------------------------------------------------------------------
\* An option's name is a dash and a text, and no value of any kind.
LEMMA OptionIs ==
  ASSUME NEW name
  PROVE  /\ Config!Dash(Config!Option(name))
         /\ Config!Option(name)[1].text = name
         /\ Config!Option(name)[1].num = <<>>
         /\ Config!get_ports(Config!Option(name)) = <<>>
         /\ \A t : Config!Option(name) # Config!Text(t)
<1> DEFINE c == [Config!Chunk(name) EXCEPT !.dash = TRUE]
<1>1. Config!Option(name) = <<c>>
  BY DEF Config!Option
<1>2. c.dash = TRUE /\ c.text = name /\ c.num = <<>>
  BY DEF Config!Chunk
<1>3. \A t : Config!Text(t)[1].dash = FALSE
  BY DEF Config!Text, Config!Chunk
<1>4. <<c>>[1] = c
  OBVIOUS
<1> HIDE DEF c
<1>5. Config!Option(name)[1] = c
  BY <1>1, <1>4
<1>6. \A t : Config!Option(name) # Config!Text(t)
  BY <1>2, <1>3, <1>5
<1>7. Config!get_ports(Config!Option(name)) = <<>>
  <2>1. Len(Config!Option(name)[1].num) \notin 1 .. 3
    <3>1. Len(Config!Option(name)[1].num) = 0
      BY <1>2, <1>5
    <3> QED BY <3>1
  <2> QED BY <2>1 DEF Config!get_ports
<1> QED BY <1>2, <1>5, <1>6, <1>7 DEF Config!Dash

\* Two options are the same when their names are.
LEMMA OptionsDiffer ==
  ASSUME NEW a, NEW b, Config!Option(a) = Config!Option(b)
  PROVE  a = b
  BY OptionIs

\* A name is no value.
LEMMA NamesAreNot ==
  ASSUME NEW text, IsName(text)
  PROVE  /\ Config!Dash(text) /\ ~Config!IsNumber(text) /\ Config!get_ports(text) = <<>>
         /\ text[1].text \notin {"", ":"} /\ \A t : text # Config!Text(t)
         /\ \A n : Config!get_value(text, n) = <<>>
<1>1. PICK name : text = Config!Option(name) /\ name \notin {"", ":"}
  BY DEF IsName
<1>2. Config!Dash(text) /\ Config!get_ports(text) = <<>> /\ text[1].text \notin {"", ":"}
  BY <1>1, OptionIs
<1>3. \A t : text # Config!Text(t)
  BY <1>1, OptionIs
<1>4. ~Config!IsNumber(text)
  BY <1>2 DEF Config!IsNumber
<1>5. \A n : Config!get_value(text, n) = <<>>
  BY <1>4 DEF Config!get_value
<1> QED BY <1>2, <1>3, <1>4, <1>5

\* An option without a value: nothing behind it is taken for one.
LEMMA NoValue ==
  ASSUME NEW l, Reading(l), Config!Values(l) = 0
  PROVE  /\ ~Config!option_has_value /\ Len(l.args) = 1
         /\ Config!HasNext => IsName(Config!Next1)
<1>1. Len(l.args) = 1
  BY DEF Reading, Config!Values
<1>2. Config!HasNext => IsName(Config!Next1)
  BY <1>1 DEF Reading, Config!HasNext, Config!Next1, Config!argc
<1>3. ~Config!option_has_value
  BY <1>2, NamesAreNot DEF Config!option_has_value
<1> QED BY <1>1, <1>2, <1>3

\* One value is the next argument, and a name is behind it.
LEMMA OneValue ==
  ASSUME NEW l, Reading(l), Config!Values(l) = 1
  PROVE  /\ Config!HasNext /\ Config!Next1 = Config!Value(l) /\ Len(l.args) = 2
         /\ Config!option_has_value <=> ~Config!Dash(Config!Value(l))
         /\ at + 1 < Len(argv) => IsName(argv[at + 2])
<1>1. Len(l.args) = 2
  BY DEF Reading, Config!Values
<1>2. Config!HasNext /\ Config!Next1 = Config!Value(l) /\ (at + 1 < Len(argv) => IsName(argv[at + 2]))
  BY <1>1 DEF Reading, Config!HasNext, Config!Next1, Config!argc, Config!Value
<1>3. Config!option_has_value <=> ~Config!Dash(Config!Value(l))
  BY <1>2 DEF Config!option_has_value
<1> QED BY <1>1, <1>2, <1>3

\* And so are two.
LEMMA TwoValues ==
  ASSUME NEW l, Reading(l), Config!Values(l) = 2
  PROVE  /\ Config!HasNext /\ Config!Next1 = Config!Value(l) /\ Len(l.args) = 3
         /\ at + 1 < Len(argv) /\ argv[at + 2] = l.args[3]
         /\ Config!option_has_value <=> ~Config!Dash(Config!Value(l))
<1>1. Len(l.args) = 3
  BY DEF Reading, Config!Values
<1>2. /\ Config!HasNext /\ Config!Next1 = Config!Value(l)
      /\ at + 1 < Len(argv) /\ argv[at + 2] = l.args[3]
  BY <1>1 DEF Reading, Config!HasNext, Config!Next1, Config!argc, Config!Value
<1>3. Config!option_has_value <=> ~Config!Dash(Config!Value(l))
  BY <1>2 DEF Config!option_has_value
<1> QED BY <1>1, <1>2, <1>3

\* The name the parser looks at is the option's.
LEMMA AtIs ==
  ASSUME NEW l, Reading(l), NEW name
  PROVE  Config!At(name) <=> Config!IsOf(l, name)
<1>1. argv[at] = l.args[1] /\ at <= Len(argv)
  <2>1. 1 \in 1 .. Len(l.args)
    BY DEF Reading
  <2>2. argv[at + 1 - 1] = l.args[1]
    BY <2>1 DEF Reading
  <2> QED BY <2>2 DEF Reading
<1> QED BY <1>1 DEF Reading, Config!At, Config!IsOf, Config!argc

\* Most options are heard as they were said.
LEMMA HeardArgs ==
  ASSUME NEW l
  PROVE  Heard(l).args = l.args
  BY DEF Heard

LEMMA HeardAsSaid ==
  ASSUME NEW l, Reading(l), NEW name \in Config!Known, name # "r", Config!At(name)
  PROVE  Heard(l) = l
<1>1. Config!IsOf(l, name)
  BY AtIs
<1>2. ~Config!IsUnknown(l)
  BY <1>1 DEF Config!IsUnknown
<1>3. ~Config!IsOf(l, "r")
  <2>1. Config!Option(name) # Config!Option("r")
    BY OptionsDiffer
  <2> QED BY <1>1, <2>1 DEF Config!IsOf
<1> QED BY <1>2, <1>3 DEF Heard

LEMMA HeardReading ==
  ASSUME NEW l, Reading(l)
  PROVE  Reading(Heard(l))
  BY HeardArgs DEF Reading

LEMMA GoesPast ==
  ASSUME NEW l, Reading(l), l.ok, NEW s, Config!Goes(Config!Values(l), s), s = Effect(settings, l)
  PROVE  Passed(l)
<1>1. at + Config!Values(l) = at + Len(l.args) - 1 /\ at + 1 + Config!Values(l) = at + Len(l.args)
  <2>1. PICK e \in Nat : e = Len(l.args)
    BY DEF Reading
  <2>2. PICK k \in Nat : k = at
    BY DEF Reading
  <2>3. Config!Values(l) = e - 1
    BY <2>1 DEF Config!Values
  <2>4. k + (e - 1) = k + e - 1 /\ k + 1 + (e - 1) = k + e
    OBVIOUS
  <2> QED BY <2>1, <2>2, <2>3, <2>4
<1> QED BY <1>1 DEF Config!Goes, Config!argc, Passed

\* An option that sets members turns none and adds to none.
OnlySets(l) == l.ok /\ l.turns = {} /\ DOMAIN l.adds = {}
LEMMA SetsOnly ==
  ASSUME NEW l, NEW sets, Config!Sets(l, sets)
  PROVE  OnlySets(l) /\ l.sets = sets
  BY DEF Config!Sets, OnlySets

\* It sets one member,
LEMMA OnePasses ==
  ASSUME NEW l, Reading(l), OnlySets(l), NEW a, NEW v, DOMAIN l.sets = {a}, l.sets[a] = v,
         Config!Goes(Config!Values(l), settings'), settings' = [settings EXCEPT ![a] = v]
  PROVE  Passed(l)
<1>0. PICK s : s = settings'
  OBVIOUS
<1>1. settings = [m \in Members |-> settings[m]]
  BY DEF Reading, AreSettings
<1>2. s = [m \in Members |-> IF m = a THEN v ELSE settings[m]]
  BY <1>0, <1>1
<1>3. Effect(settings, l) = [m \in Members |-> IF m = a THEN v ELSE settings[m]]
  BY DEF Effect, OnlySets
<1> QED BY <1>0, <1>2, <1>3, GoesPast DEF OnlySets

\* or two,
LEMMA TwoPass ==
  ASSUME NEW l, Reading(l), OnlySets(l), NEW a, NEW v, NEW b, NEW w, a # b,
         DOMAIN l.sets = {a, b}, l.sets[a] = v, l.sets[b] = w,
         Config!Goes(Config!Values(l), settings'), settings' = [settings EXCEPT ![a] = v, ![b] = w]
  PROVE  Passed(l)
<1>0. PICK s : s = settings'
  OBVIOUS
<1>1. settings = [m \in Members |-> settings[m]]
  BY DEF Reading, AreSettings
<1>2. s = [m \in Members |-> IF m = a THEN v ELSE IF m = b THEN w ELSE settings[m]]
  BY <1>0, <1>1
<1>3. Effect(settings, l) = [m \in Members |-> IF m = a THEN v ELSE IF m = b THEN w ELSE settings[m]]
  BY DEF Effect, OnlySets
<1> QED BY <1>0, <1>2, <1>3, GoesPast DEF OnlySets

\* or three.
LEMMA ThreePass ==
  ASSUME NEW l, Reading(l), OnlySets(l), NEW a, NEW v, NEW b, NEW w, NEW c, NEW x,
         a # b, a # c, b # c, DOMAIN l.sets = {a, b, c}, l.sets[a] = v, l.sets[b] = w, l.sets[c] = x,
         Config!Goes(Config!Values(l), settings'),
         settings' = [settings EXCEPT ![a] = v, ![b] = w, ![c] = x]
  PROVE  Passed(l)
<1>0. PICK s : s = settings'
  OBVIOUS
<1>1. settings = [m \in Members |-> settings[m]]
  BY DEF Reading, AreSettings
<1>2. s = [m \in Members |-> IF m = a THEN v ELSE IF m = b THEN w ELSE IF m = c THEN x ELSE settings[m]]
  BY <1>0, <1>1
<1>3. Effect(settings, l) =
        [m \in Members |-> IF m = a THEN v ELSE IF m = b THEN w ELSE IF m = c THEN x ELSE settings[m]]
  BY DEF Effect, OnlySets
<1> QED BY <1>0, <1>2, <1>3, GoesPast DEF OnlySets

\* The options that stand alone.
LEMMA FlagPasses ==
  ASSUME NEW l, Reading(l), Config!Says(l), NEW name \in Config!FlagNames, Config!Flag(name)
  PROVE  Passed(l)
<1>1. Config!IsOf(l, name) /\ Config!FlagSays(l)
  BY AtIs DEF Config!Flag, Config!Says
<1>2. settings = [m \in Members |-> settings[m]]
  BY DEF Reading, AreSettings
<1>3. name # "d" => Config!Values(l) = 0 /\ Config!Sets(l, Config!FlagSets[name])
  BY <1>1, ZenonT(60) DEF Config!FlagSays, Config!FlagSets, Config!FlagNames
<1>4. name # "d" => OnlySets(l) /\ l.sets = Config!FlagSets[name]
  BY <1>3, SetsOnly
<1>5. CASE name = "nh"
  <2>1. settings' = [settings EXCEPT !["do_append_hostname"] = FALSE]
        /\ Config!Goes(0, settings')
    BY <1>5 DEF Config!Flag, Config!Goes
  <2>2. DOMAIN l.sets = {"do_append_hostname"} /\ l.sets["do_append_hostname"] = FALSE
    BY <1>4, <1>5 DEF Config!FlagSets
  <2> QED BY <1>3, <1>4, <1>5, <2>1, <2>2, OnePasses
<1>6. CASE name = "o"
  <2>1. settings' = [settings EXCEPT !["overscanned"] = 1]
        /\ Config!Goes(0, settings')
    BY <1>6 DEF Config!Flag, Config!Goes
  <2>2. DOMAIN l.sets = {"overscanned"} /\ l.sets["overscanned"] = 1
    BY <1>4, <1>6 DEF Config!FlagSets
  <2> QED BY <1>3, <1>4, <1>6, <2>1, <2>2, OnePasses
<1>7. CASE name = "a"
  <2>1. settings' = [settings EXCEPT !["use_audio"] = FALSE]
        /\ Config!Goes(0, settings')
    BY <1>7 DEF Config!Flag, Config!Goes
  <2>2. DOMAIN l.sets = {"use_audio"} /\ l.sets["use_audio"] = FALSE
    BY <1>4, <1>7 DEF Config!FlagSets
  <2> QED BY <1>3, <1>4, <1>7, <2>1, <2>2, OnePasses
<1>8. CASE name = "nc"
  <2>1. settings' = [settings EXCEPT !["new_window_closing_behavior"] = FALSE]
        /\ Config!Goes(0, settings')
    BY <1>8 DEF Config!Flag, Config!Goes
  <2>2. DOMAIN l.sets = {"new_window_closing_behavior"} /\ l.sets["new_window_closing_behavior"] = FALSE
    BY <1>4, <1>8 DEF Config!FlagSets
  <2> QED BY <1>3, <1>4, <1>8, <2>1, <2>2, OnePasses
<1>9. CASE name = "avdec"
  <2>1. settings' = [settings EXCEPT !["video_parser"] = Config!Text("h264parse"),
                       !["video_decoder"] = Config!Text("avdec_h264"),
                       !["video_converter"] = Config!Text("videoconvert")]
        /\ Config!Goes(0, settings')
    BY <1>9 DEF Config!Flag, Config!Goes
  <2>2. DOMAIN l.sets = {"video_parser", "video_decoder", "video_converter"} /\ l.sets["video_parser"] = Config!Text("h264parse")
        /\ l.sets["video_decoder"] = Config!Text("avdec_h264")
        /\ l.sets["video_converter"] = Config!Text("videoconvert")
    BY <1>4, <1>9 DEF Config!FlagSets
  <2>3. "video_parser" # "video_decoder" /\ "video_parser" # "video_converter"
        /\ "video_decoder" # "video_converter" /\ Config!Values(l) = 0
    BY <1>3, <1>9
  <2> QED BY <1>4, <1>9, <2>1, <2>2, <2>3, ThreePass, ZenonT(60)
<1>10. CASE name = "v4l2"
  <2>1. settings' = [settings EXCEPT !["video_decoder"] = Config!Text("v4l2h264dec"),
                       !["video_converter"] = Config!Text("v4l2convert")]
        /\ Config!Goes(0, settings')
    BY <1>10 DEF Config!Flag, Config!Goes
  <2>2. DOMAIN l.sets = {"video_decoder", "video_converter"} /\ l.sets["video_decoder"] = Config!Text("v4l2h264dec")
        /\ l.sets["video_converter"] = Config!Text("v4l2convert")
    BY <1>4, <1>10 DEF Config!FlagSets
  <2> QED BY <1>3, <1>4, <1>10, <2>1, <2>2, TwoPass
<1>11. CASE name = "fs"
  <2>1. settings' = [settings EXCEPT !["fullscreen"] = TRUE]
        /\ Config!Goes(0, settings')
    BY <1>11 DEF Config!Flag, Config!Goes
  <2>2. DOMAIN l.sets = {"fullscreen"} /\ l.sets["fullscreen"] = TRUE
    BY <1>4, <1>11 DEF Config!FlagSets
  <2> QED BY <1>3, <1>4, <1>11, <2>1, <2>2, OnePasses
<1>12. CASE name = "FPSdata"
  <2>1. settings' = [settings EXCEPT !["show_client_FPS_data"] = TRUE]
        /\ Config!Goes(0, settings')
    BY <1>12 DEF Config!Flag, Config!Goes
  <2>2. DOMAIN l.sets = {"show_client_FPS_data"} /\ l.sets["show_client_FPS_data"] = TRUE
    BY <1>4, <1>12 DEF Config!FlagSets
  <2> QED BY <1>3, <1>4, <1>12, <2>1, <2>2, OnePasses
<1>13. CASE name = "bt709"
  <2>1. settings' = [settings EXCEPT !["bt709_fix"] = TRUE]
        /\ Config!Goes(0, settings')
    BY <1>13 DEF Config!Flag, Config!Goes
  <2>2. DOMAIN l.sets = {"bt709_fix"} /\ l.sets["bt709_fix"] = TRUE
    BY <1>4, <1>13 DEF Config!FlagSets
  <2> QED BY <1>3, <1>4, <1>13, <2>1, <2>2, OnePasses
<1>14. CASE name = "nohold"
  <2>1. settings' = [settings EXCEPT !["nohold"] = 1]
        /\ Config!Goes(0, settings')
    BY <1>14 DEF Config!Flag, Config!Goes
  <2>2. DOMAIN l.sets = {"nohold"} /\ l.sets["nohold"] = 1
    BY <1>4, <1>14 DEF Config!FlagSets
  <2> QED BY <1>3, <1>4, <1>14, <2>1, <2>2, OnePasses
<1>15. CASE name = "taper"
  <2>1. settings' = [settings EXCEPT !["taper_volume"] = TRUE]
        /\ Config!Goes(0, settings')
    BY <1>15 DEF Config!Flag, Config!Goes
  <2>2. DOMAIN l.sets = {"taper_volume"} /\ l.sets["taper_volume"] = TRUE
    BY <1>4, <1>15 DEF Config!FlagSets
  <2> QED BY <1>3, <1>4, <1>15, <2>1, <2>2, OnePasses
<1>16. CASE name = "nofreeze"
  <2> DEFINE yes == <<TRUE>>
  <2>1. settings' = [settings EXCEPT !["nofreeze"] = yes] /\ Config!Goes(0, settings')
    BY <1>16 DEF Config!Flag, Config!Goes
  <2>2. Config!FlagSets["nofreeze"] = [nofreeze |-> yes]
    BY DEF Config!FlagSets
  <2> HIDE DEF yes
  <2>3. DOMAIN l.sets = {"nofreeze"} /\ l.sets["nofreeze"] = yes
    BY <1>4, <1>16, <2>2
  <2> QED BY <1>3, <1>4, <1>16, <2>1, <2>3, OnePasses
<1>17. CASE name = "d"
  <2>1. settings' = [settings EXCEPT !.debug_log = ~settings.debug_log] /\ Config!Goes(0, settings')
    BY <1>17 DEF Config!Flag, Config!Goes
  <2>2. Config!Values(l) = 0 /\ l.ok /\ DOMAIN l.sets = {} /\ l.turns = {"debug_log"}
        /\ DOMAIN l.adds = {}
    BY <1>1, <1>17 DEF Config!FlagSays
  <2>3. PICK s : s = settings'
    OBVIOUS
  <2>4. s = [m \in Members |-> IF m = "debug_log" THEN ~settings[m] ELSE settings[m]]
    BY <1>2, <2>1, <2>3
  <2>5. Effect(settings, l) = [m \in Members |-> IF m = "debug_log" THEN ~settings[m] ELSE settings[m]]
    BY <2>2 DEF Effect
  <2> QED BY <2>1, <2>2, <2>3, <2>4, <2>5, GoesPast
<1> QED BY <1>5, <1>6, <1>7, <1>8, <1>9, <1>10, <1>11, <1>12, <1>13, <1>14, <1>15, <1>16, <1>17 DEF Config!FlagNames

LEMMA ExitPasses ==
  ASSUME NEW l, ~l.ok, Config!Exits \/ Config!ReadsNull
  PROVE  Passed(l)
  BY DEF Config!Exits, Config!ReadsNull, Config!Stops, Passed

\* Most options have no value or one: the parser sees the same.
LEMMA ValueThere ==
  ASSUME NEW l, Reading(l), Config!Says(l), NEW name, Config!At(name),
         name \notin {"p", "vdmp", "admp"}
  PROVE  /\ Config!IsOf(l, name) /\ Config!Values(l) \in {0, 1}
         /\ Config!option_has_value <=> Config!HasValue(l)
         /\ Config!HasValue(l) => Config!Values(l) = 1 /\ Config!Next1 = Config!Value(l)
<1>1. Config!IsOf(l, name)
  BY AtIs
<1>2. Len(l.args) # 3
  <2> SUFFICES ASSUME Len(l.args) = 3 PROVE FALSE
    OBVIOUS
  <2>1. PICK other \in {"p", "vdmp", "admp"} : Config!IsOf(l, other)
    BY DEF Config!Says, Config!ArgsOf
  <2>2. other = name
    BY <1>1, <2>1, OptionsDiffer DEF Config!IsOf
  <2> QED BY <2>2
<1>3. Config!Values(l) \in {0, 1}
  BY <1>2 DEF Config!Values, Config!Says, Config!ArgsOf
<1>4. CASE Config!Values(l) = 0
  BY <1>1, <1>4, NoValue DEF Config!HasValue
<1>5. CASE Config!Values(l) = 1
  BY <1>1, <1>5, OneValue DEF Config!HasValue
<1> QED BY <1>3, <1>4, <1>5

\* A text, which is set or added to a list.
LEMMA TextPasses ==
  ASSUME NEW l, Reading(l), Config!Says(l), NEW name \in DOMAIN Config!TextOptions,
         Config!TextOption(name)
  PROVE  Passed(l)
<1>0. name \notin {"p", "vdmp", "admp"}
  BY DEF Config!TextOptions
<1>1. Config!At(name)
  BY DEF Config!TextOption
<1>2. Config!TextSays(l)
  BY DEF Config!Says
<1> DEFINE m == Config!TextOptions[name]
           v == Config!Value(l)
<1>3. CASE Config!HasValue(l)
  <2>1. settings' = [settings EXCEPT ![m] = v] /\ Config!Goes(1, settings')
    BY <1>0, <1>1, <1>3, ValueThere DEF Config!TextOption, Config!Goes
  <2>2. Config!Sets(l, Config!One(m, v))
    BY <1>0, <1>1, <1>2, <1>3, ValueThere DEF Config!TextSays, Config!SetsOne
  <2> HIDE DEF m, v
  <2>3. OnlySets(l) /\ l.sets = Config!One(m, v)
    BY <2>2, SetsOnly
  <2>4. DOMAIN l.sets = {m} /\ l.sets[m] = v
    BY <2>3 DEF Config!One
  <2> QED BY <1>0, <1>1, <1>3, <2>1, <2>3, <2>4, ValueThere, OnePasses
<1>4. CASE ~Config!HasValue(l)
  <2>1. ~l.ok
    BY <1>0, <1>1, <1>2, <1>4, ValueThere DEF Config!TextSays
  <2>2. Config!Exits
    BY <1>0, <1>1, <1>4, ValueThere DEF Config!TextOption
  <2> QED BY <2>1, <2>2, ExitPasses
<1> QED BY <1>3, <1>4

LEMMA ListPasses ==
  ASSUME NEW l, Reading(l), Config!Says(l), NEW name \in DOMAIN Config!ListOptions,
         Config!ListOption(name)
  PROVE  Passed(l)
<1>0. name \notin {"p", "vdmp", "admp"}
  BY DEF Config!ListOptions
<1>1. Config!At(name)
  BY DEF Config!ListOption
<1>2. Config!TextSays(l)
  BY DEF Config!Says
<1> DEFINE m == Config!ListOptions[name]
           v == Config!Value(l)
<1>3. CASE Config!HasValue(l)
  <2>1. settings' = [settings EXCEPT ![m] = Append(settings[m], v)] /\ Config!Goes(1, settings')
    BY <1>0, <1>1, <1>3, ValueThere DEF Config!ListOption, Config!Goes
  <2>2. l.ok /\ l.sets = <<>> /\ l.turns = {} /\ l.adds = Config!One(m, v)
    BY <1>0, <1>1, <1>2, <1>3, ValueThere DEF Config!TextSays
  <2> HIDE DEF m, v
  <2>3. DOMAIN l.sets = {} /\ DOMAIN l.adds = {m} /\ l.adds[m] = v
    BY <2>2 DEF Config!One
  <2>4. PICK s : s = settings'
    OBVIOUS
  <2>5. settings = [x \in Members |-> settings[x]]
    BY DEF Reading, AreSettings
  <2>6. s = [x \in Members |-> IF x = m THEN Append(settings[x], v) ELSE settings[x]]
    BY <2>1, <2>4, <2>5
  <2>7. Effect(settings, l) = [x \in Members |-> IF x = m THEN Append(settings[x], v) ELSE settings[x]]
    BY <2>2, <2>3 DEF Effect
  <2>8. Config!Goes(Config!Values(l), s)
    BY <1>0, <1>1, <1>3, <2>1, <2>4, ValueThere
  <2> QED BY <2>2, <2>6, <2>7, <2>8, GoesPast
<1>4. CASE ~Config!HasValue(l)
  <2>1. ~l.ok
    BY <1>0, <1>1, <1>2, <1>4, ValueThere DEF Config!TextSays
  <2>2. Config!Exits
    BY <1>0, <1>1, <1>4, ValueThere DEF Config!ListOption
  <2> QED BY <2>1, <2>2, ExitPasses
<1> QED BY <1>3, <1>4

\* A frame rate.
LEMMA FpsPasses ==
  ASSUME NEW l, Reading(l), Config!Says(l), Config!Fps
  PROVE  Passed(l)
<1>1. Config!At("fps")
  BY DEF Config!Fps
<1>2. Config!DisplaySays(l)
  BY DEF Config!Says
<1>3. "fps" \notin {"p", "vdmp", "admp"}
  OBVIOUS
<1>4. /\ Config!IsOf(l, "fps")
      /\ Config!option_has_value <=> Config!HasValue(l)
      /\ Config!HasValue(l) => Config!Values(l) = 1 /\ Config!Next1 = Config!Value(l)
  BY <1>1, <1>3, ValueThere
<1> DEFINE v == Config!Value(l)
           x == v[1].num[1]
<1>5. CASE Config!HasValue(l) /\ Config!get_value(v, 255) # <<>>
  <2>1. settings' = [settings EXCEPT !["fps"] = x] /\ Config!Goes(1, settings')
    BY <1>4, <1>5 DEF Config!Fps, Config!Goes
  <2>2. Config!Sets(l, [fps |-> x])
    BY <1>2, <1>4, <1>5 DEF Config!DisplaySays
  <2> HIDE DEF x
  <2>3. OnlySets(l) /\ l.sets = [fps |-> x]
    BY <2>2, SetsOnly
  <2>4. DOMAIN l.sets = {"fps"} /\ l.sets["fps"] = x
    BY <2>3
  <2> QED BY <1>4, <1>5, <2>1, <2>3, <2>4, OnePasses
<1>6. CASE ~(Config!HasValue(l) /\ Config!get_value(v, 255) # <<>>)
  <2>1. ~l.ok
    BY <1>2, <1>4, <1>6 DEF Config!DisplaySays
  <2>2. Config!Exits
    BY <1>4, <1>6 DEF Config!Fps
  <2> QED BY <2>1, <2>2, ExitPasses
<1> QED BY <1>5, <1>6

\* A flip,
LEMMA FlipPasses ==
  ASSUME NEW l, Reading(l), Config!Says(l), Config!Flip, Config!At("f")
  PROVE  Passed(l)
<1>2. Config!DisplaySays(l)
  BY DEF Config!Says
<1>3. "f" \notin {"p", "vdmp", "admp"}
  OBVIOUS
<1>4. /\ Config!IsOf(l, "f")
      /\ Config!option_has_value <=> Config!HasValue(l)
      /\ Config!HasValue(l) => Config!Values(l) = 1 /\ Config!Next1 = Config!Value(l)
  BY <1>3, ValueThere
<1> DEFINE v == Config!Value(l)
           x == v
<1>5. CASE Config!HasValue(l) /\ v \in Config!Flips
  <2>1. settings' = [settings EXCEPT !["videoflip"] = x] /\ Config!Goes(1, settings')
    BY <1>4, <1>5 DEF Config!Flip, Config!Goes
  <2>2. Config!Sets(l, [videoflip |-> x])
    BY <1>2, <1>4, <1>5 DEF Config!DisplaySays
  <2> HIDE DEF x
  <2>3. OnlySets(l) /\ l.sets = [videoflip |-> x]
    BY <2>2, SetsOnly
  <2>4. DOMAIN l.sets = {"videoflip"} /\ l.sets["videoflip"] = x
    BY <2>3
  <2> QED BY <1>4, <1>5, <2>1, <2>3, <2>4, OnePasses
<1>6. CASE ~(Config!HasValue(l) /\ v \in Config!Flips)
  <2>1. ~l.ok
    BY <1>2, <1>4, <1>6 DEF Config!DisplaySays
  <2>2. Config!Exits
    BY <1>4, <1>6 DEF Config!Flip
  <2> QED BY <2>1, <2>2, ExitPasses
<1> QED BY <1>5, <1>6

\* and a rotation that is heard as one.
LEMMA RotationPasses ==
  ASSUME NEW l, Reading(l), Config!Says(l), Config!Flip, Config!At("r")
  PROVE  Passed(Heard(l))
<1>3. "r" \notin {"p", "vdmp", "admp"}
  OBVIOUS
<1>4. /\ Config!IsOf(l, "r")
      /\ Config!option_has_value <=> Config!HasValue(l)
      /\ Config!HasValue(l) => Config!Values(l) = 1 /\ Config!Next1 = Config!Value(l)
  BY <1>3, ValueThere
<1> DEFINE x == Config!Value(l)
           h == Heard(l)
<1>5. /\ h.turns = {} /\ h.adds = <<>> /\ h.sets = [videoflip |-> x]
      /\ h.ok = (Config!HasValue(l) /\ x \in Config!Flips)
  BY <1>4 DEF Heard
<1>6. Config!Values(h) = Config!Values(l) /\ Reading(h)
  BY HeardArgs, HeardReading DEF Config!Values
<1> HIDE DEF h
<1>7. CASE Config!HasValue(l) /\ x \in Config!Flips
  <2>1. settings' = [settings EXCEPT !["videoflip"] = x] /\ Config!Goes(1, settings')
    BY <1>4, <1>7 DEF Config!Flip, Config!Goes
  <2> HIDE DEF x
  <2>2. OnlySets(h) /\ DOMAIN h.sets = {"videoflip"} /\ h.sets["videoflip"] = x
    <3>1. h.ok
      BY <1>5, <1>7
    <3>2. DOMAIN h.adds = {}
      BY <1>5
    <3>3. DOMAIN h.sets = {"videoflip"} /\ h.sets["videoflip"] = x
      BY <1>5
    <3> QED BY <1>5, <3>1, <3>2, <3>3 DEF OnlySets
  <2>3. Config!Goes(Config!Values(h), settings')
    BY <1>4, <1>6, <1>7, <2>1
  <2>4. Passed(h)
    BY <1>6, <2>1, <2>2, <2>3, OnePasses
  <2> QED BY <2>4 DEF h
<1>8. CASE ~(Config!HasValue(l) /\ x \in Config!Flips)
  <2>1. ~h.ok
    BY <1>5, <1>8
  <2>2. Config!Exits
    BY <1>4, <1>8 DEF Config!Flip
  <2>3. Passed(h)
    BY <2>1, <2>2, ExitPasses
  <2> QED BY <2>3 DEF h
<1> QED BY <1>7, <1>8

\* A file for the cover.
LEMMA CoverArtPasses ==
  ASSUME NEW l, Reading(l), Config!Says(l), Config!CoverArt
  PROVE  Passed(l)
<1>1. Config!At("ca")
  BY DEF Config!CoverArt
<1>2. Config!NumberSays(l)
  BY DEF Config!Says
<1>3. "ca" \notin {"p", "vdmp", "admp"}
  OBVIOUS
<1>4. /\ Config!IsOf(l, "ca")
      /\ Config!option_has_value <=> Config!HasValue(l)
      /\ Config!HasValue(l) => Config!Values(l) = 1 /\ Config!Next1 = Config!Value(l)
  BY <1>1, <1>3, ValueThere
<1> DEFINE v == Config!Value(l)
           x == v
<1>5. CASE Config!HasValue(l) /\ v \in Writable
  <2>1. settings' = [settings EXCEPT !["coverart_filename"] = x] /\ Config!Goes(1, settings')
    BY <1>4, <1>5 DEF Config!CoverArt, Config!Goes
  <2>2. Config!Sets(l, [coverart_filename |-> x])
    BY <1>2, <1>4, <1>5 DEF Config!NumberSays
  <2> HIDE DEF x
  <2>3. OnlySets(l) /\ l.sets = [coverart_filename |-> x]
    BY <2>2, SetsOnly
  <2>4. DOMAIN l.sets = {"coverart_filename"} /\ l.sets["coverart_filename"] = x
    BY <2>3
  <2> QED BY <1>4, <1>5, <2>1, <2>3, <2>4, OnePasses
<1>6. CASE ~(Config!HasValue(l) /\ v \in Writable)
  <2>1. ~l.ok
    BY <1>2, <1>4, <1>6 DEF Config!NumberSays
  <2>2. Config!Exits
    BY <1>4, <1>6 DEF Config!CoverArt
  <2> QED BY <2>1, <2>2, ExitPasses
<1> QED BY <1>5, <1>6

\* A latency.
LEMMA LatencyPasses ==
  ASSUME NEW l, Reading(l), Config!Says(l), Config!Latency
  PROVE  Passed(l)
<1>1. Config!At("al")
  BY DEF Config!Latency
<1>2. Config!NumberSays(l)
  BY DEF Config!Says
<1>3. "al" \notin {"p", "vdmp", "admp"}
  OBVIOUS
<1>4. /\ Config!IsOf(l, "al")
      /\ Config!option_has_value <=> Config!HasValue(l)
      /\ Config!HasValue(l) => Config!Values(l) = 1 /\ Config!Next1 = Config!Value(l)
  BY <1>1, <1>3, ValueThere
<1> DEFINE v == Config!Value(l)
           x == v[1].num[1] * 1000000
<1>5. CASE Config!HasValue(l) /\ (Config!IsNumber(v) /\ v[1].num[1] \in 0 .. 10)
  <2>1. settings' = [settings EXCEPT !["audiodelay"] = x] /\ Config!Goes(1, settings')
    BY <1>4, <1>5 DEF Config!Latency, Config!Goes
  <2>2. Config!Sets(l, [audiodelay |-> x])
    BY <1>2, <1>4, <1>5 DEF Config!NumberSays
  <2> HIDE DEF x
  <2>3. OnlySets(l) /\ l.sets = [audiodelay |-> x]
    BY <2>2, SetsOnly
  <2>4. DOMAIN l.sets = {"audiodelay"} /\ l.sets["audiodelay"] = x
    BY <2>3
  <2> QED BY <1>4, <1>5, <2>1, <2>3, <2>4, OnePasses
<1>6. CASE ~(Config!HasValue(l) /\ (Config!IsNumber(v) /\ v[1].num[1] \in 0 .. 10))
  <2>1. ~l.ok
    BY <1>2, <1>4, <1>6 DEF Config!NumberSays
  <2>2. Config!Exits
    BY <1>4, <1>6 DEF Config!Latency
  <2> QED BY <2>1, <2>2, ExitPasses
<1> QED BY <1>5, <1>6

\* A size, with or without a rate.
LEMMA DisplayPasses ==
  ASSUME NEW l, Reading(l), Config!Says(l), Config!Display
  PROVE  Passed(l)
<1>1. Config!At("s")
  BY DEF Config!Display
<1>2. Config!DisplaySays(l)
  BY DEF Config!Says
<1>3. "s" \notin {"p", "vdmp", "admp"}
  OBVIOUS
<1>4. /\ Config!IsOf(l, "s")
      /\ Config!option_has_value <=> Config!HasValue(l)
      /\ Config!HasValue(l) => Config!Values(l) = 1 /\ Config!Next1 = Config!Value(l)
  BY <1>1, <1>3, ValueThere
<1> DEFINE v == Config!Value(l)
           d == SubSeq(v[1].num, 1, 2)
           r == v[1].num[3]
<1>5. CASE Config!HasValue(l) /\ Config!get_display_settings(v) /\ v[1].text = "x@"
  <2>1. settings' = [settings EXCEPT !["display"] = d, !["refresh_rate"] = r] /\ Config!Goes(1, settings')
    BY <1>4, <1>5 DEF Config!Display, Config!Goes
  <2>2. Config!Sets(l, [display |-> d, refresh_rate |-> r])
    BY <1>2, <1>4, <1>5 DEF Config!DisplaySays
  <2> HIDE DEF d, r
  <2>3. OnlySets(l) /\ l.sets = [display |-> d, refresh_rate |-> r]
    BY <2>2, SetsOnly
  <2>4. DOMAIN l.sets = {"display", "refresh_rate"} /\ l.sets["display"] = d /\ l.sets["refresh_rate"] = r
    BY <2>3
  <2>5. "display" # "refresh_rate"
    OBVIOUS
  <2> QED BY <1>4, <1>5, <2>1, <2>3, <2>4, <2>5, TwoPass
<1>6. CASE Config!HasValue(l) /\ Config!get_display_settings(v) /\ v[1].text # "x@"
  <2>1. settings' = [settings EXCEPT !.display = d, !.refresh_rate = settings.refresh_rate]
        /\ Config!Goes(1, settings')
    BY <1>4, <1>6 DEF Config!Display, Config!Goes
  <2>2. Config!Sets(l, [display |-> d])
    BY <1>2, <1>4, <1>6 DEF Config!DisplaySays
  <2> HIDE DEF d
  <2>3. OnlySets(l) /\ l.sets = [display |-> d]
    BY <2>2, SetsOnly
  <2>4. DOMAIN l.sets = {"display"} /\ l.sets["display"] = d
    BY <2>3
  <2>5. settings = [m \in Members |-> settings[m]]
    BY DEF Reading, AreSettings
  <2>6. [settings EXCEPT !.display = d, !.refresh_rate = settings.refresh_rate]
          = [settings EXCEPT !["display"] = d]
    BY <2>5
  <2> QED BY <1>4, <1>6, <2>1, <2>3, <2>4, <2>6, OnePasses
<1>7. CASE ~(Config!HasValue(l) /\ Config!get_display_settings(v))
  <2>1. ~l.ok
    BY <1>2, <1>4, <1>7 DEF Config!DisplaySays
  <2>2. Config!Exits
    BY <1>4, <1>7 DEF Config!Display
  <2> QED BY <2>1, <2>2, ExitPasses
<1> QED BY <1>5, <1>6, <1>7

\* A number that is read whether it is there or not.
LEMMA ResetPasses ==
  ASSUME NEW l, Reading(l), Config!Says(l), Config!ResetLimit
  PROVE  Passed(l)
<1>1. Config!At("reset")
  BY DEF Config!ResetLimit
<1>2. Config!NumberSays(l)
  BY DEF Config!Says
<1>3. "reset" \notin {"p", "vdmp", "admp"}
  OBVIOUS
<1>4. Config!IsOf(l, "reset") /\ Config!Values(l) \in {0, 1}
  BY <1>1, <1>3, ValueThere
<1> DEFINE v == Config!Value(l)
           x == v[1].num[1]
<1>5. CASE Config!Values(l) = 0
  <2>1. ~l.ok
    BY <1>2, <1>4, <1>5 DEF Config!NumberSays, Config!HasValue
  <2>2. Config!HasNext => Config!get_value(Config!Next1, 0) = <<>>
    BY <1>5, NoValue, NamesAreNot
  <2>3. Config!Exits \/ Config!ReadsNull
    BY <2>2 DEF Config!ResetLimit
  <2> QED BY <2>1, <2>3, ExitPasses
<1>6. CASE Config!Values(l) = 1
  <2>1. Config!HasNext /\ Config!Next1 = v
    BY <1>6, OneValue
  <2>2. CASE Config!get_value(v, 0) # <<>>
    <3>1. settings' = [settings EXCEPT !["max_ntp_timeouts"] = x] /\ Config!Goes(1, settings')
      BY <2>1, <2>2 DEF Config!ResetLimit, Config!Goes
    <3>2. Config!HasValue(l)
      BY <1>6, <2>2 DEF Config!get_value, Config!HasValue
    <3>3. Config!Sets(l, [max_ntp_timeouts |-> x])
      BY <1>2, <1>4, <2>2, <3>2 DEF Config!NumberSays
    <3> HIDE DEF x
    <3>4. OnlySets(l) /\ l.sets = [max_ntp_timeouts |-> x]
      BY <3>3, SetsOnly
    <3>5. DOMAIN l.sets = {"max_ntp_timeouts"} /\ l.sets["max_ntp_timeouts"] = x
      BY <3>4
    <3> QED BY <1>6, <3>1, <3>4, <3>5, OnePasses
  <2>3. CASE Config!get_value(v, 0) = <<>>
    <3>1. ~l.ok
      BY <1>2, <1>4, <2>3 DEF Config!NumberSays
    <3>2. Config!Exits
      BY <2>1, <2>3 DEF Config!ResetLimit
    <3> QED BY <3>1, <3>2, ExitPasses
  <2> QED BY <2>2, <2>3
<1> QED BY <1>4, <1>5, <1>6

\* A range whose first number is below zero.
LEMMA DecibelsPass ==
  ASSUME NEW l, Reading(l), Config!Says(l), Config!Decibels
  PROVE  Passed(l)
<1>1. Config!At("db")
  BY DEF Config!Decibels
<1>2. Config!DecibelsSay(l)
  BY DEF Config!Says
<1>3. "db" \notin {"p", "vdmp", "admp"}
  OBVIOUS
<1>4. Config!IsOf(l, "db") /\ Config!Values(l) \in {0, 1}
  BY <1>1, <1>3, ValueThere
<1> DEFINE v == Config!Value(l)
           said == IF Config!Values(l) = 1 /\ v[1].text \in {"", ":"} THEN v[1].num ELSE <<>>
           read == IF Config!HasNext /\ Config!Next1[1].text \in {"", ":"} THEN Config!Next1[1].num ELSE <<>>
           db == IF Len(read) = 1 THEN <<read[1], 0>> ELSE read
<1>5. read = said
  <2>1. CASE Config!Values(l) = 0
    <3>1. ~(Config!HasNext /\ Config!Next1[1].text \in {"", ":"})
      BY <2>1, NoValue, NamesAreNot
    <3>2. ~(Config!Values(l) = 1)
      BY <2>1
    <3> QED BY <3>1, <3>2, Zenon
  <2>2. CASE Config!Values(l) = 1
    <3>1. Config!HasNext /\ Config!Next1 = v
      BY <2>2, OneValue
    <3> QED BY <2>2, <3>1, Zenon
  <2> QED BY <1>4, <2>1, <2>2
<1>6. IF Len(db) = 2 /\ db[1] < 0 /\ (Len(read) = 2 => db[1] < db[2])
      THEN Config!Goes(1, [settings EXCEPT !.db = db]) ELSE Config!Exits
  BY DEF Config!Decibels
<1>7. IF Len(said) = 1 /\ said[1] < 0 THEN Config!Sets(l, [db |-> <<said[1], 0>>])
      ELSE IF Len(said) = 2 /\ said[1] < 0 /\ said[1] < said[2] THEN Config!Sets(l, [db |-> said])
      ELSE ~l.ok
  BY <1>2, <1>4 DEF Config!DecibelsSay
<1>8. Len(said) \in {1, 2} => Config!Values(l) = 1
  <2>1. Len(<<>>) \notin {1, 2}
    OBVIOUS
  <2> QED BY <2>1, Zenon
<1> HIDE DEF said, read
<1>9. \A a : Len(<<a, 0>>) = 2 /\ <<a, 0>>[1] = a
  OBVIOUS
<1>10. CASE Len(db) = 2 /\ db[1] < 0 /\ (Len(read) = 2 => db[1] < db[2])
  <2>1. Len(said) \in {1, 2} /\ Config!Sets(l, [db |-> db])
    <3>1. CASE Len(said) = 1
      BY <1>5, <1>7, <1>9, <1>10, <3>1
    <3>2. CASE Len(said) # 1
      BY <1>5, <1>7, <1>10, <3>2
    <3> QED BY <3>1, <3>2
  <2>2. settings' = [settings EXCEPT !["db"] = db] /\ Config!Goes(1, settings')
    BY <1>6, <1>10 DEF Config!Goes
  <2> HIDE DEF db
  <2>3. OnlySets(l) /\ l.sets = [db |-> db]
    BY <2>1, SetsOnly
  <2>4. DOMAIN l.sets = {"db"} /\ l.sets["db"] = db
    BY <2>3
  <2> QED BY <1>8, <2>1, <2>2, <2>3, <2>4, OnePasses
<1>11. CASE ~(Len(db) = 2 /\ db[1] < 0 /\ (Len(read) = 2 => db[1] < db[2]))
  <2>1. Config!Exits
    BY <1>6, <1>11
  <2>2. ~l.ok
    <3>1. CASE Len(said) = 1
      BY <1>5, <1>7, <1>9, <1>11, <3>1
    <3>2. CASE Len(said) # 1
      BY <1>5, <1>7, <1>11, <3>2
    <3> QED BY <3>1, <3>2
  <2> QED BY <2>1, <2>2, ExitPasses
<1> QED BY <1>10, <1>11

\* The switches.
LEMMA RestrictedPasses ==
  ASSUME NEW l, Reading(l), Config!Says(l), Config!Restricted
  PROVE  Passed(l)
<1>1. Config!At("restrict")
  BY DEF Config!Restricted
<1>3. "restrict" \notin {"p", "vdmp", "admp"}
  OBVIOUS
<1>4. Config!IsOf(l, "restrict")
  BY <1>1, <1>3, ValueThere, SMTT(40)
<1>2. \/ Config!Values(l) = 0 /\ Config!Sets(l, [restrict_clients |-> TRUE])
      \/ /\ Config!Values(l) = 1 /\ Config!Value(l) = Config!Text("no")
         /\ Config!Sets(l, [restrict_clients |-> FALSE])
  BY <1>4, ZenonT(60) DEF Config!Says, Config!SwitchSays
<1>5. CASE Config!Values(l) = 0 /\ Config!Sets(l, [restrict_clients |-> TRUE])
  <2>1. ~(Config!HasNext /\ Config!Next1 = Config!Text("no"))
    BY <1>5, NoValue, NamesAreNot
  <2>2. settings' = [settings EXCEPT !["restrict_clients"] = TRUE] /\ Config!Goes(0, settings')
    BY <2>1 DEF Config!Restricted, Config!Goes
  <2>3. OnlySets(l) /\ l.sets = [restrict_clients |-> TRUE]
    BY <1>5, SetsOnly
  <2>4. DOMAIN l.sets = {"restrict_clients"} /\ l.sets["restrict_clients"] = TRUE
    BY <2>3
  <2> QED BY <1>5, <2>2, <2>3, <2>4, OnePasses
<1>6. CASE /\ Config!Values(l) = 1 /\ Config!Value(l) = Config!Text("no")
           /\ Config!Sets(l, [restrict_clients |-> FALSE])
  <2>1. Config!HasNext /\ Config!Next1 = Config!Text("no")
    BY <1>6, OneValue
  <2>2. settings' = [settings EXCEPT !["restrict_clients"] = FALSE] /\ Config!Goes(1, settings')
    BY <2>1 DEF Config!Restricted, Config!Goes
  <2>3. OnlySets(l) /\ l.sets = [restrict_clients |-> FALSE]
    BY <1>6, SetsOnly
  <2>4. DOMAIN l.sets = {"restrict_clients"} /\ l.sets["restrict_clients"] = FALSE
    BY <2>3
  <2> QED BY <1>6, <2>2, <2>3, <2>4, OnePasses
<1> QED BY <1>2, <1>5, <1>6

\* The text of "no" is no number.
LEMMA NoIsNone == ~Config!IsNumber(Config!Text("no"))
<1>1. Config!Text("no")[1].text = "no"
  BY SMTT(40) DEF Config!Text, Config!Chunk
<1> QED BY <1>1 DEF Config!IsNumber

LEMMA SyncPasses ==
  ASSUME NEW l, Reading(l), Config!Says(l),
         NEW name \in {"async", "vsync"}, NEW sync, NEW delay, sync # delay,
         <<name, sync, delay>> \in {<<"async", "audio_sync", "audio_delay_alac">>,
                                    <<"vsync", "video_sync", "audio_delay_aac">>},
         Config!Sync(name, sync, delay)
  PROVE  Passed(l)
<1>1. Config!At(name)
  BY ZenonT(60) DEF Config!Sync
<1>3. name \notin {"p", "vdmp", "admp"}
  OBVIOUS
<1>4. Config!IsOf(l, name)
  BY <1>1, <1>3, ValueThere
<1> DEFINE v == Config!Value(l)
           x == v[1].num[1]
           t == <<name, sync, delay>>
<1>5. t[1] = name /\ t[2] = sync /\ t[3] = delay
  BY SMTT(40)
<1>2. \/ Config!Values(l) = 0 /\ Config!Sets(l, Config!One(sync, TRUE))
      \/ Config!Values(l) = 1 /\ v = Config!Text("no") /\ Config!Sets(l, Config!One(sync, FALSE))
      \/ /\ Config!Values(l) = 1 /\ Config!IsNumber(v)
         /\ IF x \in -999 .. 999
            THEN Config!Sets(l, Config!Both(Config!One(sync, TRUE), Config!One(delay, x))) ELSE ~l.ok
  <2> HIDE DEF t
  <2>1. \/ Config!Values(l) = 0 /\ Config!Sets(l, Config!One(t[2], TRUE))
        \/ Config!Values(l) = 1 /\ v = Config!Text("no") /\ Config!Sets(l, Config!One(t[2], FALSE))
        \/ /\ Config!Values(l) = 1 /\ Config!IsNumber(v)
           /\ IF x \in -999 .. 999
              THEN Config!Sets(l, Config!Both(Config!One(t[2], TRUE), Config!One(t[3], x))) ELSE ~l.ok
    <3> DEFINE T == {<<"async", "audio_sync", "audio_delay_alac">>, <<"vsync", "video_sync", "audio_delay_aac">>}
               P(s) == \/ Config!Values(l) = 0 /\ Config!Sets(l, Config!One(s[2], TRUE))
                       \/ /\ Config!Values(l) = 1 /\ v = Config!Text("no")
                          /\ Config!Sets(l, Config!One(s[2], FALSE))
                       \/ /\ Config!Values(l) = 1 /\ Config!IsNumber(v)
                          /\ IF x \in -999 .. 999
                             THEN Config!Sets(l, Config!Both(Config!One(s[2], TRUE), Config!One(s[3], x)))
                             ELSE ~l.ok
    <3>1. t \in T
      BY DEF t
    <3>2. Config!SwitchSays(l)
      BY DEF Config!Says
    <3>3. \A s \in T : Config!IsOf(l, s[1]) => P(s)
      BY <3>2, ZenonT(60) DEF Config!SwitchSays, Config!SetsOne
    <3> HIDE DEF T, P
    <3>4. P(t)
      BY <1>4, <1>5, <3>1, <3>3
    <3> QED BY <3>4, ZenonT(60) DEF P
  <2> QED BY <1>5, <2>1, ZenonT(60)
<1> HIDE DEF t
<1>6. CASE Config!Values(l) = 0 /\ Config!Sets(l, Config!One(sync, TRUE))
  <2>1. Config!HasNext => Config!Next1 # Config!Text("no") /\ ~Config!TakesDelay
    BY <1>6, NoValue, NamesAreNot DEF Config!TakesDelay
  <2>2. settings' = [settings EXCEPT ![sync] = TRUE] /\ Config!Goes(0, settings')
    BY <2>1, ZenonT(60) DEF Config!Sync, Config!Goes, Config!TakesDelay
  <2>3. OnlySets(l) /\ l.sets = Config!One(sync, TRUE)
    BY <1>6, SetsOnly
  <2>4. DOMAIN l.sets = {sync} /\ l.sets[sync] = TRUE
    BY <2>3 DEF Config!One
  <2> QED BY <1>6, <2>2, <2>3, <2>4, OnePasses, ZenonT(60)
<1>7. CASE Config!Values(l) = 1 /\ v = Config!Text("no") /\ Config!Sets(l, Config!One(sync, FALSE))
  <2>1. Config!HasNext /\ Config!Next1 = Config!Text("no")
    BY <1>7, OneValue
  <2>2. settings' = [settings EXCEPT ![sync] = FALSE] /\ Config!Goes(1, settings')
    BY <2>1 DEF Config!Sync, Config!Goes
  <2>3. OnlySets(l) /\ l.sets = Config!One(sync, FALSE)
    BY <1>7, SetsOnly, ZenonT(60)
  <2>4. DOMAIN l.sets = {sync} /\ l.sets[sync] = FALSE
    BY <2>3 DEF Config!One
  <2> QED BY <1>7, <2>2, <2>3, <2>4, OnePasses
<1>8. CASE /\ Config!Values(l) = 1 /\ Config!IsNumber(v)
           /\ IF x \in -999 .. 999
              THEN Config!Sets(l, Config!Both(Config!One(sync, TRUE), Config!One(delay, x))) ELSE ~l.ok
  <2>0. Config!Values(l) = 1 /\ Config!IsNumber(v)
    BY <1>8, ZenonT(60)
  <2>1. Config!HasNext /\ Config!Next1 = v /\ v # Config!Text("no") /\ Config!TakesDelay
    <3>1. Config!HasNext /\ Config!Next1 = v
      BY <2>0, OneValue
    <3> HIDE DEF v
    <3> QED BY <2>0, <3>1, NoIsNone DEF Config!TakesDelay
  <2>2. CASE x \in -999 .. 999
    <3>1. settings' = [settings EXCEPT ![sync] = TRUE, ![delay] = x] /\ Config!Goes(1, settings')
      BY <2>1, <2>2, ZenonT(60) DEF Config!Sync, Config!Goes
    <3>2. OnlySets(l) /\ l.sets = Config!Both(Config!One(sync, TRUE), Config!One(delay, x))
      BY <1>8, <2>2, SetsOnly, ZenonT(60)
    <3> HIDE DEF x
    <3>3. DOMAIN l.sets = {sync, delay} /\ l.sets[sync] = TRUE /\ l.sets[delay] = x
      BY <3>2 DEF Config!One, Config!Both
    <3> QED BY <2>0, <3>1, <3>2, <3>3, TwoPass, ZenonT(60)
  <2>3. CASE x \notin -999 .. 999
    <3>1. Config!Exits
      BY <2>1, <2>3, ZenonT(60) DEF Config!Sync
    <3> QED BY <1>8, <2>3, <3>1, ExitPasses, ZenonT(60)
  <2> QED BY <2>2, <2>3, ZenonT(60)
<1> QED BY <1>2, <1>6, <1>7, <1>8, ZenonT(60)

\* What two of the options set without a value.
LEMMA PortsDefault ==
  ASSUME Config!Ports, ~Config!option_has_value
  PROVE  Config!Goes(0, [settings EXCEPT !.tcp = <<7100, 7000, 7001>>, !.timing = 7011, !.udp = <<6001, 6000>>])
  BY SMT DEF Config!Ports

LEMMA PinAlone ==
  ASSUME Config!Pin, ~Config!option_has_value
  PROVE  Config!Goes(0, [settings EXCEPT !.setup_legacy_pairing = TRUE, !.require_password = TRUE])
  BY SMT DEF Config!Pin

LEMMA PinGiven ==
  ASSUME Config!Pin, Config!option_has_value, Config!get_value(Config!Next1, 9999) # <<>>
  PROVE  Config!Goes(1, [[settings EXCEPT !.setup_legacy_pairing = TRUE, !.require_password = TRUE]
                           EXCEPT !.pin = Config!Next1[1].num[1] + 10000])
  BY SMT DEF Config!Pin

\* Ports, of which the value may be missing, and may be two.
LEMMA PortsPass ==
  ASSUME NEW l, Reading(l), Config!Says(l), Config!Ports
  PROVE  Passed(l)
<1>1. Config!IsOf(l, "p")
  BY AtIs DEF Config!Ports
<1> DEFINE v == Config!Value(l)
           d == <<7100, 7000, 7001>>
           e == <<6001, 6000>>
           t == 7011
           W == {Config!Text("tcp"), Config!Text("udp")}
           P == Config!get_ports(v)
           Q == Config!get_ports(l.args[3])
<1>2. \/ Config!Values(l) = 0 /\ Config!Sets(l, [tcp |-> d, timing |-> t, udp |-> e])
      \/ Config!HasValue(l) /\ ~l.ok /\ v \in W
      \/ /\ Config!HasValue(l) /\ v \notin W
         /\ IF P = <<>> THEN ~l.ok ELSE Config!Sets(l, [tcp |-> P, udp |-> <<P[2], P[3]>>])
      \/ /\ Config!Values(l) = 2 /\ v \in W
         /\ IF Q = <<>> THEN ~l.ok
            ELSE IF v = Config!Text("tcp") THEN Config!Sets(l, [tcp |-> Q])
            ELSE Config!Sets(l, [timing |-> Q[1], udp |-> <<Q[2], Q[3]>>])
  BY <1>1 DEF Config!Says, Config!PortsSay
<1>3. \A w \in W : ~Config!Dash(w)
  BY DEF Config!Dash, Config!Text, Config!Chunk
<1> HIDE DEF W
<1>4. CASE Config!Values(l) = 0 /\ Config!Sets(l, [tcp |-> d, timing |-> t, udp |-> e])
  <2>1. settings' = [settings EXCEPT !["tcp"] = d, !["timing"] = t, !["udp"] = e] /\ Config!Goes(0, settings')
    <3>1. ~Config!option_has_value
      BY <1>4, NoValue
    <3>2. Config!Goes(0, [settings EXCEPT !.tcp = d, !.timing = t, !.udp = e])
      BY <3>1, PortsDefault
    <3> HIDE DEF d, e, t
    <3> QED BY <3>2 DEF Config!Goes
  <2> HIDE DEF d, e, t
  <2>2. OnlySets(l) /\ l.sets = [tcp |-> d, timing |-> t, udp |-> e]
    BY <1>4, SetsOnly
  <2>3. /\ DOMAIN l.sets = {"tcp", "timing", "udp"}
        /\ l.sets["tcp"] = d /\ l.sets["timing"] = t /\ l.sets["udp"] = e
        /\ "tcp" # "timing" /\ "tcp" # "udp" /\ "timing" # "udp"
    BY <2>2
  <2> QED BY <1>4, <2>1, <2>2, <2>3, ThreePass
<1>5. CASE Config!HasValue(l) /\ ~l.ok /\ v \in W
  <2>1. Config!Values(l) = 1 /\ ~Config!Dash(v)
    BY <1>5 DEF Config!HasValue
  <2>2. Config!option_has_value /\ Config!Next1 = v /\ (at + 1 < Len(argv) => IsName(argv[at + 2]))
    BY <2>1, OneValue
  <2>3. \/ Config!ReadsNull
        \/ at + 2 <= Config!argc /\ (Config!get_ports(argv[at + 2]) # <<>> \/ Config!Exits)
    <3>1. Config!argc \in Nat /\ at \in Nat
      BY DEF Reading, Config!argc
    <3> QED BY <1>5, <2>2, <3>1 DEF Config!Ports, W
  <2>4. at + 2 <= Config!argc => Config!get_ports(argv[at + 2]) = <<>>
    <3>1. at \in Nat /\ Len(argv) \in Nat
      BY DEF Reading
    <3>2. at + 2 <= Config!argc => IsName(argv[at + 2])
      BY <2>2, <3>1 DEF Config!argc
    <3> QED BY <3>2, NamesAreNot
  <2> QED BY <1>5, <2>3, <2>4, ExitPasses
<1>6. CASE /\ Config!HasValue(l) /\ v \notin W
           /\ IF P = <<>> THEN ~l.ok ELSE Config!Sets(l, [tcp |-> P, udp |-> <<P[2], P[3]>>])
  <2>1. Config!Values(l) = 1 /\ ~Config!Dash(v)
    BY <1>6 DEF Config!HasValue
  <2>2. Config!option_has_value /\ Config!Next1 = v
    BY <2>1, OneValue
  <2>3. IF P = <<>> THEN Config!Exits
        ELSE Config!Goes(1, [settings EXCEPT !.tcp = P, !.udp = <<P[2], P[3]>>])
    BY <1>6, <2>2 DEF Config!Ports, W
  <2> DEFINE u == <<P[2], P[3]>>
  <2>4. CASE P = <<>>
    BY <1>6, <2>3, <2>4, ExitPasses
  <2>5. CASE P # <<>>
    <3>1. Config!Sets(l, [tcp |-> P, udp |-> u])
      BY <1>6, <2>5
    <3>2. settings' = [settings EXCEPT !["tcp"] = P, !["udp"] = u] /\ Config!Goes(1, settings')
      BY <2>3, <2>5 DEF Config!Goes
    <3> HIDE DEF P, u
    <3>3. OnlySets(l) /\ l.sets = [tcp |-> P, udp |-> u]
      BY <3>1, SetsOnly
    <3>4. DOMAIN l.sets = {"tcp", "udp"} /\ l.sets["tcp"] = P /\ l.sets["udp"] = u /\ "tcp" # "udp"
      BY <3>3
    <3> QED BY <2>1, <3>2, <3>3, <3>4, TwoPass
  <2> QED BY <2>4, <2>5
<1>7. CASE /\ Config!Values(l) = 2 /\ v \in W
           /\ IF Q = <<>> THEN ~l.ok
              ELSE IF v = Config!Text("tcp") THEN Config!Sets(l, [tcp |-> Q])
              ELSE Config!Sets(l, [timing |-> Q[1], udp |-> <<Q[2], Q[3]>>])
  <2>0. Config!Values(l) = 2 /\ v \in W
    BY <1>7
  <2>1. /\ Config!option_has_value /\ Config!Next1 = v /\ ~(at + 2 > Config!argc)
        /\ argv[at + 2] = l.args[3]
    <3>1. ~Config!Dash(v)
      BY <1>3, <2>0
    <3>2. Config!option_has_value /\ Config!Next1 = v /\ at + 1 < Len(argv) /\ argv[at + 2] = l.args[3]
      BY <2>0, <3>1, TwoValues
    <3> QED BY <3>2 DEF Config!argc, Reading
  <2>2. IF Q = <<>> THEN Config!Exits
        ELSE IF v = Config!Text("tcp") THEN Config!Goes(2, [settings EXCEPT !.tcp = Q])
        ELSE Config!Goes(2, [settings EXCEPT !.timing = Q[1], !.udp = <<Q[2], Q[3]>>])
    BY <2>0, <2>1 DEF Config!Ports, W
  <2> DEFINE u == <<Q[2], Q[3]>>
             q == Q[1]
  <2>3. CASE Q = <<>>
    BY <1>7, <2>2, <2>3, ExitPasses
  <2>4. CASE Q # <<>> /\ v = Config!Text("tcp")
    <3>1. Config!Sets(l, [tcp |-> Q])
      BY <1>7, <2>4
    <3>2. settings' = [settings EXCEPT !["tcp"] = Q] /\ Config!Goes(2, settings')
      BY <2>2, <2>4 DEF Config!Goes
    <3> HIDE DEF Q
    <3>3. OnlySets(l) /\ l.sets = [tcp |-> Q]
      BY <3>1, SetsOnly
    <3>4. DOMAIN l.sets = {"tcp"} /\ l.sets["tcp"] = Q
      BY <3>3
    <3> QED BY <2>0, <3>2, <3>3, <3>4, OnePasses
  <2>5. CASE Q # <<>> /\ v # Config!Text("tcp")
    <3>1. Config!Sets(l, [timing |-> q, udp |-> u])
      BY <1>7, <2>5
    <3>2. settings' = [settings EXCEPT !["timing"] = q, !["udp"] = u] /\ Config!Goes(2, settings')
      BY <2>2, <2>5 DEF Config!Goes
    <3> HIDE DEF Q, q, u
    <3>3. OnlySets(l) /\ l.sets = [timing |-> q, udp |-> u]
      BY <3>1, SetsOnly
    <3>4. DOMAIN l.sets = {"timing", "udp"} /\ l.sets["timing"] = q /\ l.sets["udp"] = u /\ "timing" # "udp"
      BY <3>3
    <3> QED BY <2>0, <3>2, <3>3, <3>4, TwoPass
  <2> QED BY <2>3, <2>4, <2>5
<1> HIDE DEF P, Q
<1> QED BY <1>2, <1>4, <1>5, <1>6, <1>7

\* The address and the pin.
LEMMA MacPasses ==
  ASSUME NEW l, Reading(l), Config!Says(l), Config!Mac
  PROVE  Passed(l)
<1>1. Config!IsOf(l, "m")
  BY AtIs DEF Config!Mac
<1> DEFINE v == Config!Value(l)
<1>2. \/ Config!Values(l) = 0 /\ Config!Sets(l, [use_random_hw_addr |-> TRUE])
      \/ /\ Config!HasValue(l)
         /\ IF v \in Macs
            THEN Config!Sets(l, [use_random_hw_addr |-> FALSE, mac_address |-> v]) ELSE ~l.ok
  BY <1>1 DEF Config!Says, Config!AddressSays
<1>3. CASE Config!Values(l) = 0 /\ Config!Sets(l, [use_random_hw_addr |-> TRUE])
  <2>1. settings' = [settings EXCEPT !["use_random_hw_addr"] = TRUE] /\ Config!Goes(0, settings')
    BY <1>3, NoValue DEF Config!Mac, Config!Goes
  <2>2. OnlySets(l) /\ l.sets = [use_random_hw_addr |-> TRUE]
    BY <1>3, SetsOnly
  <2>3. DOMAIN l.sets = {"use_random_hw_addr"} /\ l.sets["use_random_hw_addr"] = TRUE
    BY <2>2
  <2> QED BY <1>3, <2>1, <2>2, <2>3, OnePasses
<1>4. CASE /\ Config!HasValue(l)
           /\ IF v \in Macs
              THEN Config!Sets(l, [use_random_hw_addr |-> FALSE, mac_address |-> v]) ELSE ~l.ok
  <2>1. Config!Values(l) = 1 /\ ~Config!Dash(v)
    BY <1>4 DEF Config!HasValue
  <2>2. Config!option_has_value /\ Config!Next1 = v
    BY <2>1, OneValue
  <2>3. CASE v \in Macs
    <3>1. settings' = [settings EXCEPT !["mac_address"] = v, !["use_random_hw_addr"] = FALSE]
          /\ Config!Goes(1, settings')
      BY <2>2, <2>3 DEF Config!Mac, Config!Goes
    <3>2. Config!Sets(l, [use_random_hw_addr |-> FALSE, mac_address |-> v])
      BY <1>4, <2>3
    <3> HIDE DEF v
    <3>3. OnlySets(l) /\ l.sets = [use_random_hw_addr |-> FALSE, mac_address |-> v]
      BY <3>2, SetsOnly
    <3>4. /\ DOMAIN l.sets = {"mac_address", "use_random_hw_addr"} /\ l.sets["mac_address"] = v
          /\ l.sets["use_random_hw_addr"] = FALSE /\ "mac_address" # "use_random_hw_addr"
      BY <3>3
    <3> QED BY <2>1, <3>1, <3>3, <3>4, TwoPass, ZenonT(60)
  <2>4. CASE v \notin Macs
    <3>1. ~l.ok /\ Config!Exits
      BY <1>4, <2>2, <2>4 DEF Config!Mac
    <3> QED BY <3>1, ExitPasses
  <2> QED BY <2>3, <2>4
<1> QED BY <1>2, <1>3, <1>4

LEMMA PinPasses ==
  ASSUME NEW l, Reading(l), Config!Says(l), Config!Pin
  PROVE  Passed(l)
<1>1. Config!IsOf(l, "pin")
  BY AtIs DEF Config!Pin
<1> DEFINE v == Config!Value(l)
           x == v[1].num[1] + 10000
           on == [setup_legacy_pairing |-> TRUE, require_password |-> TRUE]
<1>2. \/ Config!Values(l) = 0 /\ Config!Sets(l, on)
      \/ /\ Config!HasValue(l)
         /\ IF Config!get_value(v, 9999) # <<>>
            THEN Config!Sets(l, Config!Both(on, [pin |-> x])) ELSE ~l.ok
  BY <1>1 DEF Config!Says, Config!AddressSays
<1>3. CASE Config!Values(l) = 0 /\ Config!Sets(l, on)
  <2>1. settings' = [settings EXCEPT !["setup_legacy_pairing"] = TRUE, !["require_password"] = TRUE]
        /\ Config!Goes(0, settings')
    <3>1. ~Config!option_has_value
      BY <1>3, NoValue
    <3>2. Config!Goes(0, [settings EXCEPT !.setup_legacy_pairing = TRUE, !.require_password = TRUE])
      BY <3>1, PinAlone
    <3> QED BY <3>2 DEF Config!Goes
  <2>2. OnlySets(l) /\ l.sets = on
    BY <1>3, SetsOnly
  <2>3. /\ DOMAIN l.sets = {"setup_legacy_pairing", "require_password"}
        /\ l.sets["setup_legacy_pairing"] = TRUE /\ l.sets["require_password"] = TRUE
        /\ "setup_legacy_pairing" # "require_password"
    BY <2>2
  <2> QED BY <1>3, <2>1, <2>2, <2>3, TwoPass
<1>4. CASE /\ Config!HasValue(l)
           /\ IF Config!get_value(v, 9999) # <<>>
              THEN Config!Sets(l, Config!Both(on, [pin |-> x])) ELSE ~l.ok
  <2>1. Config!Values(l) = 1 /\ ~Config!Dash(v)
    BY <1>4 DEF Config!HasValue
  <2>2. Config!option_has_value /\ Config!Next1 = v
    BY <2>1, OneValue
  <2>3. CASE Config!get_value(v, 9999) # <<>>
    <3>0. PICK yes : yes = TRUE
      OBVIOUS
    <3>1. settings' = [settings EXCEPT !["setup_legacy_pairing"] = yes, !["require_password"] = yes,
                                       !["pin"] = x]
          /\ Config!Goes(1, settings')
      <4> DEFINE s == [settings EXCEPT !.setup_legacy_pairing = TRUE, !.require_password = TRUE]
      <4>1. Config!Goes(1, [s EXCEPT !.pin = x])
        BY <2>2, <2>3, PinGiven
      <4> HIDE DEF x
      <4>2. settings' = [s EXCEPT !.pin = x] /\ Config!Goes(1, settings')
        BY <4>1 DEF Config!Goes
      <4> QED BY <3>0, <4>2
    <3>2. Config!Sets(l, Config!Both(on, [pin |-> x]))
      BY <1>4, <2>3
    <3> HIDE DEF x
    <3>3. OnlySets(l) /\ l.sets = Config!Both(on, [pin |-> x])
      BY <3>2, SetsOnly
    <3>4. /\ DOMAIN l.sets = {"setup_legacy_pairing", "require_password", "pin"}
          /\ l.sets["setup_legacy_pairing"] = yes /\ l.sets["require_password"] = yes
          /\ l.sets["pin"] = x
      BY <3>0, <3>3 DEF Config!Both
    <3>5. /\ "setup_legacy_pairing" # "require_password" /\ "setup_legacy_pairing" # "pin"
          /\ "require_password" # "pin"
      OBVIOUS
    <3>6. Config!Goes(Config!Values(l), settings')
      BY <2>1, <3>1
    <3>7. PICK a, b, c : a = "setup_legacy_pairing" /\ b = "require_password" /\ c = "pin"
      OBVIOUS
    <3>8. settings' = [settings EXCEPT ![a] = yes, ![b] = yes, ![c] = x]
      BY <3>1, <3>7
    <3>9. /\ DOMAIN l.sets = {a, b, c} /\ l.sets[a] = yes /\ l.sets[b] = yes /\ l.sets[c] = x
          /\ a # b /\ a # c /\ b # c
      BY <3>4, <3>5, <3>7
    <3> QED BY <3>3, <3>6, <3>8, <3>9, ThreePass
  <2>4. CASE Config!get_value(v, 9999) = <<>>
    <3>1. ~l.ok /\ Config!Exits
      BY <1>4, <2>2, <2>4 DEF Config!Pin
    <3> QED BY <3>1, ExitPasses
  <2> QED BY <2>3, <2>4
<1> QED BY <1>2, <1>3, <1>4

\* What a dump does with what it finds.
LEMMA DumpAlone ==
  ASSUME NEW name, NEW on, NEW limit, NEW file, Config!Dump(name, on, limit, file), ~Config!option_has_value
  PROVE  Config!Goes(0, [settings EXCEPT ![on] = TRUE])
  BY SMT DEF Config!Dump

LEMMA DumpFile ==
  ASSUME NEW name, NEW on, NEW limit, NEW file, Config!Dump(name, on, limit, file), Config!option_has_value,
         Config!get_value(Config!Next1, 0) = <<>>
  PROVE  Config!Goes(1, [[settings EXCEPT ![on] = TRUE] EXCEPT ![file] = Config!Next1])
  BY SMT DEF Config!Dump

LEMMA DumpRefuses ==
  ASSUME NEW name, NEW on, NEW limit, NEW file, Config!Dump(name, on, limit, file), Config!option_has_value,
         Config!get_value(Config!Next1, 0) # <<>>, name = "vdmp" /\ Config!Next1[1].num[1] = 0
  PROVE  Config!Exits
  BY SMT DEF Config!Dump

LEMMA DumpLimit ==
  ASSUME NEW name, NEW on, NEW limit, NEW file, Config!Dump(name, on, limit, file), Config!option_has_value,
         Config!get_value(Config!Next1, 0) # <<>>, ~(name = "vdmp" /\ Config!Next1[1].num[1] = 0),
         ~(at + 1 < Config!argc /\ ~Config!Dash(argv[at + 2]))
  PROVE  Config!Goes(1, [[settings EXCEPT ![on] = TRUE] EXCEPT ![limit] = Config!Next1[1].num[1]])
  BY SMT DEF Config!Dump

LEMMA DumpBoth ==
  ASSUME NEW name, NEW on, NEW limit, NEW file, Config!Dump(name, on, limit, file), Config!option_has_value,
         Config!get_value(Config!Next1, 0) # <<>>, ~(name = "vdmp" /\ Config!Next1[1].num[1] = 0),
         at + 1 < Config!argc /\ ~Config!Dash(argv[at + 2])
  PROVE  Config!Goes(2, [[settings EXCEPT ![on] = TRUE]
                           EXCEPT ![limit] = Config!Next1[1].num[1], ![file] = argv[at + 2]])
  BY SMT DEF Config!Dump

\* What a line says of a dump: nothing, a number, a file, or a number and a
\* file.
TwoSets(a, x, b, y) == Config!Both(Config!One(a, x), Config!One(b, y))
RefusedDump(l, name) ==
  Config!get_value(Config!Value(l), 0) # <<>> /\ name = "vdmp" /\ Config!Value(l)[1].num[1] = 0
DumpCases(l, name, on, limit, file) ==
  \/ Config!Values(l) = 0 /\ Config!Sets(l, Config!One(on, TRUE))
  \/ /\ Config!HasValue(l)
     /\ IF RefusedDump(l, name) THEN ~l.ok
        ELSE IF Config!get_value(Config!Value(l), 0) = <<>>
        THEN Config!Sets(l, TwoSets(on, TRUE, file, Config!Value(l)))
        ELSE Config!Sets(l, TwoSets(on, TRUE, limit, Config!Value(l)[1].num[1]))
  \/ /\ Config!Values(l) = 2 /\ Config!get_value(Config!Value(l), 0) # <<>> /\ ~Config!Dash(l.args[3])
     /\ IF RefusedDump(l, name) THEN ~l.ok
        ELSE Config!Sets(l, Config!Both(TwoSets(on, TRUE, limit, Config!Value(l)[1].num[1]),
                                        Config!One(file, l.args[3])))
LEMMA DumpSaid ==
  ASSUME NEW l, Config!Says(l), NEW name, NEW on, NEW limit, NEW file,
         <<name, on, limit, file>> \in
           {<<"vdmp", "dump_video", "video_dump_limit", "video_dumpfile_name">>,
            <<"admp", "dump_audio", "audio_dump_limit", "audio_dumpfile_name">>},
         Config!IsOf(l, name)
  PROVE  DumpCases(l, name, on, limit, file)
<1> DEFINE t == <<name, on, limit, file>>
           T == {<<"vdmp", "dump_video", "video_dump_limit", "video_dumpfile_name">>,
                 <<"admp", "dump_audio", "audio_dump_limit", "audio_dumpfile_name">>}
<1>1. t[1] = name /\ t[2] = on /\ t[3] = limit /\ t[4] = file
  OBVIOUS
<1>2. Config!DumpSays(l)
  BY DEF Config!Says
<1>3. \A s \in T : Config!IsOf(l, s[1]) => DumpCases(l, s[1], s[2], s[3], s[4])
  BY <1>2 DEF Config!DumpSays, Config!SetsOne, DumpCases, RefusedDump, TwoSets
<1> HIDE DEF T
<1>4. t \in T
  BY DEF T
<1> HIDE DEF t
<1> QED BY <1>1, <1>3, <1>4

\* It sets what it says.
HasTwo(f, a, x, b, y) == DOMAIN f = {a, b} /\ f[a] = x /\ f[b] = y
HasThree(f, a, x, b, y, c, z) == DOMAIN f = {a, b, c} /\ f[a] = x /\ f[b] = y /\ f[c] = z

LEMMA SetTwo ==
  ASSUME NEW a, NEW x, NEW b, NEW y, a # b
  PROVE  HasTwo(TwoSets(a, x, b, y), a, x, b, y)
  BY DEF HasTwo, TwoSets, Config!Both, Config!One

LEMMA SetThree ==
  ASSUME NEW a, NEW x, NEW b, NEW y, NEW c, NEW z, a # b, a # c, b # c
  PROVE  HasThree(Config!Both(TwoSets(a, x, b, y), Config!One(c, z)), a, x, b, y, c, z)
<1> DEFINE g == TwoSets(a, x, b, y)
           h == Config!One(c, z)
           f == Config!Both(g, h)
<1>1. HasTwo(g, a, x, b, y)
  BY SetTwo
<1>2. DOMAIN h = {c} /\ h[c] = z
  BY DEF Config!One
<1> HIDE DEF g, h
<1>3. DOMAIN f = {a, b, c} /\ f[a] = x /\ f[b] = y /\ f[c] = z
  BY <1>1, <1>2 DEF HasTwo, Config!Both
<1> QED BY <1>3 DEF HasThree, g, h

LEMMA DumpPasses ==
  ASSUME NEW l, Reading(l), NEW name, NEW on, NEW limit, NEW file, on # limit, on # file, limit # file,
         DumpCases(l, name, on, limit, file), Config!Dump(name, on, limit, file)
  PROVE  Passed(l)
<1> DEFINE v == Config!Value(l)
           w == l.args[3]
           x == v[1].num[1]
           Refused(a) == RefusedDump(l, a)
<1>3. \/ Config!Values(l) = 0 /\ Config!Sets(l, Config!One(on, TRUE))
      \/ /\ Config!HasValue(l)
         /\ IF Refused(name) THEN ~l.ok
            ELSE IF Config!get_value(v, 0) = <<>>
            THEN Config!Sets(l, TwoSets(on, TRUE, file, v))
            ELSE Config!Sets(l, TwoSets(on, TRUE, limit, x))
      \/ /\ Config!Values(l) = 2 /\ Config!get_value(v, 0) # <<>> /\ ~Config!Dash(w)
         /\ IF Refused(name) THEN ~l.ok
            ELSE Config!Sets(l, Config!Both(TwoSets(on, TRUE, limit, x), Config!One(file, w)))
  BY DEF DumpCases
<1> HIDE DEF v, w, x
<1>4. PICK yes : yes = TRUE
  OBVIOUS
<1>7. CASE Config!Values(l) = 0 /\ Config!Sets(l, Config!One(on, TRUE))
  <2>1. Config!Goes(0, [settings EXCEPT ![on] = TRUE])
    BY <1>7, NoValue, DumpAlone
  <2>2. settings' = [settings EXCEPT ![on] = yes] /\ Config!Goes(0, settings')
    BY <1>4, <2>1 DEF Config!Goes
  <2>3. OnlySets(l) /\ l.sets = Config!One(on, yes)
    BY <1>4, <1>7, SetsOnly
  <2>4. DOMAIN l.sets = {on} /\ l.sets[on] = yes
    BY <2>3 DEF Config!One
  <2> QED BY <1>7, <2>2, <2>3, <2>4, OnePasses
<1>8. CASE /\ Config!HasValue(l)
           /\ IF Refused(name) THEN ~l.ok
              ELSE IF Config!get_value(v, 0) = <<>>
              THEN Config!Sets(l, TwoSets(on, TRUE, file, v))
              ELSE Config!Sets(l, TwoSets(on, TRUE, limit, x))
  <2>1. Config!Values(l) = 1 /\ ~Config!Dash(v)
    BY <1>8 DEF Config!HasValue, v
  <2>2. /\ Config!option_has_value /\ Config!Next1 = v
        /\ ~(at + 1 < Config!argc /\ ~Config!Dash(argv[at + 2]))
    BY <2>1, OneValue, NamesAreNot DEF Config!argc, v
  <2>3. CASE Refused(name)
    <3>1. ~l.ok
      BY <1>8, <2>3
    <3>2. Config!Exits
      BY <2>2, <2>3, DumpRefuses DEF x, v, RefusedDump
    <3> QED BY <3>1, <3>2, ExitPasses
  <2>4. CASE ~Refused(name) /\ Config!get_value(v, 0) = <<>>
    <3>1. Config!Goes(1, [[settings EXCEPT ![on] = TRUE] EXCEPT ![file] = v])
      BY <2>2, <2>4, DumpFile
    <3>2. settings' = [settings EXCEPT ![on] = yes, ![file] = v] /\ Config!Goes(1, settings')
      BY <1>4, <3>1 DEF Config!Goes
    <3>3. OnlySets(l) /\ l.sets = TwoSets(on, yes, file, v)
      BY <1>4, <1>8, <2>4, SetsOnly
    <3>4. DOMAIN l.sets = {on, file} /\ l.sets[on] = yes /\ l.sets[file] = v
      <4>1. HasTwo(l.sets, on, yes, file, v)
        BY <3>3, SetTwo
      <4> QED BY <4>1 DEF HasTwo
    <3>5. Config!Goes(Config!Values(l), settings')
      BY <2>1, <3>2
    <3> QED BY <3>2, <3>3, <3>4, <3>5, TwoPass
  <2>5. CASE ~Refused(name) /\ Config!get_value(v, 0) # <<>>
    <3>1. Config!Goes(1, [[settings EXCEPT ![on] = TRUE] EXCEPT ![limit] = x])
      BY <2>2, <2>5, DumpLimit DEF x, v, RefusedDump
    <3>2. settings' = [settings EXCEPT ![on] = yes, ![limit] = x] /\ Config!Goes(1, settings')
      BY <1>4, <3>1 DEF Config!Goes
    <3>3. OnlySets(l) /\ l.sets = TwoSets(on, yes, limit, x)
      BY <1>4, <1>8, <2>5, SetsOnly
    <3>4. DOMAIN l.sets = {on, limit} /\ l.sets[on] = yes /\ l.sets[limit] = x
      <4>1. HasTwo(l.sets, on, yes, limit, x)
        BY <3>3, SetTwo
      <4> QED BY <4>1 DEF HasTwo
    <3>5. Config!Goes(Config!Values(l), settings')
      BY <2>1, <3>2
    <3> QED BY <3>2, <3>3, <3>4, <3>5, TwoPass
  <2> QED BY <2>3, <2>4, <2>5
<1>9. CASE /\ Config!Values(l) = 2 /\ Config!get_value(v, 0) # <<>> /\ ~Config!Dash(w)
           /\ IF Refused(name) THEN ~l.ok
              ELSE Config!Sets(l, Config!Both(TwoSets(on, TRUE, limit, x), Config!One(file, w)))
  <2>1. ~Config!Dash(v)
    BY <1>9 DEF Config!get_value
  <2>2. /\ Config!option_has_value /\ Config!Next1 = v
        /\ at + 1 < Config!argc /\ argv[at + 2] = w /\ ~Config!Dash(argv[at + 2])
    BY <1>9, <2>1, TwoValues DEF Config!argc, v, w
  <2>3. CASE Refused(name)
    <3>1. ~l.ok
      BY <1>9, <2>3
    <3>2. Config!Exits
      BY <2>2, <2>3, DumpRefuses DEF x, v, RefusedDump
    <3> QED BY <3>1, <3>2, ExitPasses
  <2>4. CASE ~Refused(name)
    <3>1. Config!Goes(2, [[settings EXCEPT ![on] = TRUE] EXCEPT ![limit] = x, ![file] = w])
      BY <1>9, <2>2, <2>4, DumpBoth DEF x, v, RefusedDump
    <3>2. settings' = [settings EXCEPT ![on] = yes, ![limit] = x, ![file] = w] /\ Config!Goes(2, settings')
      BY <1>4, <3>1 DEF Config!Goes
    <3>3. OnlySets(l) /\ l.sets = Config!Both(TwoSets(on, yes, limit, x), Config!One(file, w))
      BY <1>4, <1>9, <2>4, SetsOnly
    <3>4. DOMAIN l.sets = {on, limit, file} /\ l.sets[on] = yes /\ l.sets[limit] = x /\ l.sets[file] = w
      <4>1. HasThree(l.sets, on, yes, limit, x, file, w)
        BY <3>3, SetThree
      <4> QED BY <4>1 DEF HasThree
    <3>5. Config!Goes(Config!Values(l), settings')
      BY <1>9, <3>2
    <3> QED BY <3>2, <3>3, <3>4, <3>5, ThreePass, ZenonT(60)
  <2> QED BY <2>3, <2>4
<1> QED BY <1>3, <1>7, <1>8, <1>9

\* What a line says of a file, and what the parser makes of it.
FileCases(l, member, without, more) ==
  \/ Config!Values(l) = 0 /\ Config!Sets(l, Config!Both(Config!One(member, without), more))
  \/ /\ Config!HasValue(l)
     /\ IF Config!Value(l) \in Writable
        THEN Config!Sets(l, Config!Both(Config!One(member, Config!Value(l)), more)) ELSE ~l.ok
FileReads(on, member, without) ==
  IF ~Config!option_has_value THEN Config!Goes(0, [on EXCEPT ![member] = without])
  ELSE IF Config!Next1 \in Writable THEN Config!Goes(1, [on EXCEPT ![member] = Config!Next1])
  ELSE Config!Exits

\* With nothing more to set it sets its member,
LEMMA FilePasses ==
  ASSUME NEW l, Reading(l), NEW member, NEW without,
         FileCases(l, member, without, <<>>), FileReads(settings, member, without)
  PROVE  Passed(l)
<1> DEFINE v == Config!Value(l)
<1>1. \/ Config!Values(l) = 0 /\ Config!Sets(l, Config!Both(Config!One(member, without), <<>>))
      \/ /\ Config!HasValue(l)
         /\ IF v \in Writable
            THEN Config!Sets(l, Config!Both(Config!One(member, v), <<>>)) ELSE ~l.ok
  BY DEF FileCases
<1>2. ASSUME NEW y, Config!Sets(l, Config!Both(Config!One(member, y), <<>>)),
             Config!Goes(Config!Values(l), [settings EXCEPT ![member] = y])
      PROVE  Passed(l)
  <2>1. OnlySets(l) /\ l.sets = Config!Both(Config!One(member, y), <<>>)
    BY <1>2, SetsOnly
  <2>2. DOMAIN l.sets = {member} /\ l.sets[member] = y
    BY <2>1 DEF Config!Both, Config!One
  <2>3. settings' = [settings EXCEPT ![member] = y] /\ Config!Goes(Config!Values(l), settings')
    BY <1>2 DEF Config!Goes
  <2> QED BY <2>1, <2>2, <2>3, OnePasses
<1>3. CASE Config!Values(l) = 0 /\ Config!Sets(l, Config!Both(Config!One(member, without), <<>>))
  <2>1. Config!Goes(0, [settings EXCEPT ![member] = without])
    BY <1>3, NoValue DEF FileReads
  <2> QED BY <1>2, <1>3, <2>1
<1>4. CASE /\ Config!HasValue(l)
           /\ IF v \in Writable
              THEN Config!Sets(l, Config!Both(Config!One(member, v), <<>>)) ELSE ~l.ok
  <2>1. Config!Values(l) = 1 /\ ~Config!Dash(v)
    BY <1>4 DEF Config!HasValue
  <2>2. Config!option_has_value /\ Config!Next1 = v
    BY <2>1, OneValue
  <2> HIDE DEF v
  <2>3. CASE v \in Writable
    <3>1. Config!Goes(1, [settings EXCEPT ![member] = v])
      BY <2>2, <2>3 DEF FileReads
    <3>2. Config!Sets(l, Config!Both(Config!One(member, v), <<>>))
      BY <1>4, <2>3
    <3> QED BY <1>2, <2>1, <3>1, <3>2
  <2>4. CASE v \notin Writable
    <3>1. ~l.ok /\ Config!Exits
      BY <1>4, <2>2, <2>4 DEF FileReads
    <3> QED BY <3>1, ExitPasses
  <2> QED BY <2>3, <2>4
<1> QED BY <1>1, <1>3, <1>4

\* or with one more, that too.
LEMMA RegisterPasses ==
  ASSUME NEW l, Reading(l), NEW member, NEW without, NEW more, NEW x, member # more,
         FileCases(l, member, without, Config!One(more, x)),
         FileReads([settings EXCEPT ![more] = x], member, without)
  PROVE  Passed(l)
<1> DEFINE v == Config!Value(l)
<1>1. \/ Config!Values(l) = 0 /\ Config!Sets(l, TwoSets(member, without, more, x))
      \/ /\ Config!HasValue(l)
         /\ IF v \in Writable
            THEN Config!Sets(l, TwoSets(member, v, more, x)) ELSE ~l.ok
  BY DEF FileCases, TwoSets
<1>2. ASSUME NEW y, Config!Sets(l, TwoSets(member, y, more, x)),
             Config!Goes(Config!Values(l), [[settings EXCEPT ![more] = x] EXCEPT ![member] = y])
      PROVE  Passed(l)
  <2>1. OnlySets(l) /\ l.sets = TwoSets(member, y, more, x)
    BY <1>2, SetsOnly
  <2>2. DOMAIN l.sets = {more, member} /\ l.sets[member] = y /\ l.sets[more] = x
    <3>1. HasTwo(l.sets, member, y, more, x)
      BY <2>1, SetTwo
    <3> QED BY <3>1 DEF HasTwo
  <2>3. settings' = [settings EXCEPT ![more] = x, ![member] = y] /\ Config!Goes(Config!Values(l), settings')
    BY <1>2 DEF Config!Goes
  <2> QED BY <2>1, <2>2, <2>3, TwoPass
<1>3. CASE Config!Values(l) = 0 /\ Config!Sets(l, TwoSets(member, without, more, x))
  <2>1. Config!Goes(0, [[settings EXCEPT ![more] = x] EXCEPT ![member] = without])
    BY <1>3, NoValue DEF FileReads
  <2> QED BY <1>2, <1>3, <2>1
<1>4. CASE /\ Config!HasValue(l)
           /\ IF v \in Writable
              THEN Config!Sets(l, TwoSets(member, v, more, x)) ELSE ~l.ok
  <2>1. Config!Values(l) = 1 /\ ~Config!Dash(v)
    BY <1>4 DEF Config!HasValue
  <2>2. Config!option_has_value /\ Config!Next1 = v
    BY <2>1, OneValue
  <2> HIDE DEF v
  <2>3. CASE v \in Writable
    <3>1. Config!Goes(1, [[settings EXCEPT ![more] = x] EXCEPT ![member] = v])
      BY <2>2, <2>3 DEF FileReads
    <3>2. Config!Sets(l, TwoSets(member, v, more, x))
      BY <1>4, <2>3
    <3> QED BY <1>2, <2>1, <3>1, <3>2
  <2>4. CASE v \notin Writable
    <3>1. ~l.ok /\ Config!Exits
      BY <1>4, <2>2, <2>4 DEF FileReads
    <3> QED BY <3>1, ExitPasses
  <2> QED BY <2>3, <2>4
<1> QED BY <1>1, <1>3, <1>4

LEMMA FileOptionPasses ==
  ASSUME NEW l, Reading(l), Config!Says(l), NEW name \in DOMAIN Config!FileOptions,
         Config!FileOption(name)
  PROVE  Passed(l)
<1> DEFINE member == Config!FileOptions[name]
           without == Config!WithoutFile[name]
           more == IF name = "reg" THEN [registration_list |-> TRUE] ELSE <<>>
           on == IF name = "reg" THEN [settings EXCEPT !.registration_list = TRUE] ELSE settings
<1>1. Config!IsOf(l, name)
  BY AtIs DEF Config!FileOption
<1>2. FileCases(l, member, without, more)
  BY <1>1 DEF Config!Says, Config!FileSays, FileCases
<1>3. FileReads(on, member, without)
  BY DEF Config!FileOption, FileReads
<1>4. CASE name = "reg"
  <2>1. PICK yes : yes = TRUE
    OBVIOUS
  <2>2. more = Config!One("registration_list", yes)
    <3>1. more = [registration_list |-> TRUE]
      BY <1>4, Zenon
    <3>2. [registration_list |-> yes] = Config!One("registration_list", yes)
      BY DEF Config!One
    <3> QED BY <2>1, <3>1, <3>2
  <2>3. on = [settings EXCEPT !["registration_list"] = yes]
    BY <1>4, <2>1
  <2>4. member # "registration_list"
    BY <1>4 DEF Config!FileOptions
  <2> HIDE DEF member, without, more, on
  <2> QED BY <1>2, <1>3, <2>2, <2>3, <2>4, RegisterPasses
<1>5. CASE name # "reg"
  <2>1. more = <<>> /\ on = settings
    BY <1>5
  <2> HIDE DEF member, without, more, on
  <2> QED BY <1>2, <1>3, <2>1, FilePasses
<1> QED BY <1>4, <1>5

\* What there is no more, and what there never was.
LEMMA RemovedPasses ==
  ASSUME NEW l, Reading(l), Config!Says(l), Config!Removed
  PROVE  Passed(l)
<1>1. PICK name \in Config!RemovedNames : Config!At(name)
  BY DEF Config!Removed
<1>2. ~l.ok
  BY <1>1, AtIs DEF Config!Says, Config!OtherSays
<1> QED BY <1>2, ExitPasses DEF Config!Removed

LEMMA UnknownPasses ==
  ASSUME NEW l, Reading(l), Config!Says(l), Config!Unknown
  PROVE  Passed(Heard(l))
<1>1. ~\E name \in Config!Known : Config!At(name)
  BY DEF Config!Unknown, Config!At
<1>2. Config!IsUnknown(l)
  BY <1>1, AtIs DEF Config!IsUnknown
<1>3. Config!Values(l) = 0
  BY <1>2 DEF Config!Says, Config!OtherSays
<1> DEFINE h == Heard(l)
<1>4. ~Config!IsOf(l, "r")
  <2>1. "r" \in Config!Known
    BY DEF Config!Known
  <2> QED BY <1>2, <2>1 DEF Config!IsUnknown
<1>5. h.turns = {} /\ h.adds = <<>> /\ h.sets = <<>> /\ h.ok
  BY <1>2, <1>4 DEF Heard
<1>6. Config!Values(h) = 0 /\ Reading(h)
  BY <1>3, HeardArgs, HeardReading DEF Config!Values
<1> HIDE DEF h
<1>7. DOMAIN h.sets = {} /\ DOMAIN h.adds = {}
  BY <1>5
<1>8. settings = Effect(settings, h)
  <2>1. settings = [m \in Members |-> settings[m]]
    BY DEF Reading, AreSettings
  <2>2. Effect(settings, h) = [m \in Members |-> settings[m]]
    BY <1>5, <1>7 DEF Effect
  <2> QED BY <2>1, <2>2
<1>9. Config!Goes(Config!Values(h), settings)
  BY <1>6 DEF Config!Unknown
<1>10. Passed(h)
  BY <1>5, <1>6, <1>8, <1>9, GoesPast
<1> QED BY <1>10 DEF h

\* Whatever the parser does at a line, it goes past it as it heard it.
LEMMA LinePasses ==
  ASSUME NEW l, Reading(l), Config!Says(l), Config!Next
  PROVE  Passed(Heard(l))
<1>1. outcome = "parsing"
  BY DEF Reading
<1>2. ~Config!Started /\ ~Config!read_config_file
  BY <1>1 DEF Config!Started, Config!read_config_file
<1>a. ASSUME NEW name \in Config!Known, name # "r", Config!At(name), Passed(l)
      PROVE  Passed(Heard(l))
  BY <1>a, HeardAsSaid
<1>3. CASE \E name \in Config!FlagNames : Config!Flag(name)
  <2>1. PICK name \in Config!FlagNames : Config!Flag(name)
    BY <1>3
  <2>2. Config!At(name) /\ Passed(l)
    BY <2>1, FlagPasses DEF Config!Flag
  <2>3. name \in Config!Known /\ name # "r"
    BY DEF Config!Known, Config!FlagNames
  <2> QED BY <1>a, <2>2, <2>3
<1>4. CASE \E name \in DOMAIN Config!TextOptions : Config!TextOption(name)
  <2>1. PICK name \in DOMAIN Config!TextOptions : Config!TextOption(name)
    BY <1>4
  <2>2. Config!At(name) /\ Passed(l)
    BY <2>1, TextPasses DEF Config!TextOption
  <2>3. name \in Config!Known /\ name # "r"
    BY DEF Config!Known, Config!TextOptions
  <2> QED BY <1>a, <2>2, <2>3
<1>5. CASE \E name \in DOMAIN Config!ListOptions : Config!ListOption(name)
  <2>1. PICK name \in DOMAIN Config!ListOptions : Config!ListOption(name)
    BY <1>5
  <2>2. Config!At(name) /\ Passed(l)
    BY <2>1, ListPasses DEF Config!ListOption
  <2>3. name \in Config!Known /\ name # "r"
    BY DEF Config!Known, Config!ListOptions
  <2> QED BY <1>a, <2>2, <2>3
<1>6. CASE \E name \in DOMAIN Config!FileOptions : Config!FileOption(name)
  <2>1. PICK name \in DOMAIN Config!FileOptions : Config!FileOption(name)
    BY <1>6
  <2>2. Config!At(name) /\ Passed(l)
    BY <2>1, FileOptionPasses DEF Config!FileOption
  <2>3. name \in Config!Known /\ name # "r"
    BY DEF Config!Known, Config!FileOptions
  <2> QED BY <1>a, <2>2, <2>3
<1>7. ASSUME NEW a, NEW b, NEW c, b # c, Config!Sync(a, b, c),
             <<a, b, c>> \in {<<"async", "audio_sync", "audio_delay_alac">>,
                              <<"vsync", "video_sync", "audio_delay_aac">>}
      PROVE  Passed(Heard(l))
  <2>1. a \in {"async", "vsync"}
    BY <1>7
  <2>2. Config!At(a) /\ Passed(l)
    <3>1. Passed(l)
      BY <1>7, <2>1, SyncPasses
    <3> QED BY <1>7, <3>1, Zenon DEF Config!Sync
  <2>3. a \in Config!Known /\ a # "r"
    BY <2>1 DEF Config!Known
  <2> QED BY <1>a, <2>2, <2>3
<1>8. CASE \/ Config!Sync("async", "audio_sync", "audio_delay_alac")
           \/ Config!Sync("vsync", "video_sync", "audio_delay_aac")
  <2>1. PICK a, b, c : /\ Config!Sync(a, b, c)
                       /\ \/ a = "async" /\ b = "audio_sync" /\ c = "audio_delay_alac"
                          \/ a = "vsync" /\ b = "video_sync" /\ c = "audio_delay_aac"
    BY <1>8, Zenon
  <2>2. /\ b # c
        /\ <<a, b, c>> \in {<<"async", "audio_sync", "audio_delay_alac">>,
                            <<"vsync", "video_sync", "audio_delay_aac">>}
    BY <2>1
  <2> QED BY <1>7, <2>1, <2>2
<1>9. ASSUME NEW a, NEW b, NEW c, NEW d, b # c, b # d, c # d,
             <<a, b, c, d>> \in
               {<<"vdmp", "dump_video", "video_dump_limit", "video_dumpfile_name">>,
                <<"admp", "dump_audio", "audio_dump_limit", "audio_dumpfile_name">>},
             Config!Dump(a, b, c, d)
      PROVE  Passed(Heard(l))
  <2>1. Config!At(a)
    BY <1>9 DEF Config!Dump
  <2>2. DumpCases(l, a, b, c, d)
    BY <1>9, <2>1, AtIs, DumpSaid
  <2>3. Passed(l)
    BY <1>9, <2>2, DumpPasses
  <2>4. a \in Config!Known /\ a # "r"
    BY <1>9 DEF Config!Known
  <2> QED BY <1>a, <2>1, <2>3, <2>4
<1>10. CASE \/ Config!Dump("vdmp", "dump_video", "video_dump_limit", "video_dumpfile_name")
            \/ Config!Dump("admp", "dump_audio", "audio_dump_limit", "audio_dumpfile_name")
  <2>1. PICK a, b, c, d :
          /\ Config!Dump(a, b, c, d)
          /\ \/ a = "vdmp" /\ b = "dump_video" /\ c = "video_dump_limit" /\ d = "video_dumpfile_name"
             \/ a = "admp" /\ b = "dump_audio" /\ c = "audio_dump_limit" /\ d = "audio_dumpfile_name"
    BY <1>10, Zenon
  <2>2. /\ b # c /\ b # d /\ c # d
        /\ <<a, b, c, d>> \in
               {<<"vdmp", "dump_video", "video_dump_limit", "video_dumpfile_name">>,
                <<"admp", "dump_audio", "audio_dump_limit", "audio_dumpfile_name">>}
    BY <2>1
  <2> QED BY <1>9, <2>1, <2>2
<1>11. CASE Config!Flip
  <2>1. CASE Config!At("f")
    <3>1. "f" \in Config!Known /\ "f" # "r"
      BY DEF Config!Known
    <3> QED BY <1>a, <1>11, <2>1, <3>1, FlipPasses
  <2>2. CASE Config!At("r")
    BY <1>11, <2>2, RotationPasses
  <2> QED BY <1>11, <2>1, <2>2 DEF Config!Flip
<1>12. CASE \/ Config!Display \/ Config!Fps \/ Config!Restricted
            \/ Config!Ports \/ Config!Mac \/ Config!ResetLimit
            \/ Config!CoverArt \/ Config!Latency \/ Config!Pin \/ Config!Decibels
  <2>1. Passed(l)
    BY <1>12, DisplayPasses, FpsPasses, RestrictedPasses, PortsPass, MacPasses, ResetPasses,
       CoverArtPasses, LatencyPasses, PinPasses, DecibelsPass
  <2>2. \E name \in {"s", "fps", "restrict", "p", "m", "reset", "ca", "al", "pin", "db"} : Config!At(name)
    <3>1. Config!Display => Config!At("s")
      BY DEF Config!Display
    <3>2. Config!Fps => Config!At("fps")
      BY DEF Config!Fps
    <3>3. Config!Restricted => Config!At("restrict")
      BY DEF Config!Restricted
    <3>4. Config!Ports => Config!At("p")
      BY DEF Config!Ports
    <3>5. Config!Mac => Config!At("m")
      BY DEF Config!Mac
    <3>6. Config!ResetLimit => Config!At("reset")
      BY DEF Config!ResetLimit
    <3>7. Config!CoverArt => Config!At("ca")
      BY DEF Config!CoverArt
    <3>8. Config!Latency => Config!At("al")
      BY DEF Config!Latency
    <3>9. Config!Pin => Config!At("pin")
      BY DEF Config!Pin
    <3>10. Config!Decibels => Config!At("db")
      BY DEF Config!Decibels
    <3> QED BY <1>12, <3>1, <3>2, <3>3, <3>4, <3>5, <3>6, <3>7, <3>8, <3>9, <3>10
  <2>3. PICK name \in {"s", "fps", "restrict", "p", "m", "reset", "ca", "al", "pin", "db"} : Config!At(name)
    BY <2>2
  <2>4. name \in Config!Known /\ name # "r"
    BY DEF Config!Known
  <2> QED BY <1>a, <2>1, <2>3, <2>4
<1>13. CASE Config!Removed
  <2>1. PICK name \in Config!RemovedNames : Config!At(name)
    BY <1>13 DEF Config!Removed
  <2>2. name \in Config!Known /\ name # "r"
    BY DEF Config!Known, Config!RemovedNames
  <2> QED BY <1>a, <1>13, <2>1, <2>2, RemovedPasses
<1> QED BY <1>2, <1>3, <1>4, <1>5, <1>6, <1>8, <1>10, <1>11, <1>12, <1>13, UnknownPasses, Zenon DEF Config!Next

-----------------------------------------------------------------------------
\* Parts s put behind one another: what there is after each of them.
Joined(f, E, s) ==
  /\ f \in [0 .. Len(s) -> Seq(E)] /\ f[0] = <<>>
  /\ \A k \in 1 .. Len(s) : f[k] = f[k - 1] \o s[k]

\* FlattenSeq puts parts behind one another.
LEMMA Flattens ==
  ASSUME NEW E, NEW s \in Seq(Seq(E)), s # <<>>
  PROVE  \E f : Joined(f, E, s) /\ Config!FlattenSeq(s) = f[Len(s)]
<1> DEFINE n == Len(s)
           F == [w \in (1 .. n) \X Seq(E) |-> w[2] \o s[w[1]]]
           Flat(g) == g = [k \in 1 .. n |-> IF k = 1 THEN s[k] ELSE g[k - 1] \o s[k]]
<1>0. n \in Nat /\ n # 0 /\ \A k \in 1 .. n : s[k] \in Seq(E)
  BY EmptySeq, ElementOfSeq
<1>1. Config!FlattenSeq(s) = (CHOOSE g : Flat(g))[n]
  BY <1>0 DEF Config!FlattenSeq
<1> HIDE DEF n
<1>2. LoopOf(F, Seq(E), n) /\ <<>> \in Seq(E)
  <2>1. \A w \in (1 .. n) \X Seq(E) : w[2] \o s[w[1]] \in Seq(E)
    BY <1>0, ConcatProperties
  <2> QED BY <2>1 DEF LoopOf
<1>3. \A k \in 1 .. n, a \in Seq(E) : F[<<k, a>>] = a \o s[k]
  OBVIOUS
<1> HIDE DEF F
<1>4. PICK f : TableOf(f, F, Seq(E), <<>>, n)
  BY <1>0, <1>2, TableOfSteps
<1>5. f \in [0 .. n -> Seq(E)] /\ f[0] = <<>>
  BY <1>4 DEF TableOf
<1>6. ASSUME NEW k \in 1 .. n PROVE f[k] = f[k - 1] \o s[k] /\ k - 1 \in 0 .. n
  <2>1. k - 1 \in 0 .. n
    BY <1>0
  <2>2. f[k - 1] \in Seq(E) /\ f[k] = F[<<k, f[k - 1]>>]
    BY <1>4, <1>5, <2>1 DEF TableOf
  <2> QED BY <1>3, <2>1, <2>2
<1>7. f[1] = s[1]
  <2>1. 1 \in 1 .. n /\ 1 - 1 = 0
    BY <1>0
  <2>2. f[1] = <<>> \o s[1] /\ s[1] \in Seq(E)
    BY <1>0, <1>5, <1>6, <2>1
  <2> QED BY <2>2, ConcatEmptySeq
<1> DEFINE h == [k \in 1 .. n |-> f[k]]
<1>8. Flat(h)
  <2>1. ASSUME NEW k \in 1 .. n PROVE h[k] = IF k = 1 THEN s[k] ELSE h[k - 1] \o s[k]
    <3>1. CASE k = 1
      BY <1>7, <3>1
    <3>2. CASE k # 1
      <4>1. k - 1 \in 1 .. n
        BY <1>0, <3>2
      <4> QED BY <1>6, <3>2, <4>1, ZenonT(60)
    <3> QED BY <3>1, <3>2
  <2> QED BY <2>1
<1> DEFINE g == CHOOSE g : Flat(g)
<1>9. Flat(g)
  <2> HIDE DEF h
  <2> QED BY <1>8, ZenonT(60)
<1> HIDE DEF g, h
<1> DEFINE S == {k \in Nat : k + 1 <= n => g[k + 1] = f[k + 1]}
<1>10. 0 \in S
  <2>1. g[1] = s[1]
    BY <1>0, <1>9
  <2> QED BY <1>7, <2>1
<1>11. ASSUME NEW k \in Nat, k \in S PROVE k + 1 \in S
  <2> SUFFICES ASSUME (k + 1) + 1 <= n PROVE g[(k + 1) + 1] = f[(k + 1) + 1]
    OBVIOUS
  <2>1. g[k + 1] = f[k + 1]
    BY <1>0, <1>11
  <2>2. (k + 1) + 1 \in 1 .. n /\ ((k + 1) + 1) - 1 = k + 1 /\ (k + 1) + 1 # 1
    BY <1>0
  <2>3. g[(k + 1) + 1] = g[k + 1] \o s[(k + 1) + 1]
    BY <1>9, <2>2
  <2>4. f[(k + 1) + 1] = f[k + 1] \o s[(k + 1) + 1]
    BY <1>6, <2>2
  <2> QED BY <2>1, <2>3, <2>4
<1> HIDE DEF S
<1>12. n - 1 \in S /\ n - 1 \in Nat /\ (n - 1) + 1 = n
  <2>1. n - 1 \in Nat /\ (n - 1) + 1 = n
    BY <1>0
  <2>2. \A k \in Nat : k \in S
    BY <1>10, <1>11, EveryNumber
  <2> QED BY <2>1, <2>2
<1>13. g[n] = f[n]
  BY <1>0, <1>12 DEF S
<1>14. Config!FlattenSeq(s) = f[Len(s)]
  BY <1>1, <1>13 DEF g, n
<1> QED BY <1>5, <1>6, <1>14 DEF Joined, n

\* What stands somewhere stays there, whatever is put behind it.
LEMMA JoinedStays ==
  ASSUME NEW E, NEW s \in Seq(Seq(E)), NEW f, Joined(f, E, s),
         NEW a \in 0 .. Len(s), NEW b \in 0 .. Len(s), a <= b
  PROVE  /\ Len(f[a]) \in Nat /\ Len(f[b]) \in Nat /\ Len(f[a]) <= Len(f[b])
         /\ \A p \in 1 .. Len(f[a]) : f[b][p] = f[a][p]
<1> DEFINE n == Len(s)
           Stays(k) == Len(f[a]) <= Len(f[k]) /\ \A p \in 1 .. Len(f[a]) : f[k][p] = f[a][p]
           S == {d \in Nat : a + d <= n => Stays(a + d)}
<1>0. /\ n \in Nat /\ \A k \in 1 .. n : s[k] \in Seq(E)
      /\ \A k \in 0 .. n : f[k] \in Seq(E) /\ Len(f[k]) \in Nat
      /\ \A k \in 1 .. n : f[k] = f[k - 1] \o s[k]
      /\ a \in 0 .. n /\ b \in 0 .. n
  BY ElementOfSeq, LenProperties DEF Joined
<1> HIDE DEF n
<1>1. 0 \in S
  <2>1. a + 0 = a
    BY <1>0
  <2> QED BY <1>0, <2>1
<1>2. ASSUME NEW d \in Nat, d \in S PROVE d + 1 \in S
  <2> SUFFICES ASSUME a + (d + 1) <= n PROVE Stays(a + (d + 1))
    OBVIOUS
  <2> DEFINE k == a + d
             x == f[k]
             y == s[k + 1]
  <2>1. k \in 0 .. n /\ k + 1 \in 1 .. n /\ (k + 1) - 1 = k /\ a + (d + 1) = k + 1
    BY <1>0
  <2>2. Len(f[a]) <= Len(x) /\ \A p \in 1 .. Len(f[a]) : x[p] = f[a][p]
    BY <1>0, <1>2, <2>1
  <2>3. x \in Seq(E) /\ y \in Seq(E) /\ f[k + 1] = x \o y /\ Len(f[a]) \in Nat
    BY <1>0, <2>1
  <2> HIDE DEF k, x, y
  <2> DEFINE z == x \o y
  <2>4. /\ Len(x) \in Nat /\ Len(y) \in Nat /\ Len(z) = Len(x) + Len(y)
        /\ \A p \in 1 .. Len(x) + Len(y) : z[p] = IF p <= Len(x) THEN x[p] ELSE y[p - Len(x)]
    BY <2>3, ConcatProperties, LenProperties
  <2>5. f[a + (d + 1)] = z
    BY <2>1, <2>3
  <2> HIDE DEF z
  <2> DEFINE w == f[a]
             v == f[a + (d + 1)]
  <2>6. Len(w) \in Nat /\ Len(w) <= Len(x) /\ \A p \in 1 .. Len(w) : x[p] = w[p]
    BY <2>2, <2>3
  <2>7. v = z
    BY <2>5
  <2> HIDE DEF w, v
  <2>8. Len(w) <= Len(v) /\ \A p \in 1 .. Len(w) : v[p] = w[p]
    BY <2>4, <2>6, <2>7, SMTT(40)
  <2> QED BY <2>8 DEF w, v
<1> HIDE DEF S
<1>3. b - a \in S /\ b - a \in Nat /\ a + (b - a) = b /\ b <= n
  <2>1. b - a \in Nat /\ a + (b - a) = b /\ b <= n
    BY <1>0
  <2>2. \A k \in Nat : k \in S
    BY <1>1, <1>2, EveryNumber
  <2> QED BY <2>1, <2>2
<1> QED BY <1>0, <1>3 DEF S

\* Where a part of them all stands.
PartAt(f, s, all, k) ==
  /\ Len(f[k - 1]) \in Nat /\ Len(s[k]) \in Nat
  /\ Len(f[k]) = Len(f[k - 1]) + Len(s[k]) /\ Len(f[k]) <= Len(all)
  /\ \A p \in 1 .. Len(s[k]) : all[Len(f[k - 1]) + p] = s[k][p]

\* It does, for each.
LEMMA JoinedHolds ==
  ASSUME NEW E, NEW s \in Seq(Seq(E)), NEW f, Joined(f, E, s), NEW k \in 1 .. Len(s),
         NEW all, all = f[Len(s)]
  PROVE  PartAt(f, s, all, k)
<1> DEFINE n == Len(s)
           x == f[k - 1]
           y == s[k]
           z == f[k]
<1>0. /\ n \in Nat /\ k - 1 \in 0 .. n /\ k \in 0 .. n /\ n \in 0 .. n /\ k <= n
      /\ y \in Seq(E) /\ z = x \o y
      /\ x \in Seq(E) /\ Len(x) \in Nat /\ Len(y) \in Nat
  <2>1. n \in Nat /\ k - 1 \in 0 .. n /\ k \in 0 .. n /\ n \in 0 .. n /\ k <= n
    BY LenProperties
  <2>2. y \in Seq(E) /\ z = x \o y
    BY ElementOfSeq DEF Joined
  <2>3. x \in Seq(E)
    BY <2>1 DEF Joined
  <2> QED BY <2>1, <2>2, <2>3, LenProperties
<1>1. Len(z) \in Nat /\ Len(z) <= Len(f[n]) /\ \A p \in 1 .. Len(z) : f[n][p] = z[p]
  <2>1. n \in 0 .. Len(s) /\ k \in 0 .. Len(s) /\ k <= n
    BY <1>0
  <2> HIDE DEF n
  <2> QED BY <2>1, JoinedStays
<1> HIDE DEF n, x, y, z
<1>2. /\ Len(z) = Len(x) + Len(y)
      /\ \A p \in 1 .. Len(x) + Len(y) : z[p] = IF p <= Len(x) THEN x[p] ELSE y[p - Len(x)]
  BY <1>0, ConcatProperties
<1>3. ASSUME NEW p \in 1 .. Len(y) PROVE f[n][Len(x) + p] = y[p]
  <2>1. Len(x) + p \in 1 .. Len(z) /\ Len(x) + p \in 1 .. Len(x) + Len(y) /\ ~(Len(x) + p <= Len(x))
        /\ (Len(x) + p) - Len(x) = p
    BY <1>0, <1>2
  <2> QED BY <1>1, <1>2, <2>1
<1> QED BY <1>0, <1>1, <1>2, <1>3 DEF PartAt, n, x, y, z

-----------------------------------------------------------------------------
\* What the loop over a line's characters has read after each of them.
ReadTo(R, line) ==
  /\ R[0] = Config!NoItem
  /\ \A k \in 1 .. Len(line) : R[k] = Config!Character(line, k, R[k - 1])

\* The items of a line are those read at its end.
LEMMA ItemsRead ==
  ASSUME NEW line, Len(line) \in Nat
  PROVE  \E R : /\ ReadTo(R, line)
                /\ Config!Items(line) =
                     IF R[Len(line)].item = <<>> THEN R[Len(line)].items
                     ELSE Append(R[Len(line)].items, R[Len(line)].item)
<1> DEFINE n == Len(line)
           T(R, m) == R = [k \in 0 .. m |-> IF k = 0 THEN Config!NoItem
                                            ELSE Config!Character(line, k, R[k - 1])]
           S == {m \in Nat : \E R : T(R, m)}
<1>1. 0 \in S
  <2> DEFINE z == [k \in 0 .. 0 |-> Config!NoItem]
  <2>1. T(z, 0)
    OBVIOUS
  <2> HIDE DEF z
  <2> QED BY <2>1
<1>2. ASSUME NEW m \in Nat, m \in S PROVE m + 1 \in S
  <2>1. PICK f : T(f, m)
    BY <1>2
  <2> DEFINE v == Config!Character(line, m + 1, f[m])
             g == [k \in 0 .. m + 1 |-> IF k = m + 1 THEN v ELSE f[k]]
  <2>2. ASSUME NEW k \in 0 .. m
        PROVE  g[k] = f[k] /\ f[k] = IF k = 0 THEN Config!NoItem ELSE Config!Character(line, k, f[k - 1])
    <3>1. g[k] = f[k]
      OBVIOUS
    <3> HIDE DEF g, v
    <3> QED BY <2>1, <3>1
  <2>3. g[m + 1] = v
    OBVIOUS
  <2>4. g = [k \in 0 .. m + 1 |-> g[k]]
    OBVIOUS
  <2> HIDE DEF g
  <2>5. ASSUME NEW k \in 0 .. m + 1
        PROVE  g[k] = IF k = 0 THEN Config!NoItem ELSE Config!Character(line, k, g[k - 1])
    <3>1. CASE k = m + 1
      <4>1. k # 0 /\ k - 1 = m /\ m \in 0 .. m
        BY <3>1
      <4>2. g[k - 1] = f[m]
        BY <2>2, <4>1
      <4> QED BY <2>3, <3>1, <4>1, <4>2
    <3>2. CASE k = 0
      <4>1. k \in 0 .. m
        BY <3>2
      <4> QED BY <2>2, <3>2, <4>1
    <3>3. CASE k # m + 1 /\ k # 0
      <4>1. k \in 0 .. m /\ k - 1 \in 0 .. m
        BY <3>3
      <4> QED BY <2>2, <3>3, <4>1
    <3> QED BY <3>1, <3>2, <3>3
  <2>6. T(g, m + 1)
    BY <2>4, <2>5
  <2> QED BY <2>6
<1> HIDE DEF S
<1>3. n \in S
  BY <1>1, <1>2, EveryNumber
<1> DEFINE R == CHOOSE R : T(R, n)
<1>4. T(R, n)
  <2>1. \E f : T(f, n)
    BY <1>3 DEF S
  <2> QED BY <2>1
<1>5. Config!Items(line) = IF R[n].item = <<>> THEN R[n].items ELSE Append(R[n].items, R[n].item)
  BY DEF Config!Items
<1> HIDE DEF R
<1>6. ReadTo(R, line)
  <2>1. R[0] = Config!NoItem
    BY <1>4
  <2>2. ASSUME NEW k \in 1 .. n PROVE R[k] = Config!Character(line, k, R[k - 1])
    <3>1. k \in 0 .. n /\ k # 0
      OBVIOUS
    <3> HIDE DEF n
    <3> QED BY <1>4, <3>1
  <2> QED BY <2>1, <2>2 DEF ReadTo
<1> QED BY <1>5, <1>6

\* What has been read at a character: nothing of an item, or a part of a plain
\* or of a quoted one.
Reader(its, it, in, q) == [items |-> its, item |-> it, part |-> in, quoted |-> q]
Outside(its, q) == Reader(its, <<>>, FALSE, q)
Plain(its, it) == Reader(its, it, TRUE, FALSE)
Within(its, it) == Reader(its, it, TRUE, TRUE)

\* A space outside an item is passed over.
LEMMA SpaceIsPassed ==
  ASSUME NEW line, NEW k, NEW its, NEW q, line[k] = Config!SPACE
  PROVE  Config!Character(line, k, Outside(its, q)) = Outside(its, q)
  BY DEF Config!Character, Reader, Outside

\* Anything else begins one.
LEMMA ItemBegins ==
  ASSUME NEW line, NEW k, NEW its, NEW q, line[k] # Config!SPACE, line[k] # Config!QUOTE
  PROVE  Config!Character(line, k, Outside(its, q)) = Plain(its, <<line[k]>>)
  BY DEF Config!Character, Reader, Outside, Plain

\* A quote begins a quoted one.
LEMMA QuotedBegins ==
  ASSUME NEW line, NEW k, NEW its, NEW q, line[k] # Config!SPACE, line[k] = Config!QUOTE
  PROVE  Config!Character(line, k, Outside(its, q)) = Within(its, <<>>)
  BY DEF Config!Character, Reader, Outside, Within

\* Inside, a character that does not end the item is put behind it.
LEMMA PlainGrows ==
  ASSUME NEW line, NEW k, NEW its, NEW it, line[k] # Config!SPACE
  PROVE  Config!Character(line, k, Plain(its, it)) = Plain(its, Append(it, line[k]))
  BY DEF Config!Character, Config!EndsItem, Reader, Plain

\* One that does puts the item behind the others.
LEMMA PlainEnds ==
  ASSUME NEW line, NEW k, NEW its, NEW it, line[k] = Config!SPACE, it # <<>>
  PROVE  Config!Character(line, k, Plain(its, it)) = Outside(Append(its, it), FALSE)
  BY DEF Config!Character, Config!EndsItem, Reader, Plain, Outside

\* The quote that ends a quoted item.
Closes(line, k) ==
  /\ line[k] = Config!QUOTE /\ line[k - 1] # Config!BACKSLASH
  /\ k + 1 <= Len(line) => line[k + 1] = Config!SPACE

\* Any other character is put behind it.
LEMMA WithinGrows ==
  ASSUME NEW line, NEW k, NEW its, NEW it, ~Closes(line, k)
  PROVE  Config!Character(line, k, Within(its, it)) = Within(its, Append(it, line[k]))
  BY DEF Config!Character, Config!EndsItem, Reader, Within, Closes

\* That one puts the item behind the others.
IsItem(it) == it # <<>>
LEMMA WithinEnds ==
  ASSUME NEW line, NEW k, NEW its, NEW it, Closes(line, k), IsItem(it)
  PROVE  \E q : Config!Character(line, k, Within(its, it)) = Outside(Append(its, it), q)
<1>1. Config!Character(line, k, Within(its, it)) = Outside(Append(its, it), TRUE)
  BY DEF Config!Character, Config!EndsItem, Reader, Within, Outside, Closes, IsItem
<1> QED BY <1>1

\* Nothing is pending but, at most, a plain item, and these are the items.
Ended(r, its) ==
  \/ \E q : r = Outside(its, q)
  \/ \E i, t : t # <<>> /\ its = Append(i, t) /\ r = Plain(i, t)

\* The space behind it leaves nothing pending.
LEMMA SpaceEnds ==
  ASSUME NEW line, NEW k, NEW its, NEW r, Ended(r, its), line[k] = Config!SPACE
  PROVE  \E q : Config!Character(line, k, r) = Outside(its, q)
<1>1. CASE \E q : r = Outside(its, q)
  BY <1>1, SpaceIsPassed
<1>2. CASE \E i, t : t # <<>> /\ its = Append(i, t) /\ r = Plain(i, t)
  <2>1. PICK i, t : t # <<>> /\ its = Append(i, t) /\ r = Plain(i, t)
    BY <1>2
  <2>2. Config!Character(line, k, Plain(i, t)) = Outside(Append(i, t), FALSE)
    BY <2>1, PlainEnds, ZenonT(60)
  <2>3. Config!Character(line, k, r) = Outside(its, FALSE)
    BY <2>1, <2>2
  <2> QED BY <2>3
<1> QED BY <1>1, <1>2 DEF Ended

\* What is read at the end of a line.
LEMMA EndedIs ==
  ASSUME NEW its, NEW r, Ended(r, its)
  PROVE  its = IF r.item = <<>> THEN r.items ELSE Append(r.items, r.item)
  BY DEF Ended, Outside, Plain, Reader

\* A value without a space in it: the line, from the character behind b on, and
\* what has been read before it.
Bare(line, R, b, E, text, its) ==
  /\ Len(line) \in Nat /\ b \in Nat /\ text \in Seq(E) /\ IsItem(text)
  /\ ReadTo(R, line) /\ \E q : R[b] = Outside(its, q)
  /\ b + Len(text) <= Len(line) /\ \A j \in 1 .. Len(text) : line[b + j] = text[j]
  /\ \A j \in 1 .. Len(text) : text[j] # Config!SPACE
  /\ text[1] # Config!QUOTE

\* It is read as it stands.
LEMMA PlainRead ==
  ASSUME NEW line, NEW R, NEW b, NEW E, NEW text, NEW its, Bare(line, R, b, E, text, its)
  PROVE  R[b + Len(text)] = Plain(its, text)
<1>b. PICK q : /\ Len(line) \in Nat /\ b \in Nat /\ text \in Seq(E) /\ text # <<>>
               /\ ReadTo(R, line) /\ R[b] = Outside(its, q)
               /\ b + Len(text) <= Len(line) /\ \A j \in 1 .. Len(text) : line[b + j] = text[j]
               /\ \A j \in 1 .. Len(text) : text[j] # Config!SPACE
               /\ text[1] # Config!QUOTE
  BY DEF Bare, IsItem
<1> DEFINE n == Len(text)
           S == {m \in Nat : m + 1 <= n => R[b + (m + 1)] = Plain(its, SubSeq(text, 1, m + 1))}
<1>0. n \in Nat \ {0} /\ \A j \in 1 .. n : text[j] \in E
  BY <1>b, EmptySeq, ElementOfSeq
<1>1. ASSUME NEW j \in 1 .. n
      PROVE  /\ R[b + j] = Config!Character(line, b + j, R[b + (j - 1)])
             /\ line[b + j] = text[j] /\ text[j] # Config!SPACE
  <2>1. b + j \in 1 .. Len(line) /\ (b + j) - 1 = b + (j - 1)
    BY <1>0, <1>b
  <2> QED BY <1>b, <2>1 DEF ReadTo
<1> HIDE DEF n
<1>2. 0 \in S
  <2>1. R[b + 1] = Config!Character(line, b + 1, R[b]) /\ line[b + 1] = text[1] /\ text[1] # Config!SPACE
    <3>1. 1 \in 1 .. n /\ b + (1 - 1) = b
      BY <1>0, <1>b
    <3> QED BY <1>1, <3>1
  <2>2. R[b + 1] = Plain(its, <<text[1]>>)
    BY <1>b, <2>1, ItemBegins
  <2>3. SubSeq(text, 1, 1) = <<text[1]>>
    <3>1. 1 \in 1 .. Len(text) /\ 1 \in 1 .. Len(text)
      BY <1>0 DEF n
    <3>2. SubSeq(text, 1, 1) = SubSeq(text, 1, 1 - 1) \o <<text[1]>>
      BY <1>b, <3>1, SubSeqRecursiveSecond
    <3>3. SubSeq(text, 1, 1 - 1) = <<>>
      BY SubSeqEmpty
    <3>4. <<text[1]>> \in Seq(E)
      BY <1>0
    <3> QED BY <3>2, <3>3, <3>4, ConcatEmptySeq
  <2>4. 0 + 1 = 1
    OBVIOUS
  <2> QED BY <2>2, <2>3, <2>4
<1>3. ASSUME NEW m \in Nat, m \in S PROVE m + 1 \in S
  <2> SUFFICES ASSUME (m + 1) + 1 <= n
               PROVE  R[b + ((m + 1) + 1)] = Plain(its, SubSeq(text, 1, (m + 1) + 1))
    OBVIOUS
  <2> DEFINE j == (m + 1) + 1
             t == SubSeq(text, 1, m + 1)
  <2>1. j \in 1 .. n /\ j - 1 = m + 1
    BY <1>0
  <2>2. R[b + (m + 1)] = Plain(its, t)
    BY <1>0, <1>3
  <2>3. R[b + j] = Config!Character(line, b + j, Plain(its, t)) /\ line[b + j] = text[j] /\ text[j] # Config!SPACE
    BY <1>1, <1>b, <2>1, <2>2
  <2>4. R[b + j] = Plain(its, Append(t, text[j]))
    BY <2>3, PlainGrows
  <2>5. SubSeq(text, 1, j) = Append(t, text[j])
    <3>1. 1 \in 1 .. Len(text) /\ j \in 1 .. Len(text)
      BY <1>0, <2>1 DEF n
    <3>2. SubSeq(text, 1, j) = t \o <<text[j]>>
      BY <1>b, <2>1, <3>1, SubSeqRecursiveSecond
    <3>3. t \in Seq(E)
      <4>1. \A i \in 1 .. m + 1 : text[i] \in E
        BY <1>0, <2>1
      <4> QED BY <4>1, SubSeqProperties
    <3>4. text[j] \in E
      BY <1>0, <2>1
    <3> HIDE DEF t, j
    <3> QED BY <3>2, <3>3, <3>4, AppendIsConcat
  <2> QED BY <2>4, <2>5
<1> HIDE DEF S
<1>4. n - 1 \in S /\ (n - 1) + 1 = n
  <2>1. n - 1 \in Nat /\ (n - 1) + 1 = n
    BY <1>0
  <2>2. \A k \in Nat : k \in S
    BY <1>2, <1>3, EveryNumber
  <2> QED BY <2>1, <2>2
<1>5. R[b + n] = Plain(its, SubSeq(text, 1, n))
  BY <1>0, <1>4 DEF S
<1> QED BY <1>b, <1>5, SubSeqFull DEF n
\* A value in quotes: the line, from the character behind b on, and what has
\* been read before it.
Enclosed(line, R, b, E, text, its) ==
  /\ Len(line) \in Nat /\ b \in Nat /\ text \in Seq(E) /\ IsItem(text) /\ Config!Carried(text)
  /\ ReadTo(R, line) /\ \E q : R[b] = Outside(its, q)
  /\ b + Len(text) + 2 <= Len(line) /\ line[b + 1] = Config!QUOTE
  /\ Config!QUOTE # Config!SPACE /\ Config!QUOTE # Config!BACKSLASH
  /\ \A j \in 1 .. Len(text) : line[b + 1 + j] = text[j]
  /\ line[b + Len(text) + 2] = Config!QUOTE
  /\ b + Len(text) + 3 <= Len(line) => line[b + Len(text) + 3] = Config!SPACE

\* It is read up to the quote that closes it.
LEMMA QuotedInside ==
  ASSUME NEW line, NEW R, NEW b, NEW E, NEW text, NEW its, Enclosed(line, R, b, E, text, its)
  PROVE  \E k : /\ k = b + Len(text) + 2 /\ Closes(line, k) /\ IsItem(text)
                /\ R[k] = Config!Character(line, k, Within(its, text))
<1>b. PICK q : /\ Len(line) \in Nat /\ b \in Nat /\ text \in Seq(E) /\ text # <<>> /\ Config!Carried(text)
               /\ ReadTo(R, line) /\ R[b] = Outside(its, q)
               /\ b + Len(text) + 2 <= Len(line) /\ line[b + 1] = Config!QUOTE
               /\ Config!QUOTE # Config!SPACE /\ Config!QUOTE # Config!BACKSLASH
               /\ \A j \in 1 .. Len(text) : line[b + 1 + j] = text[j]
               /\ line[b + Len(text) + 2] = Config!QUOTE
               /\ b + Len(text) + 3 <= Len(line) => line[b + Len(text) + 3] = Config!SPACE
  BY DEF Enclosed, IsItem
<1> DEFINE n == Len(text)
           S == {m \in Nat : m <= n => R[b + 1 + m] = Within(its, SubSeq(text, 1, m))}
<1>0. n \in Nat \ {0} /\ \A j \in 1 .. n : text[j] \in E
  BY <1>b, EmptySeq, ElementOfSeq
<1>a. /\ text[n] # Config!BACKSLASH
      /\ \A k \in 1 .. n - 1 : text[k] = Config!QUOTE /\ text[k + 1] = Config!SPACE =>
           k > 1 /\ text[k - 1] = Config!BACKSLASH
  BY <1>b, Zenon DEF Config!Carried
<1>1. ASSUME NEW j \in 1 .. n
      PROVE  /\ R[b + 1 + j] = Config!Character(line, b + 1 + j, R[b + 1 + (j - 1)])
             /\ line[b + 1 + j] = text[j] /\ ~Closes(line, b + 1 + j)
  <2>1. b + 1 + j \in 1 .. Len(line) /\ (b + 1 + j) - 1 = b + 1 + (j - 1)
    BY <1>0, <1>b
  <2>2. SUFFICES ASSUME Closes(line, b + 1 + j) PROVE FALSE
    BY <1>b, <2>1 DEF ReadTo
  <2>3. text[j] = Config!QUOTE /\ line[b + 1 + (j - 1)] # Config!BACKSLASH
        /\ (b + 1 + j + 1 <= Len(line) => line[b + 1 + j + 1] = Config!SPACE)
    BY <1>b, <2>1, <2>2 DEF Closes
  <2>4. b + 1 + j + 1 <= Len(line) /\ b + 1 + j + 1 = b + 1 + (j + 1) /\ b + 1 + (n + 1) = b + n + 2
    BY <1>0, <1>b
  <2>5. line[b + 1 + (j + 1)] = Config!SPACE
    BY <1>b, <2>3, <2>4
  <2>6. j # n
    BY <1>b, <2>4, <2>5
  <2>7. j \in 1 .. n - 1 /\ j + 1 \in 1 .. n
    BY <1>0, <2>6
  <2>8. text[j + 1] = Config!SPACE
    BY <1>b, <2>5, <2>7
  <2>9. j > 1 /\ text[j - 1] = Config!BACKSLASH
    BY <1>a, <2>3, <2>7, <2>8
  <2>10. j - 1 \in 1 .. n
    BY <1>0, <2>9
  <2>11. line[b + 1 + (j - 1)] = text[j - 1]
    BY <1>b, <2>10
  <2> QED BY <2>3, <2>9, <2>11
<1> HIDE DEF n
<1>2. 0 \in S
  <2>1. R[b + 1] = Config!Character(line, b + 1, R[b])
    <3>1. b + 1 \in 1 .. Len(line) /\ (b + 1) - 1 = b
      BY <1>0, <1>b DEF n
    <3> QED BY <1>b, <3>1 DEF ReadTo
  <2>2. R[b + 1] = Within(its, <<>>)
    BY <1>b, <2>1, QuotedBegins
  <2>3. SubSeq(text, 1, 0) = <<>> /\ b + 1 + 0 = b + 1
    BY <1>b, SubSeqEmpty
  <2> QED BY <2>2, <2>3
<1>3. ASSUME NEW m \in Nat, m \in S PROVE m + 1 \in S
  <2> SUFFICES ASSUME m + 1 <= n
               PROVE  R[b + 1 + (m + 1)] = Within(its, SubSeq(text, 1, m + 1))
    OBVIOUS
  <2> DEFINE j == m + 1
             t == SubSeq(text, 1, m)
  <2>1. j \in 1 .. n /\ j - 1 = m
    BY <1>0
  <2>2. R[b + 1 + m] = Within(its, t)
    BY <1>0, <1>3
  <2>3. /\ R[b + 1 + j] = Config!Character(line, b + 1 + j, Within(its, t))
        /\ line[b + 1 + j] = text[j] /\ ~Closes(line, b + 1 + j)
    BY <1>1, <1>b, <2>1, <2>2
  <2>4. R[b + 1 + j] = Within(its, Append(t, text[j]))
    BY <2>3, WithinGrows
  <2>5. SubSeq(text, 1, j) = Append(t, text[j])
    <3>1. 1 \in 1 .. Len(text) /\ j \in 1 .. Len(text)
      BY <1>0, <2>1 DEF n
    <3>2. SubSeq(text, 1, j) = t \o <<text[j]>>
      BY <1>b, <2>1, <3>1, SubSeqRecursiveSecond
    <3>3. t \in Seq(E)
      <4>1. \A i \in 1 .. m : text[i] \in E
        BY <1>0, <2>1
      <4> QED BY <4>1, SubSeqProperties
    <3>4. text[j] \in E
      BY <1>0, <2>1
    <3> HIDE DEF t, j
    <3> QED BY <3>2, <3>3, <3>4, AppendIsConcat
  <2> QED BY <2>4, <2>5
<1> HIDE DEF S
<1>4. n \in S
  <2>2. \A k \in Nat : k \in S
    BY <1>2, <1>3, EveryNumber
  <2> QED BY <1>0, <2>2
<1>5. R[b + 1 + n] = Within(its, text)
  <2>1. R[b + 1 + n] = Within(its, SubSeq(text, 1, n))
    BY <1>0, <1>4 DEF S
  <2> QED BY <1>b, <2>1, SubSeqFull DEF n
<1>6. Closes(line, b + n + 2)
  <2>1. (b + n + 2) - 1 = b + 1 + n /\ (b + n + 2) + 1 = b + n + 3 /\ n \in 1 .. n
    BY <1>0, <1>b
  <2>2. line[b + 1 + n] # Config!BACKSLASH
    BY <1>1, <1>a, <2>1
  <2> QED BY <1>b, <2>1, <2>2 DEF Closes, n
<1>7. R[b + n + 2] = Config!Character(line, b + n + 2, Within(its, text))
  <2>1. (b + n + 2) - 1 = b + 1 + n /\ b + n + 2 \in 1 .. Len(line)
    BY <1>0, <1>b DEF n
  <2> QED BY <1>5, <1>b, <2>1 DEF ReadTo
<1> QED BY <1>6, <1>7, <1>b DEF n, IsItem

\* A value in quotes that can be carried is read as it stands.
LEMMA QuotedRead ==
  ASSUME NEW line, NEW R, NEW b, NEW E, NEW text, NEW its, Enclosed(line, R, b, E, text, its)
  PROVE  \E r : R[b + Len(text) + 2] = Outside(Append(its, text), r)
<1>1. PICK k : /\ k = b + Len(text) + 2 /\ Closes(line, k) /\ IsItem(text)
               /\ R[k] = Config!Character(line, k, Within(its, text))
  BY QuotedInside
<1>2. \E r : Config!Character(line, k, Within(its, text)) = Outside(Append(its, text), r)
  BY <1>1, WithinEnds
<1> QED BY <1>1, <1>2

-----------------------------------------------------------------------------
\* The characters a line of a file gives a meaning to are three.
LEMMA MarksDiffer ==
  Config!QUOTE # Config!SPACE /\ Config!QUOTE # Config!BACKSLASH
<1>1. Config!QUOTE.text = "'" /\ Config!SPACE.text = " " /\ Config!BACKSLASH.text = "\\"
  BY Zenon DEF Config!QUOTE, Config!SPACE, Config!BACKSLASH, Config!Chunk
<1>2. Config!QUOTE.text # Config!SPACE.text /\ Config!QUOTE.text # Config!BACKSLASH.text
  BY <1>1, Zenon
<1> QED BY <1>2, Zenon

PlainPart(text, part) ==
  /\ Len(part) = Len(text) + 1
  /\ \A j \in 1 .. Len(text) : part[j + 1] = text[j] /\ text[j] # Config!SPACE
QuotedPart(text, part) ==
  /\ Len(part) = Len(text) + 3 /\ part[2] = Config!QUOTE /\ part[Len(text) + 3] = Config!QUOTE
  /\ \A j \in 1 .. Len(text) : part[j + 2] = text[j]

\* How a value is written: with a space before it, as it stands, when there is
\* no space in it, or in quotes.
LEMMA PartIs ==
  ASSUME NEW E, NEW text \in Seq(E), Config!SPACE \in E, Config!QUOTE \in E, NEW part,
         part = <<Config!SPACE>> \o Config!Item(text)
  PROVE  /\ part \in Seq(E) /\ Len(part) \in Nat /\ part[1] = Config!SPACE
         /\ PlainPart(text, part) \/ QuotedPart(text, part)
<1> DEFINE s == <<Config!SPACE>>
           q == <<Config!QUOTE>>
           n == Len(text)
<1>1. /\ s \in Seq(E) /\ q \in Seq(E) /\ Len(s) = 1 /\ Len(q) = 1 /\ s[1] = Config!SPACE /\ q[1] = Config!QUOTE
      /\ n \in Nat
  BY LenProperties
<1>2. Config!Quoted(text) = q \o text \o q
  BY DEF Config!Quoted
<1>3. part = s \o Config!Item(text)
  OBVIOUS
<1> HIDE DEF s, q, n
<1>4. CASE Config!Item(text) = text /\ ~Config!Contains(text, Config!SPACE)
  <2>1. /\ part \in Seq(E) /\ Len(part) = 1 + n
        /\ \A i \in 1 .. 1 + n : part[i] = IF i <= 1 THEN s[i] ELSE text[i - 1]
    BY <1>1, <1>3, <1>4, ConcatProperties DEF n
  <2>2. part[1] = Config!SPACE /\ Len(part) = n + 1
    BY <1>1, <2>1
  <2>3. ASSUME NEW j \in 1 .. n PROVE part[j + 1] = text[j] /\ text[j] # Config!SPACE
    <3>1. j + 1 \in 1 .. 1 + n /\ ~(j + 1 <= 1) /\ (j + 1) - 1 = j
      BY <1>1
    <3>2. text[j] # Config!SPACE
      BY <1>4 DEF Config!Contains, n
    <3> QED BY <2>1, <3>1, <3>2
  <2>4. PlainPart(text, part)
    BY <2>2, <2>3 DEF PlainPart, n
  <2>5. Len(part) \in Nat
    BY <1>1, <2>2
  <2> QED BY <2>1, <2>2, <2>4, <2>5
<1>5. CASE Config!Item(text) = Config!Quoted(text)
  <2>a. PICK a : a = q \o text
    OBVIOUS
  <2>b. PICK b : b = a \o q
    OBVIOUS
  <2>1. /\ a \in Seq(E) /\ Len(a) = 1 + n
        /\ \A i \in 1 .. 1 + n : a[i] = IF i <= 1 THEN q[i] ELSE text[i - 1]
    <3>1. /\ q \o text \in Seq(E) /\ Len(q \o text) = Len(q) + Len(text)
          /\ \A i \in 1 .. Len(q) + Len(text) : (q \o text)[i] = IF i <= Len(q) THEN q[i] ELSE text[i - Len(q)]
      BY <1>1, ConcatProperties
    <3> QED BY <1>1, <2>a, <3>1 DEF n
  <2>2. part = s \o b
    BY <1>2, <1>3, <1>5, <2>a, <2>b
  <2>3. /\ b \in Seq(E) /\ Len(b) = Len(a) + 1
        /\ \A i \in 1 .. Len(a) + 1 : b[i] = IF i <= Len(a) THEN a[i] ELSE q[i - Len(a)]
    <3>1. /\ a \o q \in Seq(E) /\ Len(a \o q) = Len(a) + Len(q)
          /\ \A i \in 1 .. Len(a) + Len(q) : (a \o q)[i] = IF i <= Len(a) THEN a[i] ELSE q[i - Len(a)]
      BY <1>1, <2>1, ConcatProperties
    <3> QED BY <1>1, <2>b, <3>1
  <2>4. /\ part \in Seq(E) /\ Len(part) = 1 + Len(b)
        /\ \A i \in 1 .. 1 + Len(b) : part[i] = IF i <= 1 THEN s[i] ELSE b[i - 1]
    <3>1. /\ s \o b \in Seq(E) /\ Len(s \o b) = Len(s) + Len(b)
          /\ \A i \in 1 .. Len(s) + Len(b) : (s \o b)[i] = IF i <= Len(s) THEN s[i] ELSE b[i - Len(s)]
      <4>1. s \in Seq(E) /\ b \in Seq(E)
        BY <1>1, <2>3
      <4> QED BY <4>1, ConcatProperties
    <3> QED BY <1>1, <2>2, <3>1
  <2>5. Len(b) = n + 2 /\ Len(part) = n + 3 /\ Len(part) \in Nat /\ Len(a) = n + 1
    BY <1>1, <2>1, <2>3, <2>4
  <2>6. part[1] = Config!SPACE /\ part[2] = Config!QUOTE
    <3>1. part[1] = s[1] /\ part[2] = b[1]
      BY <1>1, <2>4, <2>5
    <3>2. b[1] = a[1] /\ a[1] = q[1]
      BY <1>1, <2>1, <2>3, <2>5
    <3> QED BY <1>1, <3>1, <3>2
  <2>7. part[n + 3] = Config!QUOTE
    <3>1. n + 3 \in 1 .. 1 + Len(b) /\ ~(n + 3 <= 1) /\ (n + 3) - 1 = n + 2
      BY <1>1, <2>5
    <3>2. part[n + 3] = b[n + 2]
      BY <2>4, <3>1
    <3>3. n + 2 \in 1 .. Len(a) + 1 /\ ~(n + 2 <= Len(a)) /\ (n + 2) - Len(a) = 1
      BY <1>1, <2>5
    <3>4. b[n + 2] = q[1]
      BY <2>3, <3>3
    <3> QED BY <1>1, <3>2, <3>4
  <2>8. ASSUME NEW j \in 1 .. n PROVE part[j + 2] = text[j]
    <3>1. j + 2 \in 1 .. 1 + Len(b) /\ ~(j + 2 <= 1) /\ (j + 2) - 1 = j + 1
      BY <1>1, <2>5
    <3>2. part[j + 2] = b[j + 1]
      BY <2>4, <3>1
    <3>3. j + 1 \in 1 .. Len(a) + 1 /\ j + 1 <= Len(a) /\ j + 1 \in 1 .. 1 + n /\ ~(j + 1 <= 1) /\ (j + 1) - 1 = j
      BY <1>1, <2>5
    <3>4. b[j + 1] = a[j + 1]
      BY <2>3, <3>3
    <3>5. a[j + 1] = text[j]
      BY <2>1, <3>3
    <3> QED BY <3>2, <3>4, <3>5
  <2>9. QuotedPart(text, part)
    BY <2>5, <2>6, <2>7, <2>8 DEF QuotedPart, n
  <2> QED BY <2>4, <2>5, <2>6, <2>9
<1>6. \/ Config!Item(text) = text /\ ~Config!Contains(text, Config!SPACE)
      \/ Config!Item(text) = Config!Quoted(text)
  BY Zenon DEF Config!Item
<1> QED BY <1>4, <1>5, <1>6

\* A part of a line.
Stands(line, p, part) ==
  /\ p + Len(part) <= Len(line) /\ \A j \in 1 .. Len(part) : line[p + j] = part[j]

\* A value is read with the space before it, when the next begins with one too.
LEMMA PartRead ==
  ASSUME NEW line, Len(line) \in Nat, NEW R, ReadTo(R, line), NEW p \in Nat, NEW its, Ended(R[p], its),
         NEW E, NEW text \in Seq(E), IsItem(text), Config!Carried(text),
         Config!SPACE \in E, Config!QUOTE \in E,
         NEW part, part = <<Config!SPACE>> \o Config!Item(text), Stands(line, p, part),
         p + Len(part) + 1 <= Len(line) => line[p + Len(part) + 1] = Config!SPACE
  PROVE  Ended(R[p + Len(part)], Append(its, text))
<1> DEFINE n == Len(text)
           m == Len(part)
           b == p + 1
<1>1. m \in Nat /\ n \in Nat /\ part[1] = Config!SPACE /\ b \in Nat
  BY PartIs, LenProperties
<1>2. \/ m = n + 1 /\ \A j \in 1 .. n : part[j + 1] = text[j] /\ text[j] # Config!SPACE
      \/ /\ m = n + 3 /\ part[2] = Config!QUOTE /\ part[n + 3] = Config!QUOTE
         /\ \A j \in 1 .. n : part[j + 2] = text[j]
  <2>1. PlainPart(text, part) \/ QuotedPart(text, part)
    BY PartIs
  <2> QED BY <2>1 DEF PlainPart, QuotedPart
<1>3. p + m <= Len(line) /\ \A j \in 1 .. m : line[p + j] = part[j]
  BY DEF Stands
<1>4. ~Config!Contains(text, Config!SPACE) => text[1] # Config!QUOTE
  BY Zenon DEF Config!Carried
<1>5. n >= 1
  BY EmptySeq DEF IsItem
<1> HIDE DEF n, m
<1>6. PICK q : R[b] = Outside(its, q)
  <2>1. b \in 1 .. Len(line) /\ b - 1 = p /\ 1 \in 1 .. m
    BY <1>1, <1>2, <1>3
  <2>2. R[b] = Config!Character(line, b, R[p]) /\ line[b] = Config!SPACE
    BY <1>1, <1>3, <2>1 DEF ReadTo
  <2> QED BY <2>2, SpaceEnds
<1>7. CASE m = n + 1 /\ \A j \in 1 .. n : part[j + 1] = text[j] /\ text[j] # Config!SPACE
  <2>1. ASSUME NEW j \in 1 .. n PROVE line[b + j] = text[j]
    <3>1. j + 1 \in 1 .. m /\ b + j = p + (j + 1)
      BY <1>1, <1>7
    <3> QED BY <1>3, <1>7, <3>1
  <2>2. ~Config!Contains(text, Config!SPACE)
    BY <1>7 DEF Config!Contains, n
  <2>3. b + n <= Len(line) /\ b + n = p + m
    BY <1>1, <1>3, <1>7
  <2>4. text # <<>> /\ text[1] # Config!QUOTE
    BY <1>4, <2>2 DEF IsItem
  <2>a. Bare(line, R, b, E, text, its)
    <3> HIDE DEF b
    <3> QED BY <1>1, <1>6, <1>7, <2>1, <2>3, <2>4 DEF Bare, n
  <2>5. R[b + n] = Plain(its, text)
    <3> HIDE DEF b
    <3> QED BY <2>a, PlainRead DEF n
  <2>6. R[p + m] = Plain(its, text)
    BY <2>3, <2>5
  <2> QED BY <2>4, <2>6 DEF Ended, m
<1>8. CASE /\ m = n + 3 /\ part[2] = Config!QUOTE /\ part[n + 3] = Config!QUOTE
           /\ \A j \in 1 .. n : part[j + 2] = text[j]
  <2>1. ASSUME NEW j \in 1 .. n PROVE line[b + 1 + j] = text[j]
    <3>1. j + 2 \in 1 .. m /\ b + 1 + j = p + (j + 2)
      BY <1>1, <1>8
    <3> QED BY <1>3, <1>8, <3>1
  <2>2. line[b + 1] = Config!QUOTE
    <3>1. 2 \in 1 .. m /\ b + 1 = p + 2
      BY <1>1, <1>8
    <3> QED BY <1>3, <1>8, <3>1
  <2>3. line[b + n + 2] = Config!QUOTE
    <3>1. n + 3 \in 1 .. m /\ b + n + 2 = p + (n + 3)
      BY <1>1, <1>8
    <3> QED BY <1>3, <1>8, <3>1
  <2>4. b + n + 2 <= Len(line) /\ b + n + 2 = p + m /\ b + n + 3 = p + m + 1
    BY <1>1, <1>3, <1>8
  <2>5. b + n + 3 <= Len(line) => line[b + n + 3] = Config!SPACE
    BY <2>4 DEF m
  <2>6. Enclosed(line, R, b, E, text, its)
    <3> HIDE DEF b
    <3> QED BY <1>1, <1>6, <2>1, <2>2, <2>3, <2>4, <2>5, MarksDiffer DEF Enclosed, n
  <2>7. PICK r : R[b + n + 2] = Outside(Append(its, text), r)
    <3> HIDE DEF b
    <3> QED BY <2>6, QuotedRead DEF n
  <2>8. R[p + m] = Outside(Append(its, text), r)
    BY <2>4, <2>7
  <2> QED BY <2>8 DEF Ended, m
<1> QED BY <1>2, <1>7, <1>8

-----------------------------------------------------------------------------
\* An option's name in a file, and the option it is made into again.
Undashed(name) == [text |-> name, dash |-> FALSE, num |-> <<>>]

\* Only the dash of a chunk is changed.
LEMMA DashSet ==
  ASSUME NEW c, NEW t, NEW n, c = [text |-> t, dash |-> FALSE, num |-> n]
  PROVE  [c EXCEPT !.dash = TRUE] = [text |-> t, dash |-> TRUE, num |-> n]
<1>1. ASSUME NEW yes, NEW no, c = [text |-> t, dash |-> no, num |-> n]
      PROVE  [c EXCEPT !.dash = yes] = [text |-> t, dash |-> yes, num |-> n]
  BY <1>1, SMT
<1> QED BY <1>1, Zenon

\* As when it is taken away.
LEMMA DashCleared ==
  ASSUME NEW c, NEW t, NEW n, c = [text |-> t, dash |-> TRUE, num |-> n]
  PROVE  [c EXCEPT !.dash = FALSE] = [text |-> t, dash |-> FALSE, num |-> n]
<1>1. ASSUME NEW yes, NEW no, c = [text |-> t, dash |-> yes, num |-> n]
      PROVE  [c EXCEPT !.dash = no] = [text |-> t, dash |-> no, num |-> n]
  BY <1>1, SMT
<1> QED BY <1>1, Zenon

\* A name loses its dash and gets it back.
LEMMA NamesInFiles ==
  ASSUME NEW name
  PROVE  /\ [Config!Option(name)[1] EXCEPT !.dash = FALSE] = Undashed(name)
         /\ [<<Undashed(name)>> EXCEPT ![1].dash = TRUE] = Config!Option(name)
<1>1. PICK c, d, n : c = Config!Chunk(name) /\ d = [c EXCEPT !.dash = TRUE] /\ n = <<>>
  BY Zenon
<1>2. c = [text |-> name, dash |-> FALSE, num |-> n] /\ Undashed(name) = [text |-> name, dash |-> FALSE, num |-> n]
  BY <1>1, Zenon DEF Config!Chunk, Undashed
<1>3. d = [text |-> name, dash |-> TRUE, num |-> n] /\ c = Undashed(name)
  BY <1>1, <1>2, DashSet, ZenonT(60)
<1>4. [d EXCEPT !.dash = FALSE] = Undashed(name)
  <2>1. d = [text |-> name, dash |-> TRUE, num |-> n]
    BY <1>3, Zenon
  <2>2. [d EXCEPT !.dash = FALSE] = [text |-> name, dash |-> FALSE, num |-> n]
    BY <2>1, DashCleared, Zenon
  <2> QED BY <1>2, <2>2, Zenon
<1>5. Config!Option(name) = <<d>>
  BY <1>1, Zenon DEF Config!Option
<1>6. <<d>>[1] = d
  BY SMT
<1>7. ASSUME NEW yes, NEW u
      PROVE  [<<u>> EXCEPT ![1].dash = yes] = <<[u EXCEPT !.dash = yes]>>
  BY SMT
<1>8. [<<c>> EXCEPT ![1].dash = TRUE] = <<d>>
  BY <1>1, <1>7, Zenon
<1> QED BY <1>3, <1>4, <1>5, <1>6, <1>8, Zenon

\* Some sequence that begins with one text and goes on with others.
LEMMA FirstChanged ==
  ASSUME NEW E, NEW s \in Seq(E), NEW t \in Seq(E), s # <<>>, Len(t) = Len(s),
         \A k \in 2 .. Len(s) : t[k] = s[k]
  PROVE  <<s[1]>> \o Tail(t) = s
<1> DEFINE a == <<s[1]>>
           b == Tail(t)
           n == Len(s)
<1>1. n \in Nat /\ n >= 1 /\ t # <<>> /\ Len(t) = n
  BY EmptySeq, LenProperties
<1>2. a \in Seq(E) /\ Len(a) = 1 /\ a[1] = s[1]
  BY <1>1, ElementOfSeq
<1>3. b \in Seq(E) /\ Len(b) = n - 1 /\ \A i \in 1 .. n - 1 : b[i] = t[i + 1]
  <2>1. b \in Seq(E) /\ Len(b) = Len(t) - 1 /\ \A i \in 1 .. Len(b) : b[i] = t[i + 1]
    BY <1>1, HeadTailProperties
  <2> HIDE DEF b, n
  <2> QED BY <1>1, <2>1
<1>4. \A k \in 2 .. n : t[k] = s[k]
  OBVIOUS
<1> HIDE DEF a, b, n
<1>5. /\ a \o b \in Seq(E) /\ Len(a \o b) = Len(a) + Len(b)
      /\ \A i \in 1 .. Len(a) + Len(b) : (a \o b)[i] = IF i <= Len(a) THEN a[i] ELSE b[i - Len(a)]
  <2>1. a \in Seq(E) /\ b \in Seq(E)
    BY <1>2, <1>3
  <2> QED BY <2>1, ConcatProperties
<1> DEFINE z == a \o b
<1>6. z \in Seq(E) /\ Len(z) = n /\ \A i \in 1 .. n : z[i] = IF i <= 1 THEN a[i] ELSE b[i - 1]
  BY <1>1, <1>2, <1>3, <1>5
<1> HIDE DEF z
<1>7. ASSUME NEW i \in 1 .. n PROVE z[i] = s[i]
  <2>1. CASE i = 1
    BY <1>2, <1>6, <2>1
  <2>2. CASE i # 1
    <3>1. ~(i <= 1) /\ i - 1 \in 1 .. n - 1 /\ i \in 2 .. n /\ (i - 1) + 1 = i
      BY <1>1, <2>2
    <3>2. z[i] = b[i - 1]
      BY <1>6, <3>1
    <3>3. b[i - 1] = t[(i - 1) + 1]
      BY <1>3, <3>1
    <3> QED BY <1>4, <3>1, <3>2, <3>3
  <2> QED BY <2>1, <2>2
<1>8. z = s
  BY <1>6, <1>7, SeqEqual DEF n
<1> QED BY <1>8 DEF z, a, b

\* What a line's characters may be.
LineChars(name) == Config!Chars \cup {Config!SPACE, Config!QUOTE, Undashed(name)}

\* The option and its values, as parts of a line.
LineParts(name, args) ==
  <<<<Undashed(name)>>>> \o
  [k \in 1 .. Len(args) - 1 |-> <<Config!SPACE>> \o Config!Item(args[k + 1])]

\* The arguments of an option that can be written into a file.
Writes(name, args) ==
  /\ args \in Seq(Config!AnyText) /\ args # <<>> /\ args[1] = Config!Option(name)
  /\ name \notin {Config!SPACE.text, Config!QUOTE.text}
  /\ \A k \in 2 .. Len(args) : Config!Carried(args[k])

\* The parts of a line are the name and then, each behind a space, the values.
LEMMA LinePartsAre ==
  ASSUME NEW name, NEW args, Writes(name, args)
  PROVE  /\ LineParts(name, args) \in Seq(Seq(LineChars(name)))
         /\ Len(LineParts(name, args)) = Len(args)
         /\ LineParts(name, args)[1] = <<Undashed(name)>>
         /\ \A k \in 2 .. Len(args) :
              /\ LineParts(name, args)[k] = <<Config!SPACE>> \o Config!Item(args[k])
              /\ args[k] \in Seq(LineChars(name)) /\ IsItem(args[k])
              /\ LineParts(name, args)[k][1] = Config!SPACE
              /\ Len(LineParts(name, args)[k]) \in Nat /\ Len(LineParts(name, args)[k]) >= 1
<1> DEFINE n == Len(args)
           E == LineChars(name)
           u == Undashed(name)
<1>1. n \in Nat /\ n >= 1 /\ \A k \in 1 .. n : args[k] \in Config!AnyText
  BY EmptySeq, ElementOfSeq DEF Writes
<1>2. Config!Chars \subseteq E /\ Config!SPACE \in E /\ Config!QUOTE \in E /\ u \in E
  BY Zenon DEF LineChars
<1>3. ASSUME NEW k \in 1 .. n PROVE args[k] \in Seq(E) /\ IsItem(args[k])
  <2>1. args[k] \in Seq(Config!Chars) /\ args[k] # <<>>
    BY <1>1 DEF Config!AnyText
  <2> QED BY <1>2, <2>1, SeqMonotonic DEF IsItem
<1> HIDE DEF n, E, u
<1>4. ASSUME NEW k \in 1 .. n - 1
      PROVE  /\ <<Config!SPACE>> \o Config!Item(args[k + 1]) \in Seq(E)
             /\ (<<Config!SPACE>> \o Config!Item(args[k + 1]))[1] = Config!SPACE
             /\ Len(<<Config!SPACE>> \o Config!Item(args[k + 1])) \in Nat
             /\ Len(<<Config!SPACE>> \o Config!Item(args[k + 1])) >= 1
  <2>1. k + 1 \in 1 .. n
    BY <1>1
  <2>2. PICK text : text = args[k + 1] /\ text \in Seq(E)
    BY <1>3, <2>1
  <2>3. PICK part : part = <<Config!SPACE>> \o Config!Item(text)
    OBVIOUS
  <2>4. /\ part \in Seq(E) /\ Len(part) \in Nat /\ part[1] = Config!SPACE
        /\ PlainPart(text, part) \/ QuotedPart(text, part)
    BY <1>2, <2>2, <2>3, PartIs
  <2>5. Len(text) \in Nat
    BY <2>2, LenProperties
  <2>6. Len(part) >= 1
    BY <2>4, <2>5 DEF PlainPart, QuotedPart
  <2> QED BY <2>2, <2>3, <2>4, <2>6
<1> DEFINE a == <<<<u>>>>
           b == [k \in 1 .. n - 1 |-> <<Config!SPACE>> \o Config!Item(args[k + 1])]
           z == a \o b
<1>5. a \in Seq(Seq(E)) /\ Len(a) = 1 /\ a[1] = <<u>>
  BY <1>2
<1>6. /\ b \in Seq(Seq(E)) /\ Len(b) = n - 1
      /\ \A k \in 1 .. n - 1 : b[k] = <<Config!SPACE>> \o Config!Item(args[k + 1])
  <2>1. b \in [1 .. n - 1 -> Seq(E)]
    BY <1>4
  <2> HIDE DEF b
  <2>2. b \in Seq(Seq(E)) /\ Len(b) = n - 1
    BY <1>1, <2>1
  <2> QED BY <2>2 DEF b
<1> HIDE DEF a, b
<1>7. z \in Seq(Seq(E)) /\ Len(z) = n /\ \A i \in 1 .. n : z[i] = IF i <= 1 THEN a[i] ELSE b[i - 1]
  <2>1. /\ a \o b \in Seq(Seq(E)) /\ Len(a \o b) = Len(a) + Len(b)
        /\ \A i \in 1 .. Len(a) + Len(b) : (a \o b)[i] = IF i <= Len(a) THEN a[i] ELSE b[i - Len(a)]
    BY <1>5, <1>6, ConcatProperties
  <2> HIDE DEF z
  <2>2. Len(z) = Len(a) + Len(b) /\ Len(a) + Len(b) = n /\ z \in Seq(Seq(E))
    BY <1>1, <1>5, <1>6, <2>1 DEF z
  <2>3. ASSUME NEW i \in 1 .. n PROVE z[i] = IF i <= 1 THEN a[i] ELSE b[i - 1]
    <3>1. z[i] = IF i <= Len(a) THEN a[i] ELSE b[i - Len(a)]
      BY <2>1, <2>2 DEF z
    <3> QED BY <1>5, <3>1
  <2> QED BY <2>2, <2>3
<1> HIDE DEF z
<1>8. z = LineParts(name, args)
  BY DEF z, a, b, u, n, LineParts
<1>9. z[1] = <<u>>
  BY <1>1, <1>5, <1>7
<1>10. ASSUME NEW k \in 2 .. n
       PROVE  /\ z[k] = <<Config!SPACE>> \o Config!Item(args[k]) /\ args[k] \in Seq(E) /\ IsItem(args[k])
              /\ z[k][1] = Config!SPACE /\ Len(z[k]) \in Nat /\ Len(z[k]) >= 1
  <2>1. k \in 1 .. n /\ ~(k <= 1) /\ k - 1 \in 1 .. n - 1 /\ (k - 1) + 1 = k
    BY <1>1
  <2>2. z[k] = b[k - 1] /\ b[k - 1] = <<Config!SPACE>> \o Config!Item(args[k])
    BY <1>6, <1>7, <2>1
  <2>3. /\ (<<Config!SPACE>> \o Config!Item(args[k]))[1] = Config!SPACE
        /\ Len(<<Config!SPACE>> \o Config!Item(args[k])) \in Nat
        /\ Len(<<Config!SPACE>> \o Config!Item(args[k])) >= 1
    BY <1>4, <2>1
  <2> QED BY <1>3, <2>1, <2>2, <2>3
<1> QED BY <1>7, <1>8, <1>9, <1>10 DEF n, E, u

-----------------------------------------------------------------------------
\* What a line of a file is made of.
LEMMA LineIs ==
  ASSUME NEW name, NEW args, Writes(name, args)
  PROVE  Config!Line(args) = Config!FlattenSeq(LineParts(name, args))
<1>1. args[1] = Config!Option(name)
  BY DEF Writes
<1>2. [args[1][1] EXCEPT !.dash = FALSE] = Undashed(name)
  BY <1>1, NamesInFiles
<1> QED BY <1>2, Zenon DEF Config!Line, LineParts

\* The items of a line: the name without its dash, and the values.
Written(name, args) == [args EXCEPT ![1] = <<Undashed(name)>>]

\* They are texts of the characters of the line.
LEMMA WrittenIs ==
  ASSUME NEW name, NEW args, Writes(name, args)
  PROVE  /\ Written(name, args) \in Seq(Seq(LineChars(name))) /\ Len(Written(name, args)) = Len(args)
         /\ args \in Seq(Seq(LineChars(name)))
         /\ Written(name, args)[1] = <<Undashed(name)>>
         /\ \A k \in 2 .. Len(args) : Written(name, args)[k] = args[k]
<1> DEFINE n == Len(args)
           E == LineChars(name)
           u == Undashed(name)
<1>1. n \in Nat /\ n >= 1 /\ args \in Seq(Config!AnyText)
  BY EmptySeq DEF Writes
<1>2. Config!Chars \subseteq E /\ u \in E
  BY Zenon DEF LineChars
<1>3. Config!AnyText \subseteq Seq(E)
  BY <1>2, SeqMonotonic DEF Config!AnyText
<1> HIDE DEF E, u
<1>4. args \in Seq(Seq(E)) /\ <<u>> \in Seq(E)
  BY <1>1, <1>2, <1>3, SeqMonotonic
<1>5. 1 \in 1 .. Len(args)
  BY <1>1
<1> DEFINE w == [args EXCEPT ![1] = <<u>>]
<1>6. /\ w \in Seq(Seq(E)) /\ Len(w) = Len(args)
      /\ \A j \in 1 .. Len(args) : w[j] = IF j = 1 THEN <<u>> ELSE args[j]
  BY <1>4, <1>5, ExceptSeq
<1>7. w = Written(name, args)
  BY DEF Written, u
<1> HIDE DEF w
<1>8. w[1] = <<u>> /\ \A k \in 2 .. n : w[k] = args[k]
  BY <1>1, <1>5, <1>6
<1> QED BY <1>4, <1>6, <1>7, <1>8 DEF E, u

\* Behind the k-th of them, the first k have been read.
LEMMA ItemsEnd ==
  ASSUME NEW name, NEW args, Writes(name, args), NEW line, NEW f, NEW R,
         Joined(f, LineChars(name), LineParts(name, args)), line = f[Len(args)], ReadTo(R, line)
  PROVE  Ended(R[Len(line)], Written(name, args))
<1> DEFINE n == Len(args)
           E == LineChars(name)
           u == Undashed(name)
           s == LineParts(name, args)
           w == Written(name, args)
           S == {k \in Nat : k + 1 <= n => Ended(R[Len(f[k + 1])], SubSeq(w, 1, k + 1))}
<1>1. n \in Nat /\ n >= 1
  BY EmptySeq DEF Writes
<1>2. /\ s \in Seq(Seq(E)) /\ Len(s) = n /\ s[1] = <<u>>
      /\ \A k \in 2 .. n : /\ s[k] = <<Config!SPACE>> \o Config!Item(args[k])
                           /\ args[k] \in Seq(E) /\ IsItem(args[k])
                           /\ s[k][1] = Config!SPACE /\ Len(s[k]) \in Nat /\ Len(s[k]) >= 1
  BY LinePartsAre, SMTT(40)
<1>3. /\ w \in Seq(Seq(E)) /\ Len(w) = n /\ w[1] = <<u>>
      /\ \A k \in 2 .. n : w[k] = args[k]
  <2> HIDE DEF n, E, u, w
  <2>1. w \in Seq(Seq(E)) /\ Len(w) = n
    BY WrittenIs DEF w, E, n
  <2>2. w[1] = <<u>>
    BY WrittenIs DEF w, u
  <2>3. \A k \in 2 .. n : w[k] = args[k]
    BY WrittenIs DEF w, n
  <2> QED BY <2>1, <2>2, <2>3
<1>4. Config!SPACE \in E /\ Config!QUOTE \in E /\ u \in E
  BY Zenon DEF LineChars
<1>5. u # Config!SPACE /\ u # Config!QUOTE
  <2>1. u.text = name
    BY Zenon DEF Undashed
  <2> QED BY <2>1, Zenon DEF Writes
<1>6. Joined(f, E, s) /\ line = f[n]
  OBVIOUS
<1>7. \A k \in 2 .. n : Config!Carried(args[k])
  BY DEF Writes
<1> HIDE DEF n, E, u, s, w
<1>8. ASSUME NEW k \in 1 .. n
      PROVE  /\ Len(f[k - 1]) \in Nat /\ Len(s[k]) \in Nat
             /\ Len(f[k]) = Len(f[k - 1]) + Len(s[k]) /\ Len(f[k]) <= Len(line)
             /\ \A p \in 1 .. Len(s[k]) : line[Len(f[k - 1]) + p] = s[k][p]
  <2>1. k \in 1 .. Len(s) /\ s \in Seq(Seq(E)) /\ Joined(f, E, s) /\ line = f[Len(s)]
    BY <1>2, <1>6
  <2>2. PartAt(f, s, line, k)
    BY <2>1, JoinedHolds
  <2> QED BY <2>2 DEF PartAt
<1>9. f[0] = <<>> /\ Len(f[0]) = 0
  <2>1. f[0] = <<>>
    BY <1>6 DEF Joined
  <2> QED BY <2>1
<1>10. Len(line) \in Nat
  <2>1. f \in [0 .. n -> Seq(E)]
    <3>1. Len(s) = n
      BY <1>2
    <3>2. f \in [0 .. Len(s) -> Seq(E)]
      BY <1>6 DEF Joined
    <3> QED BY <3>1, <3>2
  <2>2. n \in 0 .. n
    BY <1>1
  <2>3. line \in Seq(E)
    BY <1>6, <2>1, <2>2
  <2> QED BY <2>3, LenProperties
<1>11. 0 \in S
  <2>1. 1 \in 1 .. n /\ 1 - 1 = 0 /\ 0 + 1 = 1 /\ Len(s[1]) = 1 /\ s[1][1] = u
    BY <1>1, <1>2
  <2>2. Len(f[1]) = 1 /\ 1 <= Len(line) /\ line[1] = u
    <3>1. Len(f[1]) = Len(f[0]) + Len(s[1]) /\ Len(f[1]) <= Len(line) /\ line[Len(f[0]) + 1] = s[1][1]
      <4>1. /\ Len(f[1]) = Len(f[1 - 1]) + Len(s[1]) /\ Len(f[1]) <= Len(line)
            /\ \A p \in 1 .. Len(s[1]) : line[Len(f[1 - 1]) + p] = s[1][p]
        BY <1>8, <2>1
      <4>2. 1 \in 1 .. Len(s[1])
        BY <2>1
      <4> QED BY <2>1, <4>1, <4>2
    <3> QED BY <1>9, <2>1, <3>1
  <2>3. R[1] = Config!Character(line, 1, R[0]) /\ R[0] = Config!NoItem
    <3>1. 1 \in 1 .. Len(line)
      BY <1>10, <2>2
    <3> QED BY <2>1, <3>1 DEF ReadTo
  <2>4. Config!NoItem = Outside(<<>>, FALSE)
    BY Zenon DEF Config!NoItem, Outside, Reader
  <2>5. R[1] = Plain(<<>>, <<line[1]>>)
    <3>1. line[1] # Config!SPACE /\ line[1] # Config!QUOTE
      BY <1>5, <2>2
    <3>2. PICK q : Config!NoItem = Outside(<<>>, q)
      BY <2>4
    <3>3. Config!Character(line, 1, Outside(<<>>, q)) = Plain(<<>>, <<line[1]>>)
      BY <3>1, ItemBegins
    <3> QED BY <2>3, <3>2, <3>3
  <2>6. R[1] = Plain(<<>>, <<u>>)
    BY <2>2, <2>5
  <2>7. SubSeq(w, 1, 1) = Append(<<>>, <<u>>)
    <3>1. 1 \in 1 .. Len(w) /\ 1 \in 1 .. Len(w)
      BY <1>1, <1>3
    <3>2. SubSeq(w, 1, 1) = SubSeq(w, 1, 1 - 1) \o <<w[1]>>
      BY <1>3, <3>1, SubSeqRecursiveSecond
    <3>3. SubSeq(w, 1, 1 - 1) = <<>>
      BY SubSeqEmpty
    <3>4. <<>> \in Seq({<<u>>}) /\ <<u>> \in {<<u>>}
      BY EmptySeq
    <3>5. Append(<<>>, <<u>>) = <<>> \o <<<<u>>>>
      BY <3>4, AppendIsConcat
    <3> QED BY <1>3, <3>2, <3>3, <3>5
  <2>8. <<u>> # <<>>
    OBVIOUS
  <2>9. Ended(R[1], SubSeq(w, 1, 1))
    BY <2>6, <2>7, <2>8, Zenon DEF Ended
  <2> QED BY <2>1, <2>2, <2>9
<1>12. ASSUME NEW m \in Nat, m \in S PROVE m + 1 \in S
  <2> SUFFICES ASSUME (m + 1) + 1 <= n
               PROVE  Ended(R[Len(f[(m + 1) + 1])], SubSeq(w, 1, (m + 1) + 1))
    OBVIOUS
  <2>1. PICK k : k = (m + 1) + 1 /\ k \in 2 .. n /\ k \in 1 .. n /\ k - 1 = m + 1
    BY <1>1
  <2>2. PICK p : p = Len(f[k - 1]) /\ p \in Nat
    BY <1>8, <2>1
  <2>3. PICK its : its = SubSeq(w, 1, k - 1)
    OBVIOUS
  <2>4. Ended(R[p], its)
    <3>1. m + 1 <= n
      BY <1>1
    <3> QED BY <1>12, <2>1, <2>2, <2>3, <3>1
  <2>5. PICK part : part = s[k]
    OBVIOUS
  <2>6. PICK text : text = args[k]
    OBVIOUS
  <2>7. /\ part = <<Config!SPACE>> \o Config!Item(text) /\ text \in Seq(E) /\ IsItem(text)
        /\ Config!Carried(text) /\ w[k] = text
    BY <1>2, <1>3, <1>7, <2>1, <2>5, <2>6
  <2>8. Stands(line, p, part) /\ Len(part) \in Nat /\ Len(f[k]) = p + Len(part)
    <3>1. /\ Len(s[k]) \in Nat /\ Len(f[k]) = Len(f[k - 1]) + Len(s[k]) /\ Len(f[k]) <= Len(line)
          /\ \A j \in 1 .. Len(s[k]) : line[Len(f[k - 1]) + j] = s[k][j]
      BY <1>8, <2>1
    <3> QED BY <2>2, <2>5, <3>1 DEF Stands
  <2>9. p + Len(part) + 1 <= Len(line) => line[p + Len(part) + 1] = Config!SPACE
    <3>1. SUFFICES ASSUME p + Len(part) + 1 <= Len(line) PROVE line[p + Len(part) + 1] = Config!SPACE
      OBVIOUS
    <3>2. k # n
      BY <1>6, <1>10, <2>2, <2>8, <3>1
    <3>3. k + 1 \in 2 .. n /\ k + 1 \in 1 .. n /\ (k + 1) - 1 = k
      BY <1>1, <2>1, <3>2
    <3>4. \A j \in 1 .. Len(s[k + 1]) : line[Len(f[k]) + j] = s[k + 1][j]
      <4>1. \A j \in 1 .. Len(s[k + 1]) : line[Len(f[(k + 1) - 1]) + j] = s[k + 1][j]
        BY <1>8, <3>3
      <4> QED BY <3>3, <4>1
    <3>5. s[k + 1][1] = Config!SPACE /\ Len(s[k + 1]) \in Nat /\ Len(s[k + 1]) >= 1
      BY <1>2, <3>3
    <3>6. line[Len(f[k]) + 1] = Config!SPACE
      BY <3>4, <3>5
    <3> QED BY <2>8, <3>6
  <2>10. Ended(R[p + Len(part)], Append(its, text))
    BY <1>4, <1>10, <2>2, <2>4, <2>7, <2>8, <2>9, PartRead
  <2>11. SubSeq(w, 1, k) = Append(its, text)
    <3>1. 1 \in 1 .. Len(w) /\ k \in 1 .. Len(w)
      BY <1>1, <1>3, <2>1
    <3>2. SubSeq(w, 1, k) = its \o <<text>>
      BY <1>3, <2>3, <2>7, <3>1, SubSeqRecursiveSecond
    <3>3. its \in Seq(Seq(E))
      <4>1. \A i \in 1 .. k - 1 : w[i] \in Seq(E)
        BY <1>3, <2>1, ElementOfSeq
      <4> QED BY <2>1, <2>3, <4>1, SubSeqProperties
    <3> QED BY <2>7, <3>2, <3>3, AppendIsConcat
  <2> QED BY <2>1, <2>8, <2>10, <2>11
<1> HIDE DEF S
<1>13. n - 1 \in S /\ (n - 1) + 1 = n
  <2>1. n - 1 \in Nat /\ (n - 1) + 1 = n
    BY <1>1
  <2>2. \A k \in Nat : k \in S
    BY <1>11, <1>12, EveryNumber
  <2> QED BY <2>1, <2>2
<1>14. Ended(R[Len(f[n])], SubSeq(w, 1, n))
  BY <1>1, <1>13 DEF S
<1>15. SubSeq(w, 1, n) = w
  BY <1>3, SubSeqFull
<1> QED BY <1>6, <1>14, <1>15 DEF w

\* What is written into a file is read back, in quotes or not.
LEMMA ReadBack ==
  ASSUME NEW name, NEW args, Writes(name, args)
  PROVE  Config!Tokens(Config!Line(args)) = args
<1> DEFINE s == LineParts(name, args)
           E == LineChars(name)
           w == Written(name, args)
           n == Len(args)
<1>1. n \in Nat /\ n >= 1 /\ s \in Seq(Seq(E)) /\ Len(s) = n
  BY LinePartsAre, EmptySeq DEF Writes
<1> HIDE DEF s, E, n
<1>2. s # <<>>
  BY <1>1
<1>3. PICK f : Joined(f, E, s) /\ Config!FlattenSeq(s) = f[Len(s)]
  BY <1>1, <1>2, Flattens
<1>4. PICK line : line = f[n]
  OBVIOUS
<1>5. Config!Line(args) = line
  BY <1>1, <1>3, <1>4, LineIs DEF s
<1>6. Len(line) \in Nat
  <2>1. f \in [0 .. n -> Seq(E)] /\ n \in 0 .. n
    BY <1>1, <1>3 DEF Joined
  <2> QED BY <1>4, <2>1, LenProperties
<1>7. PICK R : /\ ReadTo(R, line)
               /\ Config!Items(line) =
                    IF R[Len(line)].item = <<>> THEN R[Len(line)].items
                    ELSE Append(R[Len(line)].items, R[Len(line)].item)
  BY <1>6, ItemsRead
<1>8. Ended(R[Len(line)], w)
  BY <1>3, <1>4, <1>7, ItemsEnd DEF s, E, n
<1> HIDE DEF w
<1>9. Config!Items(line) = w
  BY <1>7, <1>8, EndedIs
<1>10. /\ w \in Seq(Seq(E)) /\ Len(w) = n /\ args \in Seq(Seq(E))
       /\ w[1] = <<Undashed(name)>> /\ \A k \in 2 .. n : w[k] = args[k]
  BY WrittenIs DEF w, E, n
<1>11. Config!Tokens(line) = <<[w[1] EXCEPT ![1].dash = TRUE]>> \o Tail(w)
  BY <1>9, Zenon DEF Config!Tokens
<1>12. [w[1] EXCEPT ![1].dash = TRUE] = args[1]
  <2>1. args[1] = Config!Option(name)
    BY DEF Writes
  <2> QED BY <1>10, <2>1, NamesInFiles, Zenon
<1>13. <<args[1]>> \o Tail(w) = args
  <2>1. args # <<>>
    BY DEF Writes
  <2> QED BY <1>10, <2>1, FirstChanged DEF n
<1> QED BY <1>5, <1>11, <1>12, <1>13, Zenon

-----------------------------------------------------------------------------
\* The constructor leaves settings.
LEMMA DefaultsAreSettings == AreSettings(Config!Defaults)
<1>1. PICK d : d = Config!Defaults
  OBVIOUS
<1>2. d = [m \in DOMAIN d |-> d[m]]
  BY <1>1, Zenon DEF Config!Defaults
<1> QED BY <1>1, <1>2, Zenon DEF AreSettings, Members

\* The settings after each of some options, by what the parser makes of them
\* and by what they say.
Said(s, l) == IF ~l.ok THEN s ELSE Effect(s, l)
Told(w) ==
  CHOOSE g : g = [k \in 0 .. Len(w) |->
                    IF k = 0 THEN Config!Defaults ELSE Effect(g[k - 1], Heard(w[k]))]
Saying(w) ==
  CHOOSE g : g = [k \in 0 .. Len(w) |->
                    IF k = 0 THEN Config!Defaults ELSE Said(g[k - 1], w[k])]

\* The latter is what they mean, one by one.
LEMMA MeantIsSaid == Config!Meant = Saying(written)[Len(written)]
  BY Zenon DEF Config!Meant, Saying, Said, Effect, Members

\* Each option changes what those before it left.
LEMMA ToldIs ==
  ASSUME NEW w, Len(w) \in Nat
  PROVE  /\ Told(w)[0] = Config!Defaults
         /\ \A k \in 1 .. Len(w) : Told(w)[k] = Effect(Told(w)[k - 1], Heard(w[k]))
<1> DEFINE n == Len(w)
           T(R, m) == R = [k \in 0 .. m |-> IF k = 0 THEN Config!Defaults ELSE Effect(R[k - 1], Heard(w[k]))]
           S == {m \in Nat : \E R : T(R, m)}
<1>1. 0 \in S
  <2> DEFINE z == [k \in 0 .. 0 |-> Config!Defaults]
  <2>1. T(z, 0)
    OBVIOUS
  <2> HIDE DEF z
  <2> QED BY <2>1
<1>2. ASSUME NEW m \in Nat, m \in S PROVE m + 1 \in S
  <2>1. PICK f : T(f, m)
    BY <1>2
  <2> DEFINE v == Effect(f[m], Heard(w[m + 1]))
             g == [k \in 0 .. m + 1 |-> IF k = m + 1 THEN v ELSE f[k]]
  <2>2. ASSUME NEW k \in 0 .. m
        PROVE  g[k] = f[k] /\ f[k] = IF k = 0 THEN Config!Defaults ELSE Effect(f[k - 1], Heard(w[k]))
    <3>1. g[k] = f[k]
      OBVIOUS
    <3> HIDE DEF g, v
    <3> QED BY <2>1, <3>1
  <2>3. g[m + 1] = v
    OBVIOUS
  <2>4. g = [k \in 0 .. m + 1 |-> g[k]]
    OBVIOUS
  <2> HIDE DEF g
  <2>5. ASSUME NEW k \in 0 .. m + 1
        PROVE  g[k] = IF k = 0 THEN Config!Defaults ELSE Effect(g[k - 1], Heard(w[k]))
    <3>1. CASE k = m + 1
      <4>1. k # 0 /\ k - 1 = m /\ m \in 0 .. m
        BY <3>1
      <4>2. g[k - 1] = f[m]
        BY <2>2, <4>1
      <4> QED BY <2>3, <3>1, <4>1, <4>2
    <3>2. CASE k = 0
      <4>1. k \in 0 .. m
        BY <3>2
      <4> QED BY <2>2, <3>2, <4>1
    <3>3. CASE k # m + 1 /\ k # 0
      <4>1. k \in 0 .. m /\ k - 1 \in 0 .. m
        BY <3>3
      <4> QED BY <2>2, <3>3, <4>1
    <3> QED BY <3>1, <3>2, <3>3
  <2>6. T(g, m + 1)
    BY <2>4, <2>5
  <2> QED BY <2>6
<1> HIDE DEF S
<1>3. n \in S
  BY <1>1, <1>2, EveryNumber
<1> DEFINE R == CHOOSE R : T(R, n)
<1>4. T(R, n)
  <2>1. \E f : T(f, n)
    BY <1>3 DEF S
  <2> QED BY <2>1
<1>5. Told(w) = R
  BY DEF Told
<1> HIDE DEF R
<1>6. R[0] = Config!Defaults
  BY <1>4
<1>7. ASSUME NEW k \in 1 .. n PROVE R[k] = Effect(R[k - 1], Heard(w[k]))
  <2>1. k \in 0 .. n /\ k # 0
    OBVIOUS
  <2> HIDE DEF n
  <2> QED BY <1>4, <2>1
<1> QED BY <1>5, <1>6, <1>7

LEMMA SayingIs ==
  ASSUME NEW w, Len(w) \in Nat
  PROVE  /\ Saying(w)[0] = Config!Defaults
         /\ \A k \in 1 .. Len(w) : Saying(w)[k] = Said(Saying(w)[k - 1], w[k])
<1> DEFINE n == Len(w)
           T(R, m) == R = [k \in 0 .. m |-> IF k = 0 THEN Config!Defaults ELSE Said(R[k - 1], w[k])]
           S == {m \in Nat : \E R : T(R, m)}
<1>1. 0 \in S
  <2> DEFINE z == [k \in 0 .. 0 |-> Config!Defaults]
  <2>1. T(z, 0)
    OBVIOUS
  <2> HIDE DEF z
  <2> QED BY <2>1
<1>2. ASSUME NEW m \in Nat, m \in S PROVE m + 1 \in S
  <2>1. PICK f : T(f, m)
    BY <1>2
  <2> DEFINE v == Said(f[m], w[m + 1])
             g == [k \in 0 .. m + 1 |-> IF k = m + 1 THEN v ELSE f[k]]
  <2>2. ASSUME NEW k \in 0 .. m
        PROVE  g[k] = f[k] /\ f[k] = IF k = 0 THEN Config!Defaults ELSE Said(f[k - 1], w[k])
    <3>1. g[k] = f[k]
      OBVIOUS
    <3> HIDE DEF g, v
    <3> QED BY <2>1, <3>1
  <2>3. g[m + 1] = v
    OBVIOUS
  <2>4. g = [k \in 0 .. m + 1 |-> g[k]]
    OBVIOUS
  <2> HIDE DEF g
  <2>5. ASSUME NEW k \in 0 .. m + 1
        PROVE  g[k] = IF k = 0 THEN Config!Defaults ELSE Said(g[k - 1], w[k])
    <3>1. CASE k = m + 1
      <4>1. k # 0 /\ k - 1 = m /\ m \in 0 .. m
        BY <3>1
      <4>2. g[k - 1] = f[m]
        BY <2>2, <4>1
      <4> QED BY <2>3, <3>1, <4>1, <4>2
    <3>2. CASE k = 0
      <4>1. k \in 0 .. m
        BY <3>2
      <4> QED BY <2>2, <3>2, <4>1
    <3>3. CASE k # m + 1 /\ k # 0
      <4>1. k \in 0 .. m /\ k - 1 \in 0 .. m
        BY <3>3
      <4> QED BY <2>2, <3>3, <4>1
    <3> QED BY <3>1, <3>2, <3>3
  <2>6. T(g, m + 1)
    BY <2>4, <2>5
  <2> QED BY <2>6
<1> HIDE DEF S
<1>3. n \in S
  BY <1>1, <1>2, EveryNumber
<1> DEFINE R == CHOOSE R : T(R, n)
<1>4. T(R, n)
  <2>1. \E f : T(f, n)
    BY <1>3 DEF S
  <2> QED BY <2>1
<1>5. Saying(w) = R
  BY DEF Saying
<1> HIDE DEF R
<1>6. R[0] = Config!Defaults
  BY <1>4
<1>7. ASSUME NEW k \in 1 .. n PROVE R[k] = Said(R[k - 1], w[k])
  <2>1. k \in 0 .. n /\ k # 0
    OBVIOUS
  <2> HIDE DEF n
  <2> QED BY <1>4, <2>1
<1> QED BY <1>5, <1>6, <1>7

\* A line with a rotation turns the picture, the others do what they say.
Turns == {"videoflip", "videorotate"}
HasRotation(w) == \E k \in 1 .. Len(w) : Config!IsOf(w[k], "r")

LEMMA HeardAndSaid ==
  ASSUME NEW l, Config!Says(l), Heard(l).ok, NEW s, NEW t, NEW m \in Members, s[m] = t[m],
         Config!IsOf(l, "r") => m \notin Turns
  PROVE  Effect(s, Heard(l))[m] = Said(t, l)[m]
<1>1. CASE Config!IsOf(l, "r")
  <2>1. m # "videoflip" /\ m # "videorotate"
    BY <1>1 DEF Turns
  <2>2. DOMAIN Heard(l).sets = {"videoflip"} /\ Heard(l).turns = {} /\ DOMAIN Heard(l).adds = {}
    <3>1. PICK v : v = Config!Value(l)
      OBVIOUS
    <3>2. Heard(l).sets = [videoflip |-> v] /\ Heard(l).turns = {} /\ Heard(l).adds = <<>>
      BY <1>1, <3>1 DEF Heard
    <3> QED BY <3>2
  <2>3. Effect(s, Heard(l))[m] = s[m]
    BY <2>1, <2>2 DEF Effect
  <2>4. CASE ~l.ok
    BY <2>3, <2>4 DEF Said
  <2>5. CASE l.ok
    <3>1. PICK v : v = Config!Value(l)
      OBVIOUS
    <3>2. Config!Sets(l, [videorotate |-> v])
      BY <1>1, <2>5, <3>1 DEF Config!Says, Config!DisplaySays
    <3>3. DOMAIN l.sets = {"videorotate"} /\ l.turns = {} /\ DOMAIN l.adds = {}
      <4>1. OnlySets(l) /\ l.sets = [videorotate |-> v]
        BY <3>2, SetsOnly
      <4> QED BY <4>1 DEF OnlySets
    <3>4. Effect(t, l)[m] = t[m]
      BY <2>1, <3>3 DEF Effect
    <3> QED BY <2>3, <2>5, <3>4 DEF Said
  <2> QED BY <2>4, <2>5
<1>2. CASE ~Config!IsOf(l, "r") /\ Config!IsUnknown(l)
  <2>1. DOMAIN Heard(l).sets = {} /\ Heard(l).turns = {} /\ DOMAIN Heard(l).adds = {}
    <3>1. Heard(l).sets = <<>> /\ Heard(l).turns = {} /\ Heard(l).adds = <<>>
      BY <1>2 DEF Heard
    <3> QED BY <3>1
  <2>2. ~l.ok
    BY <1>2 DEF Config!Says, Config!OtherSays
  <2>3. Effect(s, Heard(l))[m] = s[m]
    BY <2>1 DEF Effect
  <2> QED BY <2>2, <2>3 DEF Said
<1>3. CASE ~Config!IsOf(l, "r") /\ ~Config!IsUnknown(l)
  <2>1. Heard(l) = l
    BY <1>3 DEF Heard
  <2>2. Effect(s, l)[m] = Effect(t, l)[m]
    BY DEF Effect
  <2> QED BY <2>1, <2>2 DEF Said
<1> QED BY <1>1, <1>2, <1>3

\* What is told is what is said, but for the turns of a rotation.
LEMMA ToldAsSaid ==
  ASSUME NEW w, Len(w) \in Nat, \A k \in 1 .. Len(w) : Config!Says(w[k]) /\ Heard(w[k]).ok,
         NEW m \in Members, HasRotation(w) => m \notin Turns
  PROVE  Told(w)[Len(w)][m] = Saying(w)[Len(w)][m]
<1> DEFINE n == Len(w)
           S == {k \in Nat : k <= n => Told(w)[k][m] = Saying(w)[k][m]}
<1>1. /\ Told(w)[0] = Config!Defaults
      /\ \A k \in 1 .. n : Told(w)[k] = Effect(Told(w)[k - 1], Heard(w[k]))
  BY ToldIs
<1>2. /\ Saying(w)[0] = Config!Defaults
      /\ \A k \in 1 .. n : Saying(w)[k] = Said(Saying(w)[k - 1], w[k])
  BY SayingIs
<1>3. 0 \in S
  BY <1>1, <1>2
<1>4. ASSUME NEW k \in Nat, k \in S PROVE k + 1 \in S
  <2>1. SUFFICES ASSUME k + 1 <= n PROVE Told(w)[k + 1][m] = Saying(w)[k + 1][m]
    OBVIOUS
  <2>2. k + 1 \in 1 .. n /\ (k + 1) - 1 = k /\ k <= n
    BY <2>1
  <2>3. Told(w)[k][m] = Saying(w)[k][m]
    BY <1>4, <2>2
  <2>4. Config!Says(w[k + 1]) /\ Heard(w[k + 1]).ok
    BY <2>2
  <2>5. Config!IsOf(w[k + 1], "r") => m \notin Turns
    BY <2>2 DEF HasRotation
  <2>6. PICK l, s, t : l = w[k + 1] /\ s = Told(w)[k] /\ t = Saying(w)[k]
    OBVIOUS
  <2>7. Effect(s, Heard(l))[m] = Said(t, l)[m]
    <3>1. /\ Config!Says(l) /\ Heard(l).ok /\ s[m] = t[m] /\ m \in Members
          /\ Config!IsOf(l, "r") => m \notin Turns
      BY <2>3, <2>4, <2>5, <2>6
    <3> QED BY <3>1, HeardAndSaid, Zenon
  <2>8. Told(w)[k + 1] = Effect(s, Heard(l)) /\ Saying(w)[k + 1] = Said(t, l)
    BY <1>1, <1>2, <2>2, <2>6
  <2> QED BY <2>7, <2>8
<1>5. n \in Nat
  OBVIOUS
<1> HIDE DEF n
<1>6. n \in S
  <2> HIDE DEF S
  <2> QED BY <1>3, <1>4, <1>5, EveryNumber
<1> QED BY <1>5, <1>6 DEF n

\* The arguments of some options, and how many there are up to each of them.
Given(w) == [k \in 1 .. Len(w) |-> w[k].args]
Upto(w) ==
  CHOOSE f : Joined(f, Config!AnyText, Given(w)) /\ Config!FlattenSeq(Given(w)) = f[Len(Given(w))]

\* What the user wrote.
Some(w) == Len(w) \in Nat \ {0} /\ \A k \in 1 .. Len(w) : w[k] \in Lines

\* Each option says what it means and can be written into a file.
LEMMA LineGiven ==
  ASSUME NEW l \in Lines
  PROVE  /\ Config!Says(l) /\ l.args \in Seq(Config!AnyText) /\ Len(l.args) \in Nat \ {0}
         /\ IsName(l.args[1])
         /\ Config!Tokens(Config!Line(l.args)) = l.args
<1>1. Config!Says(l)
  BY OptionsAssumption
<1>2. Config!ArgsOf(l) /\ Config!NameOf(l) /\ \A k \in 2 .. Len(l.args) : Config!Carried(l.args[k])
  BY <1>1, Zenon DEF Config!Says
<1>3. PICK name : name = l.args[1][1].text
  OBVIOUS
<1>4. /\ l.args[1] = Config!Option(name)
      /\ name \notin {"", ":"} /\ name \notin {Config!SPACE.text, Config!QUOTE.text}
  BY <1>2, <1>3, Zenon DEF Config!NameOf, Config!IsOf
<1>5. l.args \in Seq(Config!AnyText) /\ Len(l.args) \in Nat \ {0}
  <2>1. l.args \in Seq(Config!AnyText) /\ (Len(l.args) \in {1, 2} \/ Len(l.args) = 3)
    BY <1>2, Zenon DEF Config!ArgsOf
  <2>2. PICK n : n = Len(l.args)
    OBVIOUS
  <2>3. n \in {1, 2} \/ n = 3
    BY <2>1, <2>2, Zenon
  <2>4. n \in Nat \ {0}
    BY <2>3
  <2> QED BY <2>1, <2>2, <2>4, Zenon
<1>6. l.args # <<>>
  BY <1>5
<1>7. Writes(name, l.args)
  BY <1>2, <1>4, <1>5, <1>6, Zenon DEF Writes
<1> QED BY <1>1, <1>4, <1>5, <1>7, ReadBack DEF IsName

\* Where the arguments of each option are.
LEMMA UptoIs ==
  ASSUME NEW w, Some(w)
  PROVE  /\ Joined(Upto(w), Config!AnyText, Given(w))
         /\ Config!FlattenSeq(Given(w)) = Upto(w)[Len(w)]
         /\ Given(w) \in Seq(Seq(Config!AnyText)) /\ Len(Given(w)) = Len(w)
<1> DEFINE s == Given(w)
           n == Len(w)
<1>1. n \in Nat /\ n # 0 /\ \A k \in 1 .. n : w[k].args \in Seq(Config!AnyText)
  BY LineGiven DEF Some
<1> HIDE DEF n
<1>2. s \in [1 .. n -> Seq(Config!AnyText)]
  BY <1>1 DEF Given, n
<1> HIDE DEF s
<1>3. s \in Seq(Seq(Config!AnyText)) /\ Len(s) = n /\ s # <<>>
  <2>1. s \in Seq(Seq(Config!AnyText)) /\ Len(s) = n
    BY <1>1, <1>2
  <2> QED BY <1>1, <2>1
<1>4. \E f : Joined(f, Config!AnyText, s) /\ Config!FlattenSeq(s) = f[Len(s)]
  BY <1>3, Flattens
<1>5. Joined(Upto(w), Config!AnyText, s) /\ Config!FlattenSeq(s) = Upto(w)[Len(s)]
  BY <1>4, Zenon DEF Upto, s
<1> QED BY <1>3, <1>5 DEF s, n

-----------------------------------------------------------------------------
\* The options are read in turn: what has been set is what those that were
\* passed mean, and the parser is at the next one.
Chosen == Some(written)
AtNext ==
  /\ argv = <<Config!Text("JARVIS")>> \o Upto(written)[Len(written)]
  /\ \E k \in 0 .. Len(written) - 1 :
       /\ at = 2 + Len(Upto(written)[k]) /\ settings = Told(written)[k]
       /\ \A j \in 1 .. k : Heard(written[j]).ok
OptionsInv ==
  /\ Chosen
  /\ outcome \in {"reading", "parsing", "done", "exit", "undefined"}
  /\ outcome = "reading" => at = 2 /\ settings = Config!Defaults
  /\ outcome = "parsing" => AtNext
  /\ outcome = "done" =>
       settings = Told(written)[Len(written)] /\ \A j \in 1 .. Len(written) : Heard(written[j]).ok
  /\ outcome \in {"exit", "undefined"} => \E k \in 1 .. Len(written) : ~Heard(written[k]).ok

\* At first nothing has been read.
LEMMA OptionsBegin == Config!Init => OptionsInv
<1> SUFFICES ASSUME Config!Init PROVE OptionsInv
  OBVIOUS
<1>1. PICK n \in 1 .. MAX_OPTIONS : written \in [1 .. n -> Lines]
  BY DEF Config!Init
<1>2. n \in Nat \ {0}
  BY OptionsAssumption
<1>3. Len(written) = n /\ \A k \in 1 .. n : written[k] \in Lines
  BY <1>1, <1>2
<1>4. Chosen
  BY <1>2, <1>3 DEF Chosen, Some
<1> QED BY <1>4 DEF Config!Init, OptionsInv

\* The invariant says what is to be shown.
LEMMA OptionsInvImplies == OptionsInv => OptionsAsWritten
<1> SUFFICES ASSUME OptionsInv PROVE OptionsAsWritten
  OBVIOUS
<1> DEFINE Rotations == {k \in 1 .. Len(written) : Config!IsOf(written[k], "r")}
           Wrong == {k \in 1 .. Len(written) : ~written[k].ok}
           Turned == IF Rotations = {} THEN {} ELSE Turns
<1>1. Len(written) \in Nat /\ \A k \in 1 .. Len(written) : Config!Says(written[k])
  BY LineGiven DEF OptionsInv, Chosen, Some
<1>2. ASSUME outcome = "done", NEW m \in Members \ Turned PROVE settings[m] = Config!Meant[m]
  <2>1. /\ settings = Told(written)[Len(written)]
        /\ \A j \in 1 .. Len(written) : Heard(written[j]).ok
    BY <1>2 DEF OptionsInv
  <2>2. HasRotation(written) => m \notin Turns
    BY DEF HasRotation
  <2>3. Told(written)[Len(written)][m] = Saying(written)[Len(written)][m]
    BY <1>1, <2>1, <2>2, ToldAsSaid
  <2> QED BY <2>1, <2>3, MeantIsSaid
<1>3. ASSUME outcome = "done", NEW k \in Wrong \ Rotations PROVE Config!IsUnknown(written[k])
  <2>1. Heard(written[k]).ok
    BY <1>3 DEF OptionsInv
  <2>2. CASE ~Config!IsUnknown(written[k])
    <3>1. Heard(written[k]) = written[k]
      BY <2>2 DEF Heard
    <3> QED BY <2>1, <3>1
  <2> QED BY <2>2
<1>4. ASSUME outcome \in {"exit", "undefined"} PROVE Wrong \cup Rotations # {}
  <2>1. PICK k \in 1 .. Len(written) : ~Heard(written[k]).ok
    BY <1>4 DEF OptionsInv
  <2>2. CASE ~Config!IsOf(written[k], "r") /\ Config!IsUnknown(written[k])
    <3>1. Heard(written[k]).ok
      BY <2>2 DEF Heard
    <3> QED BY <2>1, <3>1
  <2>3. CASE ~Config!IsOf(written[k], "r") /\ ~Config!IsUnknown(written[k])
    <3>1. Heard(written[k]) = written[k]
      BY <2>3 DEF Heard
    <3> QED BY <2>1, <3>1
  <2> QED BY <2>2, <2>3
<1>5. Turned = IF Rotations = {} THEN {} ELSE {"videoflip", "videorotate"}
  BY DEF Turns
<1> HIDE DEF Turned
<1> QED BY <1>2, <1>3, <1>4, <1>5, Zenon DEF Members, OptionsAsWritten, Config!OptionsAsWritten

\* From the command line or a file, the arguments are those that were written.
LEMMA ArgumentsAreGiven ==
  ASSUME Chosen, Config!Started \/ Config!read_config_file
  PROVE  /\ argv' = <<Config!Text("JARVIS")>> \o Upto(written)[Len(written)]
         /\ outcome' = "parsing" /\ UNCHANGED <<written, source, at, settings>>
<1>1. Config!FlattenSeq(Given(written)) = Upto(written)[Len(written)]
  BY UptoIs DEF Chosen
<1>2. CASE Config!Started
  <2>1. argv' = <<Config!Text("JARVIS")>> \o Config!FlattenSeq(Given(written))
    BY <1>2, Zenon DEF Config!Started, Given
  <2> QED BY <1>1, <1>2, <2>1 DEF Config!Started
<1>3. CASE Config!read_config_file
  <2>1. Given(written) = [k \in 1 .. Len(written) |-> Config!Tokens(Config!Line(written[k].args))]
    <3>1. \A k \in 1 .. Len(written) : Config!Tokens(Config!Line(written[k].args)) = written[k].args
      BY LineGiven, Zenon DEF Chosen, Some
    <3> QED BY <3>1, Zenon DEF Given
  <2>2. argv' = <<Config!Text("JARVIS")>> \o Config!FlattenSeq(Given(written))
    BY <1>3, <2>1, Zenon DEF Config!read_config_file
  <2> QED BY <1>1, <1>3, <2>2 DEF Config!read_config_file
<1> QED BY <1>2, <1>3

\* The parser begins with the first option.
LEMMA ArgumentsKeep ==
  ASSUME OptionsInv, outcome = "reading", Config!Started \/ Config!read_config_file
  PROVE  OptionsInv'
<1>1. /\ argv' = <<Config!Text("JARVIS")>> \o Upto(written)[Len(written)]
      /\ outcome' = "parsing" /\ written' = written /\ at' = at /\ settings' = settings
  BY ArgumentsAreGiven DEF OptionsInv
<1>2. Chosen /\ at = 2 /\ settings = Config!Defaults
  BY DEF OptionsInv
<1>3. Len(written) \in Nat \ {0}
  BY <1>2 DEF Chosen, Some
<1>4. Upto(written)[0] = <<>>
  BY <1>2, UptoIs DEF Chosen, Joined
<1>5. Told(written)[0] = Config!Defaults
  BY <1>3, ToldIs
<1>6. 2 = 2 + Len(<<>>) /\ 0 \in 0 .. Len(written) - 1
  BY <1>3
<1>7. /\ at' = 2 + Len(Upto(written)[0]) /\ settings' = Told(written)[0]
      /\ \A j \in 1 .. 0 : Heard(written[j]).ok
  BY <1>1, <1>2, <1>4, <1>5, <1>6
<1>8. AtNext'
  BY <1>1, <1>6, <1>7 DEF AtNext
<1>9. Chosen'
  BY <1>1, <1>2 DEF Chosen, Some
<1> QED BY <1>1, <1>8, <1>9 DEF OptionsInv

\* Only one that is parsing goes on.
LEMMA NextIs ==
  ASSUME Config!Next
  PROVE  \/ outcome = "reading" /\ (Config!Started \/ Config!read_config_file)
         \/ outcome = "parsing"
<1>1. CASE Config!Started \/ Config!read_config_file
  BY <1>1, Zenon DEF Config!Started, Config!read_config_file
<1>2. CASE \E name \in Config!FlagNames : Config!Flag(name)
  BY <1>2, Zenon DEF Config!Flag, Config!At
<1>3. CASE \E name \in DOMAIN Config!TextOptions : Config!TextOption(name)
  BY <1>3, Zenon DEF Config!TextOption, Config!At
<1>4. CASE \E name \in DOMAIN Config!ListOptions : Config!ListOption(name)
  BY <1>4, Zenon DEF Config!ListOption, Config!At
<1>5. CASE \E name \in DOMAIN Config!FileOptions : Config!FileOption(name)
  BY <1>5, Zenon DEF Config!FileOption, Config!At
<1>6. CASE Config!Display \/ Config!Fps \/ Config!Flip \/ Config!Restricted
  BY <1>6, Zenon DEF Config!Display, Config!Fps, Config!Flip, Config!Restricted, Config!At
<1>7. CASE \/ Config!Sync("async", "audio_sync", "audio_delay_alac")
           \/ Config!Sync("vsync", "video_sync", "audio_delay_aac")
  BY <1>7, Zenon DEF Config!Sync, Config!At
<1>8. CASE Config!Ports \/ Config!Mac \/ Config!ResetLimit
  <2>1. Config!Ports => Config!At("p")
    BY DEF Config!Ports
  <2>2. Config!Mac => Config!At("m")
    BY DEF Config!Mac
  <2>3. Config!ResetLimit => Config!At("reset")
    BY DEF Config!ResetLimit
  <2> QED BY <1>8, <2>1, <2>2, <2>3, Zenon DEF Config!At
<1>9. CASE \/ Config!Dump("vdmp", "dump_video", "video_dump_limit", "video_dumpfile_name")
           \/ Config!Dump("admp", "dump_audio", "audio_dump_limit", "audio_dumpfile_name")
  <2>1. ASSUME NEW a, NEW b, NEW c, NEW d, Config!Dump(a, b, c, d) PROVE Config!At(a)
    BY <2>1 DEF Config!Dump
  <2> QED BY <1>9, <2>1, Zenon DEF Config!At
<1>10. CASE \/ Config!CoverArt \/ Config!Latency \/ Config!Pin \/ Config!Decibels \/ Config!Removed
            \/ Config!Unknown
  <2>1. Config!CoverArt => Config!At("ca")
    BY DEF Config!CoverArt
  <2>2. Config!Latency => Config!At("al")
    BY DEF Config!Latency
  <2>3. Config!Pin => Config!At("pin")
    BY DEF Config!Pin
  <2>4. Config!Decibels => Config!At("db")
    BY DEF Config!Decibels
  <2>5. Config!Removed => \E name : Config!At(name)
    BY Zenon DEF Config!Removed
  <2>6. Config!Unknown => outcome = "parsing"
    BY DEF Config!Unknown
  <2> QED BY <1>10, <2>1, <2>2, <2>3, <2>4, <2>5, <2>6, Zenon DEF Config!At
<1> QED BY <1>1, <1>2, <1>3, <1>4, <1>5, <1>6, <1>7, <1>8, <1>9, <1>10, Zenon DEF Config!Next

\* The parser is at one of the options, and has all of it before it.
LEMMA AtOption ==
  ASSUME OptionsInv, outcome = "parsing"
  PROVE  \E k \in 1 .. Len(written) :
           /\ Reading(written[k]) /\ written[k] \in Lines
           /\ settings = Told(written)[k - 1] /\ at = 2 + Len(Upto(written)[k - 1])
           /\ \A i \in 1 .. k - 1 : Heard(written[i]).ok
           /\ at + Len(written[k].args) = 2 + Len(Upto(written)[k])
           /\ at + Len(written[k].args) - 1 >= Len(argv) <=> k = Len(written)
<1> DEFINE n == Len(written)
           f == Upto(written)
           s == Given(written)
           all == f[n]
           T == Config!AnyText
<1>1. Some(written) /\ n \in Nat \ {0} /\ \A k \in 1 .. n : written[k] \in Lines
  BY DEF OptionsInv, Chosen, Some
<1>2. Joined(f, T, s) /\ s \in Seq(Seq(T)) /\ Len(s) = n
  BY <1>1, UptoIs
<1>3. PICK j \in 0 .. n - 1 : /\ at = 2 + Len(f[j]) /\ settings = Told(written)[j]
                              /\ \A i \in 1 .. j : Heard(written[i]).ok
  BY DEF OptionsInv, AtNext
<1>4. argv = <<Config!Text("JARVIS")>> \o all
  BY DEF OptionsInv, AtNext
<1>5. \A k \in 1 .. n : s[k] = written[k].args
  BY DEF Given
<1>a. AreSettings(Told(written)[j])
  <2>1. CASE j = 0
    BY <1>1, <2>1, ToldIs, DefaultsAreSettings
  <2>2. CASE j # 0
    <3>1. j \in 1 .. n
      BY <1>1, <2>2
    <3>2. Told(written)[j] = Effect(Told(written)[j - 1], Heard(written[j]))
      BY <1>1, <3>1, ToldIs
    <3>3. AreSettings(Effect(Told(written)[j - 1], Heard(written[j])))
      BY DEF AreSettings, Effect
    <3> QED BY <3>2, <3>3
  <2> QED BY <2>1, <2>2
<1>6. all \in Seq(T)
  <2>1. f \in [0 .. n -> Seq(T)] /\ n \in 0 .. n
    BY <1>1, <1>2 DEF Joined
  <2> QED BY <2>1
<1> HIDE DEF n, f, s, all, T
<1>7. ASSUME NEW k \in 1 .. n
      PROVE  /\ Len(f[k - 1]) \in Nat /\ Len(s[k]) \in Nat \ {0} /\ s[k] = written[k].args
             /\ Len(f[k]) = Len(f[k - 1]) + Len(s[k]) /\ Len(f[k]) <= Len(all)
             /\ \A p \in 1 .. Len(s[k]) : all[Len(f[k - 1]) + p] = s[k][p]
             /\ IsName(s[k][1])
  <2>1. k \in 1 .. Len(s) /\ all = f[Len(s)]
    BY <1>2 DEF all
  <2>2. PartAt(f, s, all, k)
    BY <1>2, <2>1, JoinedHolds
  <2>3. written[k] \in Lines
    BY <1>1
  <2>4. Len(written[k].args) \in Nat \ {0} /\ IsName(written[k].args[1])
    BY <2>3, LineGiven
  <2> QED BY <1>5, <2>2, <2>4 DEF PartAt
<1>8. Len(all) \in Nat /\ Len(argv) = 1 + Len(all) /\ \A p \in 1 .. Len(all) : argv[1 + p] = all[p]
  <2>1. PICK c : c = Config!Text("JARVIS")
    OBVIOUS
  <2>2. <<c>> \in Seq(T \cup {c}) /\ all \in Seq(T \cup {c}) /\ Len(<<c>>) = 1
    BY <1>6, SeqMonotonic
  <2>3. PICK a : a = <<c>>
    OBVIOUS
  <2>4. /\ Len(a \o all) = Len(a) + Len(all)
        /\ \A i \in 1 .. Len(a) + Len(all) : (a \o all)[i] = IF i <= Len(a) THEN a[i] ELSE all[i - Len(a)]
    BY <2>2, <2>3, ConcatProperties
  <2>5. Len(a) = 1 /\ Len(all) \in Nat
    BY <2>2, <2>3, LenProperties
  <2>6. argv = a \o all
    BY <1>4, <2>1, <2>3
  <2>7. ASSUME NEW p \in 1 .. Len(all) PROVE argv[1 + p] = all[p]
    <3>1. 1 + p \in 1 .. Len(a) + Len(all) /\ ~(1 + p <= Len(a)) /\ (1 + p) - Len(a) = p
      BY <2>5
    <3> QED BY <2>4, <2>6, <3>1
  <2> QED BY <2>4, <2>5, <2>6, <2>7
<1>9. PICK k : k = j + 1 /\ k \in 1 .. n /\ k - 1 = j
  BY <1>1
<1>10. PICK l : l = written[k]
  OBVIOUS
<1>11. PICK a, m : a = Len(f[k - 1]) /\ m = Len(s[k])
  OBVIOUS
<1>12. /\ a \in Nat /\ m \in Nat \ {0} /\ at = 2 + a /\ Len(l.args) = m /\ s[k] = l.args
       /\ Len(f[k]) = a + m /\ a + m <= Len(all)
       /\ \A p \in 1 .. m : all[a + p] = l.args[p]
  <2>1. /\ Len(f[k - 1]) \in Nat /\ Len(s[k]) \in Nat \ {0} /\ s[k] = written[k].args
        /\ Len(f[k]) = Len(f[k - 1]) + Len(s[k]) /\ Len(f[k]) <= Len(all)
        /\ \A p \in 1 .. Len(s[k]) : all[Len(f[k - 1]) + p] = s[k][p]
    BY <1>7, <1>9
  <2>2. at = 2 + Len(f[k - 1])
    BY <1>3, <1>9
  <2>3. s[k] = l.args
    BY <1>10, <2>1
  <2>4. \A p \in 1 .. m : all[a + p] = l.args[p]
    BY <1>11, <2>1, <2>3
  <2>5. a \in Nat /\ m \in Nat \ {0} /\ at = 2 + a /\ Len(f[k]) = a + m /\ a + m <= Len(all) /\ Len(l.args) = m
    BY <1>11, <2>1, <2>2, <2>3
  <2> QED BY <2>3, <2>4, <2>5
<1>13. ASSUME NEW i \in 1 .. m PROVE argv[at + i - 1] = l.args[i]
  <2>1. a + i \in 1 .. Len(all) /\ at + i - 1 = 1 + (a + i)
    BY <1>8, <1>12
  <2> QED BY <1>8, <1>12, <2>1
<1>14. ASSUME k # n PROVE a + m + 1 <= Len(all) /\ IsName(all[a + m + 1])
  <2>1. k + 1 \in 1 .. n /\ (k + 1) - 1 = k
    BY <1>1, <1>9, <1>14
  <2>2. /\ Len(s[k + 1]) \in Nat \ {0} /\ Len(f[k + 1]) = Len(f[k]) + Len(s[k + 1])
        /\ Len(f[k + 1]) <= Len(all) /\ IsName(s[k + 1][1])
        /\ \A p \in 1 .. Len(s[k + 1]) : all[Len(f[k]) + p] = s[k + 1][p]
    <3>1. /\ Len(s[k + 1]) \in Nat \ {0} /\ Len(f[k + 1]) = Len(f[(k + 1) - 1]) + Len(s[k + 1])
          /\ Len(f[k + 1]) <= Len(all) /\ IsName(s[k + 1][1])
          /\ \A p \in 1 .. Len(s[k + 1]) : all[Len(f[(k + 1) - 1]) + p] = s[k + 1][p]
      BY <1>7, <2>1
    <3> QED BY <2>1, <3>1
  <2>3. 1 \in 1 .. Len(s[k + 1])
    BY <2>2
  <2>4. all[Len(f[k]) + 1] = s[k + 1][1]
    BY <2>2, <2>3
  <2>5. PICK c, d : c = Len(s[k + 1]) /\ d = Len(f[k + 1])
    OBVIOUS
  <2>6. c \in Nat \ {0} /\ d = (a + m) + c /\ d <= Len(all)
    BY <1>12, <2>2, <2>5
  <2>7. a + m + 1 <= Len(all)
    BY <1>8, <1>12, <2>6
  <2>8. IsName(all[a + m + 1])
    BY <1>12, <2>2, <2>4
  <2> QED BY <2>7, <2>8
<1>15. k = n => Len(all) = a + m
  BY <1>12 DEF all
<1>16. at + m <= Len(argv) => IsName(argv[at + m])
  <2>1. SUFFICES ASSUME at + m <= Len(argv) PROVE IsName(argv[at + m])
    OBVIOUS
  <2>2. k # n
    BY <1>8, <1>12, <1>15, <2>1
  <2>3. a + m + 1 <= Len(all) /\ IsName(all[a + m + 1])
    BY <1>14, <2>2
  <2>4. a + m + 1 \in 1 .. Len(all) /\ at + m = 1 + (a + m + 1)
    BY <1>8, <1>12, <2>3
  <2> QED BY <1>8, <2>3, <2>4
<1>17. Reading(l)
  <2>1. at \in Nat \ {0} /\ Len(argv) \in Nat /\ at + m - 1 <= Len(argv)
    BY <1>8, <1>12
  <2>2. outcome = "parsing" /\ AreSettings(settings)
    BY <1>3, <1>a
  <2> QED BY <1>12, <1>13, <1>16, <2>1, <2>2 DEF Reading
<1>18. at + m = 2 + Len(f[k]) /\ (at + m - 1 >= Len(argv) <=> k = n)
  <2>0. PICK c, d : c = Len(f[k]) /\ d = Len(all)
    OBVIOUS
  <2>1. c = Len(f[k]) /\ d = Len(all) /\ d \in Nat /\ Len(argv) = d + 1
    BY <1>8, <2>0
  <2>2. at = 2 + a /\ c = a + m /\ a \in Nat /\ m \in Nat
    BY <1>12, <2>1
  <2>3. (k = n => d = a + m) /\ (k # n => a + m + 1 <= d)
    BY <1>14, <1>15, <2>1
  <2>4. at + m = 2 + c /\ (at + m - 1 >= d + 1 <=> k = n)
    BY <2>1, <2>2, <2>3
  <2> QED BY <2>1, <2>4
<1>19. l \in Lines
  BY <1>1, <1>9, <1>10
<1> QED BY <1>3, <1>9, <1>10, <1>11, <1>12, <1>17, <1>18, <1>19 DEF n, f

\* Reading one more keeps the invariant.
LEMMA OptionKeeps ==
  ASSUME OptionsInv, outcome = "parsing", Config!Next
  PROVE  OptionsInv'
<1> DEFINE n == Len(written)
<1>1. PICK k \in 1 .. n :
        /\ Reading(written[k]) /\ written[k] \in Lines
        /\ settings = Told(written)[k - 1] /\ at = 2 + Len(Upto(written)[k - 1])
        /\ \A i \in 1 .. k - 1 : Heard(written[i]).ok
        /\ at + Len(written[k].args) = 2 + Len(Upto(written)[k])
        /\ at + Len(written[k].args) - 1 >= Len(argv) <=> k = n
  BY AtOption
<1>2. Chosen /\ n \in Nat \ {0} /\ argv = <<Config!Text("JARVIS")>> \o Upto(written)[n]
  BY DEF OptionsInv, Chosen, Some, AtNext
<1> DEFINE h == Heard(written[k])
<1>3. Passed(h)
  <2>1. Config!Says(written[k])
    BY <1>1, LineGiven
  <2> QED BY <1>1, <2>1, LinePasses
<1>4. written' = written /\ argv' = argv
  BY <1>3 DEF Passed
<1>5. Chosen'
  BY <1>2, <1>4 DEF Chosen, Some
<1> HIDE DEF n
<1>a. Len(h.args) = Len(written[k].args)
  BY HeardArgs
<1>6. CASE ~h.ok /\ outcome' \in {"exit", "undefined"}
  <2>1. \E j \in 1 .. Len(written)' : ~Heard(written'[j]).ok
    BY <1>4, <1>6 DEF n
  <2> QED BY <1>5, <1>6, <2>1 DEF OptionsInv
<1>7. CASE /\ h.ok /\ settings' = Effect(settings, h) /\ at' = at + Len(written[k].args)
           /\ outcome' = IF at + Len(written[k].args) - 1 >= Len(argv) THEN "done" ELSE "parsing"
  <2>1. settings' = Told(written)[k] /\ at' = 2 + Len(Upto(written)[k])
    <3>1. Told(written)[k] = Effect(Told(written)[k - 1], h)
      BY <1>2, ToldIs DEF n
    <3> QED BY <1>1, <1>7, <3>1
  <2>a. \A i \in 1 .. k : Heard(written[i]).ok
    <3>1. \A i \in 1 .. k : i = k \/ i \in 1 .. k - 1
      BY <1>2 DEF n
    <3> QED BY <1>1, <1>7, <3>1
  <2>2. CASE k = n
    <3>1. outcome' = "done"
      BY <1>1, <1>7, <2>2
    <3>2. settings' = Told(written')[Len(written)']
      BY <1>4, <2>1, <2>2 DEF n
    <3>3. \A i \in 1 .. Len(written)' : Heard(written'[i]).ok
      BY <1>4, <2>a, <2>2 DEF n
    <3> QED BY <1>5, <3>1, <3>2, <3>3 DEF OptionsInv
  <2>3. CASE k # n
    <3>1. outcome' = "parsing"
      BY <1>1, <1>7, <2>3
    <3>2. k \in 0 .. n - 1
      BY <1>2, <2>3
    <3>3. k \in 0 .. Len(written)' - 1
      BY <1>4, <3>2 DEF n
    <3>4. /\ at' = 2 + Len(Upto(written')[k]) /\ settings' = Told(written')[k]
          /\ argv' = <<Config!Text("JARVIS")>> \o Upto(written')[Len(written)']
          /\ \A i \in 1 .. k : Heard(written'[i]).ok
      BY <1>2, <1>4, <2>1, <2>a DEF n
    <3>5. AtNext'
      BY <3>3, <3>4 DEF AtNext
    <3> QED BY <1>5, <3>1, <3>5 DEF OptionsInv
  <2> QED BY <2>2, <2>3
<1> QED BY <1>3, <1>a, <1>6, <1>7 DEF Passed

\* The server is configured as it was written, whatever its options are: each
\* sets what it means by its own words, from the command line or from a file,
\* and one that is wrong by itself, no other, ends the program; but -r turns
\* the picture otherwise than it says, and an unknown one is left out.
THEOREM OptionsAlways == Config!Spec => []OptionsAsWritten
<1>1. Config!Init => OptionsInv
  BY OptionsBegin
<1>2. OptionsInv /\ [Config!Next]_(Config!vars) => OptionsInv'
  <2>1. ASSUME OptionsInv, Config!Next PROVE OptionsInv'
    BY <2>1, NextIs, ArgumentsKeep, OptionKeeps
  <2>2. ASSUME OptionsInv, UNCHANGED Config!vars PROVE OptionsInv'
    <3>1. UNCHANGED <<written, source, argv, at, settings, outcome>>
      BY <2>2 DEF Config!vars
    <3>2. Chosen'
      BY <2>2, <3>1 DEF OptionsInv, Chosen, Some
    <3>3. AtNext => AtNext'
      BY <3>1 DEF AtNext
    <3> QED BY <2>2, <3>1, <3>2, <3>3 DEF OptionsInv
  <2> QED BY <2>1, <2>2
<1>3. OptionsInv => OptionsAsWritten
  BY OptionsInvImplies
<1> QED BY <1>1, <1>2, <1>3, PTL DEF Config!Spec

-----------------------------------------------------------------------------
\* Steps that failed and cleaned up.
Broken == failed \ {"httpd"} # {}

Off == {"off", "ended", "crashed"}
Starting == {"dnssd", "raop", "raop_start", "raop_set_dnssd", "register_raop",
             "register_airplay", "reconnect"}

\* A program that does not run has nothing.
NothingWhenOff ==
  pc \in Off => /\ frames = 0 /\ cleaned = FALSE /\ failed = {}
                /\ reset_loop = FALSE /\ relaunch_video = FALSE

\* The flags of the main loop are set by resets.
FlagsAreResets ==
  /\ resets \in Nat
  /\ reset_loop \/ relaunch_video => resets > 0

\* Without a reset there is one call of reconnect.
OneFrame ==
  resets = 0 =>
    /\ pc \in Starting => frames = 0
    /\ pc \in {"loop", "quit"} => frames = 1
    /\ pc = "return" => frames = 0 \/ (frames = 1 /\ (cleaned => Broken))

\* Only a failed step cleans up before the end.
CleanedAtTheEnd == cleaned => Broken \/ pc = "return"

\* dnssd is there until the services are announced.
DnssdIsThere ==
  pc \in {"raop", "raop_start", "raop_set_dnssd", "register_raop"} =>
    dnssd # None \/ Broken

\* Whoever listens is a server.
ServerListens == listening # 0 => raop # None

\* The inductive invariant.
InOrder ==
  /\ NothingWhenOff /\ FlagsAreResets /\ OneFrame /\ CleanedAtTheEnd /\ DnssdIsThere
  /\ ServerListens

-----------------------------------------------------------------------------
USE DEF Off, Starting, Broken, Nothing

LEMMA InOrderInit == Init => InOrder
  BY DEF Init, InOrder, NothingWhenOff, FlagsAreResets, OneFrame, CleanedAtTheEnd, DnssdIsThere, ServerListens

\* A process that is gone leaves nothing.
LEMMA GoneKeeps ==
  ASSUME InOrder, NEW how \in Off, Gone(how)
  PROVE  InOrder'
  BY DEF Gone, counters, InOrder, NothingWhenOff, FlagsAreResets, OneFrame,
         CleanedAtTheEnd, DnssdIsThere, ServerListens

\* A failed step that cleans up and goes on.
LEMMA FailureKeeps ==
  ASSUME InOrder, pc \in Starting, NEW step \in {"dnssd", "raop", "airplay"},
         NEW then \in Starting, cleanup(then), failed' = failed \cup {step},
         UNCHANGED <<counters, frames>>, ServerListens'
  PROVE  InOrder'
<1>1. Broken'
  OBVIOUS
<1> QED
  BY <1>1 DEF cleanup, counters, InOrder, NothingWhenOff, FlagsAreResets, OneFrame,
              CleanedAtTheEnd, DnssdIsThere, ServerListens

\* The steps of the start that succeed.
LEMMA StartKeeps ==
  ASSUME InOrder,
         \/ start_dnssd \/ raop_init2 \/ raop_start \/ raop_set_dnssd
         \/ Register("raop", "register_raop", "register_airplay")
         \/ Register("airplay", "register_airplay", "reconnect")
  PROVE  InOrder'
<1> USE DEF Step, known, counters, InOrder, NothingWhenOff, FlagsAreResets, OneFrame,
            CleanedAtTheEnd, DnssdIsThere, ServerListens
<1>1. CASE start_dnssd
  <2>1. dnssd' # None
    BY <1>1 DEF start_dnssd, None
  <2> QED BY <2>1, <1>1 DEF start_dnssd
<1>2. CASE raop_init2
  BY <1>2 DEF raop_init2, None
<1>3. CASE raop_start
  <2>1. failed' \ {"httpd"} = failed \ {"httpd"}
    BY <1>3 DEF raop_start, HttpdStart
  <2>2. ServerListens'
    <3>1. (raop' = raop /\ listening' = listening) \/ \E r : raop' = <<r>>
      BY <1>3 DEF raop_start, HttpdStart
    <3>2. CASE raop' = raop /\ listening' = listening
      BY <3>2
    <3>3. CASE \E r : raop' = <<r>>
      <4>1. PICK r : raop' = <<r>>
        BY <3>3
      <4>2. <<r>> # None
        BY DEF None
      <4> QED BY <4>1, <4>2
    <3> QED BY <3>1, <3>2, <3>3
  <2>3. /\ pc = "raop_start" /\ pc' = "raop_set_dnssd"
        /\ UNCHANGED <<frames, resets, dnssd, cleaned, reset_loop, relaunch_video>>
    BY <1>3 DEF raop_start
  <2> QED BY <2>1, <2>2, <2>3
<1>4. CASE raop_set_dnssd
  <2>1. dnssd' # None
    BY <1>4 DEF raop_set_dnssd, None
  <2> QED BY <2>1, <1>4 DEF raop_set_dnssd, None
<1>5. CASE Register("raop", "register_raop", "register_airplay")
  BY <1>5 DEF Register
<1>6. CASE Register("airplay", "register_airplay", "reconnect")
  BY <1>6 DEF Register
<1> QED BY <1>1, <1>2, <1>3, <1>4, <1>5, <1>6

\* The steps of the start that fail.
LEMMA FailsKeep ==
  ASSUME InOrder,
         \/ start_dnssdFails \/ raop_initFails \/ raop_set_dnssdFails
         \/ RegisterFails("raop", "register_raop") \/ RegisterFails("airplay", "register_airplay")
         \/ RegisterNull
  PROVE  InOrder'
<1>1. CASE start_dnssdFails
  BY <1>1, FailureKeeps, GoneKeeps DEF start_dnssdFails, CleanupAgain, InOrder, ServerListens
<1>2. CASE raop_initFails
  BY <1>2, FailureKeeps, GoneKeeps DEF raop_initFails, CleanupAgain, InOrder, ServerListens
<1>3. CASE raop_set_dnssdFails
  BY <1>3, GoneKeeps DEF raop_set_dnssdFails, CleanupAgain
<1>4. CASE RegisterFails("raop", "register_raop")
  BY <1>4, FailureKeeps, GoneKeeps DEF RegisterFails, CleanupAgain, stop_raop_server, ServerListens
<1>5. CASE RegisterFails("airplay", "register_airplay")
  BY <1>5, FailureKeeps, GoneKeeps DEF RegisterFails, CleanupAgain, stop_raop_server, ServerListens
<1>6. CASE RegisterNull
  BY <1>6, GoneKeeps DEF RegisterNull
<1> QED BY <1>1, <1>2, <1>3, <1>4, <1>5, <1>6

\* The main loop, its resets and its end.
LEMMA LoopKeeps ==
  ASSUME InOrder,
         main_loop \/ Quit \/ reconnectServer \/ restart \/ Stopping \/ Return
  PROVE  InOrder'
<1> USE DEF Step, known, counters, InOrder, NothingWhenOff, FlagsAreResets, OneFrame,
            CleanedAtTheEnd, DnssdIsThere, ServerListens
<1>1. CASE main_loop
  BY <1>1 DEF main_loop
<1>2. CASE Quit
  BY <1>2 DEF Quit, memory
<1>3. CASE reconnectServer
  <2>1. failed' \ {"httpd"} = failed \ {"httpd"}
    BY <1>3 DEF reconnectServer, HttpdStart
  <2> QED BY <2>1, <1>3 DEF reconnectServer, HttpdStart, None
<1>4. CASE restart
  <2>1. failed' \ {"httpd"} = failed \ {"httpd"}
    BY <1>4 DEF restart
  <2> QED BY <2>1, <1>4 DEF restart, stop_raop_server
<1>5. CASE Stopping
  BY <1>5 DEF Stopping, stop_raop_server
<1>6. CASE Return
  <2>1. CASE Gone("ended") \/ CleanupAgain
    BY <2>1, GoneKeeps DEF CleanupAgain
  <2>2. CASE frames # 0 /\ pc = "return" /\ cleanup("return") /\ frames' = frames - 1
             /\ UNCHANGED <<counters, failed, raop, listening>>
    BY <2>2 DEF cleanup
  <2> QED BY <1>6, <2>1, <2>2 DEF Return
<1> QED BY <1>1, <1>2, <1>3, <1>4, <1>5, <1>6

\* What the other threads do.
LEMMA OthersKeep ==
  ASSUME InOrder,
         \/ \E stops \in BOOLEAN : Reset(stops)
         \/ video_reset \/ InfoNull \/ Kill
         \/ \E c \in Clients : register_client(c)
         \/ AppendClient \/ Answer
  PROVE  InOrder'
<1> USE DEF known, counters, Serves, Up
<1>1. CASE \E stops \in BOOLEAN : Reset(stops)
  <2>1. resets' \in Nat /\ resets' # 0 /\ resets' > 0
    BY <1>1 DEF Reset, InOrder, FlagsAreResets
  <2>2. pc \notin Off /\ UNCHANGED <<pc, frames, cleaned, failed, dnssd, raop>>
        /\ ServerListens'
    BY <1>1 DEF Reset, InOrder, ServerListens
  <2> QED BY <2>1, <2>2 DEF InOrder, NothingWhenOff, FlagsAreResets, OneFrame, CleanedAtTheEnd,
                            DnssdIsThere, ServerListens
<1>2. CASE video_reset
  <2>1. resets' \in Nat /\ resets' # 0 /\ resets' > 0
    BY <1>2 DEF video_reset, InOrder, FlagsAreResets
  <2>2. pc \notin Off /\ UNCHANGED <<pc, frames, cleaned, failed, dnssd, raop>>
        /\ ServerListens'
    BY <1>2 DEF video_reset, InOrder, ServerListens
  <2> QED BY <2>1, <2>2 DEF InOrder, NothingWhenOff, FlagsAreResets, OneFrame, CleanedAtTheEnd,
                            DnssdIsThere, ServerListens
<1>3. CASE InfoNull \/ Kill
  BY <1>3, GoneKeeps DEF InfoNull, Kill
<1>4. CASE (\E c \in Clients : register_client(c)) \/ AppendClient \/ Answer
  <2>1. UNCHANGED <<pc, frames, cleaned, failed, reset_loop, relaunch_video, resets, dnssd,
                    listening, raop>>
    BY <1>4 DEF register_client, AppendClient, Answer
  <2> QED BY <2>1 DEF InOrder, NothingWhenOff, FlagsAreResets, OneFrame, CleanedAtTheEnd,
                      DnssdIsThere, ServerListens
<1> QED BY <1>1, <1>2, <1>3, <1>4

LEMMA InOrderNext == InOrder /\ [Next]_vars => InOrder'
<1> SUFFICES ASSUME InOrder, [Next]_vars PROVE InOrder'
  OBVIOUS
<1> USE DEF InOrder, NothingWhenOff, FlagsAreResets, OneFrame, CleanedAtTheEnd, DnssdIsThere, ServerListens
<1>1. CASE UNCHANGED vars
  BY <1>1 DEF vars, memory, counters
<1>2. CASE Launch
  BY <1>2 DEF Launch, known
<1> HIDE DEF InOrder, NothingWhenOff, FlagsAreResets, OneFrame, CleanedAtTheEnd, DnssdIsThere, ServerListens
<1>3. CASE Next /\ ~Launch
  BY <1>3, StartKeeps, FailsKeep, LoopKeeps, OthersKeep DEF Next, register_dnssd
<1> QED BY <1>1, <1>2, <1>3

-----------------------------------------------------------------------------
\* A step that ends the program in a crash is one of those EndsInOrder names.
LEMMA CrashIsNamed ==
  ASSUME InOrder, [Next]_vars, pc' = "crashed", pc # "crashed"
  PROVE  \/ failed \ {"httpd"} # {}
         \/ pc = "return" /\ resets > 0
         \/ raop # None /\ ~raop[1].dnssd
<1> USE DEF Step
<1>1. CASE start_dnssdFails \/ raop_initFails \/ raop_set_dnssdFails \/ register_dnssd
  <2>1. pc # "return" /\ (cleaned => Broken)
    BY <1>1 DEF start_dnssdFails, raop_initFails, raop_set_dnssdFails, register_dnssd, Register,
                RegisterFails, RegisterNull, InOrder, CleanedAtTheEnd
  <2>2. CASE CleanupAgain
    BY <2>1, <2>2 DEF CleanupAgain
  <2>3. CASE RegisterNull
    BY <2>3 DEF RegisterNull, InOrder, DnssdIsThere
  <2> QED BY <1>1, <2>2, <2>3 DEF start_dnssdFails, raop_initFails, raop_set_dnssdFails,
            register_dnssd, Register, RegisterFails, cleanup
<1>2. CASE Return
  <2>1. pc = "return" /\ cleaned /\ frames # 0
    BY <1>2 DEF Return, CleanupAgain, cleanup, Gone
  <2> QED BY <2>1 DEF InOrder, FlagsAreResets, OneFrame
<1>3. CASE InfoNull
  BY <1>3 DEF InfoNull, Serves, InOrder, ServerListens
<1>4. CASE Launch \/ start_dnssd \/ raop_init2 \/ raop_start \/ raop_set_dnssd
           \/ main_loop \/ Quit \/ reconnectServer \/ restart \/ Stopping
  <2>1. CASE Launch \/ start_dnssd \/ raop_init2
    BY <2>1 DEF Launch, start_dnssd, raop_init2
  <2>2. CASE raop_start \/ raop_set_dnssd
    BY <2>2 DEF raop_start, raop_set_dnssd
  <2>3. CASE main_loop \/ Quit \/ reconnectServer
    BY <2>3 DEF main_loop, Quit, reconnectServer
  <2>4. CASE restart \/ Stopping
    BY <2>4 DEF restart, Stopping
  <2> QED BY <1>4, <2>1, <2>2, <2>3, <2>4
<1>5. CASE \/ \E stops \in BOOLEAN : Reset(stops)
           \/ video_reset \/ Kill
           \/ \E c \in Clients : register_client(c)
           \/ AppendClient \/ Answer \/ UNCHANGED vars
  BY <1>5 DEF Reset, video_reset, Kill, Gone, register_client, AppendClient, Answer, vars
<1> QED BY <1>1, <1>2, <1>3, <1>4, <1>5 DEF Next

\* The program dies on the way only after a step of its start failed, at its
\* end after a reset, or by a request before the server knows dnssd
\* (AirPlayServer.cpp:2719-2813).
THEOREM EndsInOrderAlways == Spec => EndsInOrder
<1>1. InOrder /\ [Next]_vars =>
        [pc' = "crashed" /\ pc # "crashed" =>
           \/ failed \ {"httpd"} # {}
           \/ pc = "return" /\ resets > 0
           \/ raop # None /\ ~raop[1].dnssd]_vars
  BY CrashIsNamed
<1> QED BY <1>1, InOrderInit, InOrderNext, PTL DEF Spec, EndsInOrder

-----------------------------------------------------------------------------
\* What is announced is served.

HIDE DEF Nothing

\* What points to a server, and what points to a dnssd.
IsServer(r, use_pin) ==
  r = <<[pk |-> r[1].pk, port |-> r[1].port, use_pin |-> use_pin, dnssd |-> r[1].dnssd]>>
IsDnssd(d, pin) ==
  /\ d = <<[features |-> d[1].features, hw_addr |-> d[1].hw_addr,
            require_pw |-> d[1].require_pw, pk |-> d[1].pk, named |-> d[1].named]>>
  /\ 27 \in d[1].features <=> pin

PerService == \E T : advertised \in [Services -> T]

\* The server and dnssd are that, or nothing.
Shapes ==
  /\ raop # None => IsServer(raop, options.pin)
  /\ dnssd # None => IsDnssd(dnssd, options.pin)
  /\ PerService

\* The server knows dnssd.
Known == raop # None /\ raop[1].dnssd

\* A server that listens does so at its port.  Until its first port is open
\* nobody can ask for a reset.
Listens ==
  /\ listening # 0 => raop # None /\ listening = raop[1].port
  /\ pc \in {"dnssd", "raop", "raop_start"} => listening = 0
  /\ \/ pc \in Off \cup {"dnssd", "raop", "raop_start"}
     \/ raop # None /\ raop[1].port = 0 => ~reset_loop /\ ~relaunch_video
Unasked ==
  /\ pc \in Off \cup {"dnssd", "raop", "raop_start"} => ~reset_loop /\ ~relaunch_video
  /\ relaunch_video => reset_loop \/ pc = "reconnect"
  /\ pc \in {"loop", "quit"} /\ relaunch_video => raop # None

\* The server announced is open, could not be opened, or is about to be reset.
Open ==
  raop # None /\ pc # "raop_start" =>
    listening = raop[1].port \/ "httpd" \in failed \/ reset_loop

\* dnssd has what a service announces.
Ready ==
  /\ raop # None /\ dnssd # None
  /\ Known
  /\ dnssd[1].pk = raop[1].pk /\ raop_port = raop[1].port

\* What is announced by a service, if it is.
Announced(s) == advertised[s] = <<Record(raop_port)>>

\* How far the announcements are.
Progress ==
  /\ pc \in Off \cup Starting \cup {"loop", "quit", "return"}
  /\ Known => dnssd # None
  /\ pc \in Off \cup {"dnssd", "return"} => raop = None /\ dnssd = None
  /\ pc = "raop" => raop = None
  /\ pc \in {"raop_start", "raop_set_dnssd"} => raop # None /\ ~Known
  /\ pc = "raop_set_dnssd" => raop_port = raop[1].port
  /\ pc = "register_raop" => dnssd = None \/ Ready
  /\ pc \in Off \cup {"dnssd", "raop", "raop_start", "raop_set_dnssd", "register_raop", "return"} =>
       advertised = Nothing
  /\ pc = "register_airplay" =>
       Ready /\ Announced("raop") /\ advertised["airplay"] = None
  /\ pc \in {"reconnect", "loop", "quit"} =>
       \/ Ready /\ \A s \in Services : Announced(s)
       \/ raop = None /\ failed # {} /\ advertised = Nothing

Serving == Shapes /\ Listens /\ Unasked /\ Open /\ Progress

LEMMA NotNothing == \A x : <<x>> # None
  BY DEF None

\* A new server,
LEMMA ServerMade ==
  \A r, key, port, use_pin, d :
    r = <<[pk |-> key, port |-> port, use_pin |-> use_pin, dnssd |-> d]>> =>
      r # None /\ IsServer(r, use_pin) /\ r[1].pk = key /\ r[1].port = port /\ r[1].dnssd = d
  BY NotNothing DEF IsServer

\* and after an assignment to one of its fields, and of those of dnssd.
LEMMA PortSet ==
  ASSUME NEW port, IsServer(raop, options.pin), raop' = <<[raop[1] EXCEPT !.port = port]>>
  PROVE  /\ raop' # None /\ IsServer(raop', options.pin)
         /\ raop'[1].pk = raop[1].pk /\ raop'[1].port = port /\ raop'[1].dnssd = raop[1].dnssd
  BY NotNothing DEF IsServer

LEMMA KnownSet ==
  ASSUME NEW d, IsServer(raop, options.pin), raop' = <<[raop[1] EXCEPT !.dnssd = d]>>
  PROVE  /\ raop' # None /\ IsServer(raop', options.pin)
         /\ raop'[1].pk = raop[1].pk /\ raop'[1].port = raop[1].port /\ raop'[1].dnssd = d
  BY NotNothing DEF IsServer

LEMMA DnssdSet ==
  ASSUME NEW key, IsDnssd(dnssd, options.pin), dnssd' = <<[dnssd[1] EXCEPT !.pk = key]>>
  PROVE  dnssd' # None /\ IsDnssd(dnssd', options.pin) /\ dnssd'[1].pk = key
  BY NotNothing DEF IsDnssd

LEMMA DnssdMade ==
  \A d, named :
    d = <<[features |-> Features, hw_addr |-> server_hw_addr,
           require_pw |-> options.pin, pk |-> None, named |-> named]>> =>
      d # None /\ IsDnssd(d, options.pin)
<1> SUFFICES ASSUME NEW d, NEW named,
                    d = <<[features |-> Features, hw_addr |-> server_hw_addr,
                           require_pw |-> options.pin, pk |-> None, named |-> named]>>
             PROVE  d # None /\ IsDnssd(d, options.pin)
  OBVIOUS
<1>1. d # None /\ d = <<[features |-> d[1].features, hw_addr |-> d[1].hw_addr,
            require_pw |-> d[1].require_pw, pk |-> d[1].pk, named |-> d[1].named]>>
      /\ d[1].features = Features
  BY NotNothing
<1>2. 27 \in Features <=> options.pin
  BY DEF Features
<1> QED BY <1>1, <1>2 DEF IsDnssd

\* One more announcement.
LEMMA OneMore ==
  ASSUME PerService, NEW s \in Services, NEW record,
         advertised' = [advertised EXCEPT ![s] = record]
  PROVE  /\ PerService'
         /\ advertised'[s] = record
         /\ \A other \in Services : other # s => advertised'[other] = advertised[other]
<1>1. PICK T : advertised \in [Services -> T]
  BY DEF PerService
<1>2. advertised' \in [Services -> T \cup {record}]
  BY <1>1
<1> QED BY <1>1, <1>2 DEF PerService

\* None, and those there were.
LEMMA NoneIsThere ==
  /\ advertised = Nothing => PerService
  /\ advertised' = Nothing => PerService'
  /\ raop = None => ~Known
  /\ raop' = None => ~Known'
<1>1. Nothing \in [Services -> {None}]
  BY DEF Nothing
<1> QED BY <1>1 DEF PerService, Known

LEMMA SameAreThere ==
  /\ PerService /\ UNCHANGED advertised => PerService'
  /\ UNCHANGED raop => (Known' <=> Known)
  BY DEF PerService, Known

LEMMA NothingOf == \A s \in Services : Nothing[s] = None
  BY DEF Nothing

LEMMA ServingInit == Init => Serving
  BY NoneIsThere DEF Init, Serving, Shapes, Listens, Unasked, Open, Progress, Ready, Announced

LEMMA GoneServes ==
  ASSUME NEW how \in Off, Gone(how)
  PROVE  Serving'
  BY NoneIsThere DEF Gone, Serving, Shapes, Listens, Unasked, Open, Progress, Ready, Announced

\* A step that leaves the server and its announcements alone.
LEMMA StillThere ==
  ASSUME Shapes, UNCHANGED <<options, dnssd, raop, raop_port, advertised>>
  PROVE  /\ Shapes'
         /\ Ready => Ready'
         /\ \A s \in Services : Announced(s) => Announced(s)'
<1>1. Shapes'
  BY SameAreThere DEF Shapes
<1>2. Ready => Ready'
  BY DEF Ready, Known
<1>3. Record(raop_port)' = Record(raop_port)
  BY DEF Record
<1> QED BY <1>1, <1>2, <1>3 DEF Announced

LEMMA StillServes ==
  ASSUME Serving,
         UNCHANGED <<options, pc, dnssd, raop, raop_port, listening, advertised, failed,
                     reset_loop, relaunch_video>>
  PROVE  Serving'
<1>1. Shapes' /\ (Ready => Ready') /\ \A s \in Services : Announced(s) => Announced(s)'
  BY StillThere DEF Serving
<1> QED BY <1>1, SameAreThere DEF Serving, Listens, Unasked, Open, Progress, Services

\* A start of the httpd tells the port.
LEMMA HttpdServes ==
  ASSUME Shapes, raop # None, listening = 0, HttpdStart
  PROVE  /\ raop' # None
         /\ IsServer(raop', options.pin)
         /\ raop'[1].pk = raop[1].pk /\ (Known' <=> Known)
         /\ raop[1].port # 0 => raop'[1].port = raop[1].port
         /\ listening' # 0 => listening' = raop'[1].port
         /\ listening' = raop'[1].port \/ "httpd" \in failed'
         /\ failed # {} /\ failed' = {} => "httpd" \in failed
<1>1. CASE /\ listening' = IF raop[1].port = 0 THEN fresh ELSE raop[1].port
           /\ raop' = <<[raop[1] EXCEPT !.port = listening']>>
           /\ failed' = failed \ {"httpd"}
  <2>1. IsServer(raop, options.pin)
    BY DEF Shapes
  <2>2. raop' # None /\ IsServer(raop', options.pin) /\ raop'[1].pk = raop[1].pk
        /\ raop'[1].port = listening' /\ raop'[1].dnssd = raop[1].dnssd
    BY <1>1, <2>1, PortSet, Zenon
  <2>3. Known' <=> Known
    BY <2>2 DEF Known
  <2> QED BY <1>1, <2>2, <2>3
<1>2. CASE failed' = failed \cup {"httpd"} /\ UNCHANGED <<raop, listening>>
  BY <1>2 DEF Shapes, Known
<1> QED BY <1>1, <1>2 DEF HttpdStart

\* The steps of the start up to the announcements.
LEMMA StartServes ==
  ASSUME Serving,
         start_dnssd \/ start_dnssdFails \/ raop_init2 \/ raop_initFails
           \/ raop_start \/ raop_set_dnssd \/ raop_set_dnssdFails
  PROVE  Serving'
<1> USE DEF Step, known, counters, Serving, Listens, Unasked, Open, Progress
<1>1. CASE start_dnssd
  <2> DEFINE yes == TRUE
  <2>1. dnssd' = <<[features |-> Features, hw_addr |-> server_hw_addr,
                    require_pw |-> options.pin, pk |-> None, named |-> yes]>>
    BY <1>1 DEF start_dnssd
  <2> HIDE DEF yes
  <2>2. dnssd' # None /\ IsDnssd(dnssd', options.pin)
    BY <2>1, DnssdMade
  <2>3. /\ pc = "dnssd" /\ pc' = "raop"
        /\ UNCHANGED <<options, raop, listening, advertised, reset_loop, relaunch_video>>
    BY <1>1 DEF start_dnssd
  <2> QED BY <2>2, <2>3, SameAreThere DEF Shapes
<1>2. CASE start_dnssdFails
  <2>1. CASE CleanupAgain
    BY <2>1, GoneServes DEF CleanupAgain
  <2>2. CASE /\ pc = "dnssd" /\ pc' = "raop"
             /\ UNCHANGED <<options, dnssd, raop, listening, advertised, reset_loop, relaunch_video>>
    BY <2>2, SameAreThere DEF Shapes
  <2> QED BY <1>2, <2>1, <2>2 DEF start_dnssdFails, cleanup
<1>3. CASE raop_init2
  <2> DEFINE no == FALSE
  <2>1. raop' = <<[pk |-> pk, port |-> options.port, use_pin |-> options.pin, dnssd |-> no]>>
    BY <1>3 DEF raop_init2
  <2>0. ~no
    OBVIOUS
  <2> HIDE DEF no
  <2>2. raop' # None /\ IsServer(raop', options.pin) /\ ~Known'
    BY <2>0, <2>1, ServerMade, ZenonT(60) DEF Known
  <2>3. /\ pc = "raop" /\ pc' = "raop_start"
        /\ UNCHANGED <<options, dnssd, listening, advertised, reset_loop, relaunch_video>>
    BY <1>3 DEF raop_init2
  <2>4. Shapes'
    BY <2>2, <2>3, SameAreThere DEF Shapes
  <2> QED BY <2>2, <2>3, <2>4
<1>4. CASE raop_initFails
  <2>1. CASE CleanupAgain
    BY <2>1, GoneServes DEF CleanupAgain
  <2>2. CASE /\ pc = "raop" /\ pc' = "register_raop" /\ stop_dnssd
             /\ UNCHANGED <<options, raop, listening, reset_loop, relaunch_video>>
    BY <2>2, NoneIsThere, SameAreThere DEF Shapes, stop_dnssd
  <2> QED BY <1>4, <2>1, <2>2 DEF raop_initFails, cleanup
<1>5. CASE raop_start
  <2>1. raop # None /\ listening = 0 /\ ~Known /\ Shapes
    BY <1>5 DEF raop_start
  <2>2. HttpdStart
    BY <1>5 DEF raop_start
  <2>3. /\ pc' = "raop_set_dnssd" /\ pc = "raop_start" /\ raop_port' = raop'[1].port
        /\ UNCHANGED <<options, dnssd, advertised, reset_loop, relaunch_video>>
    BY <1>5 DEF raop_start
  <2>4. Shapes' /\ ~Known'
    BY <2>1, <2>2, <2>3, HttpdServes, SameAreThere DEF Shapes
  <2> QED BY <2>1, <2>2, <2>3, <2>4, HttpdServes
<1>6. CASE raop_set_dnssd
  <2>1. /\ pc = "raop_set_dnssd" /\ pc' = "register_raop" /\ dnssd # None
        /\ dnssd' = <<[dnssd[1] EXCEPT !.pk = raop[1].pk]>>
        /\ raop' = <<[raop[1] EXCEPT !.dnssd = TRUE]>>
        /\ UNCHANGED <<options, listening, raop_port, advertised, failed, reset_loop, relaunch_video>>
    BY <1>6 DEF raop_set_dnssd
  <2>2. /\ raop' # None /\ IsServer(raop', options.pin) /\ Known'
        /\ raop'[1].pk = raop[1].pk /\ raop'[1].port = raop[1].port
    <3> DEFINE yes == TRUE
    <3>1. IsServer(raop, options.pin)
      BY <2>1 DEF Shapes
    <3>2. yes /\ raop' = <<[raop[1] EXCEPT !.dnssd = yes]>>
      BY <2>1
    <3> HIDE DEF yes
    <3> QED BY <3>1, <3>2, KnownSet, Zenon DEF Known
  <2>3. dnssd' # None /\ IsDnssd(dnssd', options.pin) /\ dnssd'[1].pk = raop[1].pk
    <3>1. IsDnssd(dnssd, options.pin)
      BY <2>1 DEF Shapes
    <3> QED BY <2>1, <3>1, DnssdSet, Zenon
  <2>4. Shapes'
    BY <2>1, <2>2, <2>3, SameAreThere DEF Shapes
  <2>5. Ready'
    BY <2>1, <2>2, <2>3 DEF Ready
  <2> QED BY <2>1, <2>2, <2>3, <2>4, <2>5
<1>7. CASE raop_set_dnssdFails
  BY <1>7, GoneServes DEF raop_set_dnssdFails, CleanupAgain
<1> QED BY <1>1, <1>2, <1>3, <1>4, <1>5, <1>6, <1>7

\* The announcements.
LEMMA RegisterServes ==
  ASSUME Serving, register_dnssd
  PROVE  Serving'
<1> USE DEF Step, known, counters
<1>1. CASE Register("raop", "register_raop", "register_airplay")
  <2>1. /\ pc = "register_raop" /\ pc' = "register_airplay"
        /\ advertised' = [advertised EXCEPT !["raop"] = <<Record(raop_port)>>]
        /\ UNCHANGED <<options, dnssd, raop, raop_port, listening, failed, reset_loop, relaunch_video>>
        /\ dnssd # None
    BY <1>1 DEF Register
  <2>2. Ready /\ advertised = Nothing /\ Shapes
    BY <2>1 DEF Serving, Progress
  <2>3. Shapes' /\ Ready' /\ Record(raop_port)' = Record(raop_port)
    BY <2>1, <2>2, OneMore DEF Shapes, Ready, Known, Services, Record
  <2>4. Announced("raop")' /\ advertised'["airplay"] = None
    BY <2>1, <2>2, <2>3, OneMore, NothingOf DEF Announced, Services, Shapes
  <2> QED BY <2>1, <2>2, <2>3, <2>4, SameAreThere DEF Serving, Listens, Unasked, Open, Progress
<1>2. CASE Register("airplay", "register_airplay", "reconnect")
  <2>1. /\ pc = "register_airplay" /\ pc' = "reconnect"
        /\ advertised' = [advertised EXCEPT !["airplay"] = <<Record(raop_port)>>]
        /\ UNCHANGED <<options, dnssd, raop, raop_port, listening, failed, reset_loop, relaunch_video>>
    BY <1>2 DEF Register
  <2>2. Ready /\ Announced("raop") /\ Shapes
    BY <2>1 DEF Serving, Progress
  <2>3. Shapes' /\ Ready' /\ Record(raop_port)' = Record(raop_port)
    BY <2>1, <2>2, OneMore DEF Shapes, Ready, Known, Services, Record
  <2>4. \A s \in Services : Announced(s)'
    BY <2>1, <2>2, <2>3, OneMore, NothingOf DEF Announced, Services, Shapes
  <2> QED BY <2>1, <2>2, <2>3, <2>4, SameAreThere DEF Serving, Listens, Unasked, Open, Progress
<1>3. CASE RegisterFails("raop", "register_raop") \/ RegisterFails("airplay", "register_airplay")
  <2>1. CASE CleanupAgain
    BY <2>1, GoneServes DEF CleanupAgain
  <2>2. CASE /\ pc \in {"register_raop", "register_airplay"} /\ pc' = "reconnect"
             /\ stop_raop_server /\ stop_dnssd
             /\ failed' # {} /\ UNCHANGED <<options, relaunch_video, reset_loop>>
    BY <2>2, NoneIsThere
       DEF stop_raop_server, stop_dnssd, Serving, Shapes, Listens, Unasked, Open, Progress
  <2> QED BY <1>3, <2>1, <2>2 DEF RegisterFails, cleanup
<1>4. CASE RegisterNull
  BY <1>4, GoneServes DEF RegisterNull
<1> QED BY <1>1, <1>2, <1>3, <1>4 DEF register_dnssd

\* The main loop, its resets and its end.
LEMMA LoopServes ==
  ASSUME Serving, main_loop \/ Quit \/ reconnectServer \/ restart \/ Stopping \/ Return
  PROVE  Serving'
<1> USE DEF Step, known, counters
<1>1. CASE main_loop \/ Quit
  <2>1. /\ pc \in {"reconnect", "loop"} /\ pc' \in {"loop", "quit"}
        /\ UNCHANGED <<options, dnssd, raop, raop_port, listening, failed, reset_loop, advertised>>
        /\ (pc = "reconnect" => ~relaunch_video') /\ (pc # "reconnect" => relaunch_video' = relaunch_video)
    BY <1>1 DEF main_loop, Quit, memory
  <2>2. Shapes' /\ (Ready => Ready') /\ \A s \in Services : Announced(s) => Announced(s)'
    BY <2>1, StillThere DEF Serving
  <2> QED BY <2>1, <2>2, SameAreThere DEF Serving, Listens, Unasked, Open, Progress
<1>2. CASE reconnectServer
  <2>1. /\ pc = "quit" /\ pc' = "reconnect" /\ reset_loop /\ relaunch_video /\ ~reset_loop'
        /\ UNCHANGED <<options, dnssd, raop_port, advertised, relaunch_video>>
    BY <1>2 DEF reconnectServer
  <2>2. CASE listening # 0
    <3>1. UNCHANGED <<raop, listening, failed>>
      BY <1>2, <2>2 DEF reconnectServer
    <3>2. Shapes' /\ (Ready => Ready') /\ \A s \in Services : Announced(s) => Announced(s)'
      BY <2>1, <3>1, StillThere DEF Serving
    <3> QED BY <2>1, <2>2, <3>1, <3>2, SameAreThere DEF Serving, Listens, Unasked, Open, Progress
  <2>3. CASE listening = 0
    <3>1. HttpdStart
      BY <1>2, <2>3 DEF reconnectServer
    <3>2. raop # None /\ raop[1].port # 0 /\ Shapes /\ Ready /\ \A s \in Services : Announced(s)
      BY <2>1, <2>3 DEF Serving, Listens, Unasked, Progress
    <3>3. /\ raop' # None /\ raop'[1].port = raop[1].port /\ raop'[1].pk = raop[1].pk
          /\ Known' /\ IsServer(raop', options.pin)
      BY <2>3, <3>1, <3>2, HttpdServes DEF Ready
    <3>4. Shapes'
      BY <2>1, <3>2, <3>3, SameAreThere DEF Shapes
    <3>5. Ready'
      BY <2>1, <3>2, <3>3 DEF Ready
    <3>6. \A s \in Services : Announced(s)'
      BY <2>1, <3>2 DEF Announced, Record
    <3>7. listening' # 0 => listening' = raop'[1].port
      BY <2>3, <3>1, <3>2, HttpdServes
    <3>8. listening' = raop'[1].port \/ "httpd" \in failed'
      BY <2>3, <3>1, <3>2, HttpdServes
    <3> QED BY <2>1, <3>2, <3>3, <3>4, <3>5, <3>6, <3>7, <3>8
            DEF Serving, Listens, Unasked, Open, Progress, Ready
  <2> QED BY <2>2, <2>3
<1>3. CASE restart
  BY <1>3, NoneIsThere DEF restart, stop_raop_server, stop_dnssd, Serving, Shapes, Listens, Unasked, Open, Progress
<1>4. CASE Stopping
  BY <1>4, NoneIsThere DEF Stopping, stop_raop_server, stop_dnssd, Serving, Shapes, Listens, Unasked, Open, Progress
<1>5. CASE Return
  <2>1. CASE Gone("ended") \/ CleanupAgain
    BY <2>1, GoneServes DEF CleanupAgain
  <2>2. CASE /\ pc' = pc /\ cleanup("return")
             /\ UNCHANGED <<options, dnssd, raop, listening, advertised>>
    BY <1>5, <2>2, SameAreThere DEF Return, cleanup, Serving, Shapes, Listens, Unasked, Open, Progress
  <2> QED BY <1>5, <2>1, <2>2 DEF Return, cleanup
<1> QED BY <1>1, <1>2, <1>3, <1>4, <1>5

\* What the other threads do.
LEMMA OthersServe ==
  ASSUME Serving,
         \/ \E stops \in BOOLEAN : Reset(stops)
         \/ video_reset \/ InfoNull \/ Kill
         \/ \E c \in Clients : register_client(c)
         \/ AppendClient \/ Answer
  PROVE  Serving'
<1> USE DEF known, counters, Serves, Up
<1>1. CASE (\E stops \in BOOLEAN : Reset(stops)) \/ video_reset
  <2>1. /\ pc \notin {"off", "ended", "crashed"} /\ listening # 0 /\ reset_loop'
        /\ (listening' = 0 \/ listening' = listening)
        /\ UNCHANGED <<options, pc, dnssd, raop, raop_port, advertised, failed>>
    BY <1>1 DEF Reset, video_reset
  <2>2. Shapes' /\ (Ready => Ready') /\ \A s \in Services : Announced(s) => Announced(s)'
    BY <2>1, StillThere DEF Serving
  <2> QED BY <2>1, <2>2, SameAreThere DEF Serving, Listens, Unasked, Open, Progress, Services
<1>2. CASE InfoNull \/ Kill
  BY <1>2, GoneServes DEF InfoNull, Kill
<1>3. CASE (\E c \in Clients : register_client(c)) \/ AppendClient \/ Answer
  <2>1. UNCHANGED <<options, pc, dnssd, raop, raop_port, listening, advertised, failed,
                    reset_loop, relaunch_video>>
    BY <1>3 DEF register_client, AppendClient, Answer
  <2> QED BY <2>1, StillServes
<1> QED BY <1>1, <1>2, <1>3

LEMMA ServingNext == Serving /\ [Next]_vars => Serving'
<1> SUFFICES ASSUME Serving, [Next]_vars PROVE Serving'
  OBVIOUS
<1>1. CASE UNCHANGED vars
  BY <1>1, StillServes DEF vars, memory, known
<1>2. CASE Launch
  <2>1. /\ pc \in {"off", "ended", "crashed"} /\ pc' = "dnssd"
        /\ UNCHANGED <<options, dnssd, raop, raop_port, listening, advertised, failed,
                       reset_loop, relaunch_video>>
    BY <1>2 DEF Launch, known
  <2>2. Shapes'
    BY <2>1, StillThere DEF Serving
  <2> QED BY <2>1, <2>2, SameAreThere DEF Serving, Listens, Unasked, Open, Progress
<1>3. CASE Next /\ ~Launch
  BY <1>3, StartServes, RegisterServes, LoopServes, OthersServe DEF Next
<1> QED BY <1>1, <1>2, <1>3

-----------------------------------------------------------------------------
\* One announcement or two, the name is freed once.
LEMMA FreedOnce ==
  ASSUME PerService, advertised # Nothing
  PROVE  Frees = 1
<1> DEFINE Left(s) == IF s = "raop" THEN advertised ELSE Unregistered("raop", advertised)
           freed == {s \in Services : NameFreed(s, Left(s))}
<1>1. PICK T : advertised \in [Services -> T]
  BY DEF PerService
<1>2. "raop" \in freed <=> advertised["raop"] # None /\ advertised["airplay"] = None
  BY <1>1 DEF NameFreed, Unregistered, Services, Nothing
<1>3. "airplay" \in freed <=> advertised["airplay"] # None
  BY <1>1 DEF NameFreed, Unregistered, Services, Nothing
<1>4. advertised["raop"] # None \/ advertised["airplay"] # None
  BY <1>1 DEF Services, Nothing
<1>5. freed \in SUBSET {"raop", "airplay"}
  BY DEF Services
<1>6. \E s : freed = {s}
  BY <1>2, <1>3, <1>4, <1>5
<1>7. Cardinality(freed) = 1
  BY <1>6, FS_Singleton
<1> QED BY <1>7 DEF Frees

LEMMA ServingAnnounces == Serving => AdvertisedIsServed
<1> SUFFICES ASSUME Serving PROVE AdvertisedIsServed
  OBVIOUS
<1>1. Serves /\ raop[1].dnssd => dnssd # None
  BY DEF Serves, Serving, Listens, Progress, Known
<1>2. ASSUME NEW s \in Services, advertised[s] # None
      PROVE  /\ raop # None /\ dnssd # None
             /\ advertised[s][1].port = raop[1].port
             /\ listening = advertised[s][1].port \/ "httpd" \in failed \/ reset_loop
             /\ InfoAnswer = [pk |-> advertised[s][1].pk, features |-> advertised[s][1].features,
                              deviceid |-> advertised[s][1].deviceid]
             /\ (27 \in advertised[s][1].features) <=> raop[1].use_pin
  <2>1. advertised # Nothing
    BY <1>2, NothingOf
  <2>2. Announced(s) /\ Ready /\ pc # "raop_start"
    BY <1>2, <2>1 DEF Serving, Progress, Services
  <2>3. /\ advertised[s][1].port = raop_port /\ advertised[s][1].pk = dnssd[1].pk
        /\ advertised[s][1].features = dnssd[1].features
        /\ advertised[s][1].deviceid = dnssd[1].hw_addr
    BY <2>2 DEF Announced, Record
  <2>4. IsDnssd(dnssd, options.pin) /\ IsServer(raop, options.pin)
    BY <2>2 DEF Ready, Serving, Shapes
  <2>5. raop[1].use_pin = options.pin
    BY <2>4 DEF IsServer
  <2>6. 27 \in dnssd[1].features <=> options.pin
    BY <2>4 DEF IsDnssd
  <2>7. (27 \in advertised[s][1].features) <=> raop[1].use_pin
    BY <2>3, <2>5, <2>6, Zenon
  <2>8. InfoAnswer = [pk |-> advertised[s][1].pk, features |-> advertised[s][1].features,
                      deviceid |-> advertised[s][1].deviceid]
    BY <2>2, <2>3 DEF InfoAnswer, Ready
  <2>9. listening = raop[1].port \/ "httpd" \in failed \/ reset_loop
    BY <2>2 DEF Serving, Open, Ready
  <2> QED BY <2>2, <2>3, <2>7, <2>8, <2>9 DEF Ready
<1>3. pc = "loop" => (\A s \in Services : advertised[s] # None) \/ (raop = None /\ failed # {})
  BY NotNothing DEF Serving, Progress, Announced
<1>4. pc = "quit" /\ relaunch_video => reset_loop
  BY DEF Serving, Unasked
<1>5. pc \in {"return", "ended"} => advertised = Nothing
  BY DEF Serving, Progress
<1>6. advertised # Nothing => Frees = 1
  BY FreedOnce DEF Serving, Shapes
<1> QED BY <1>1, <1>2, <1>3, <1>4, <1>5, <1>6 DEF AdvertisedIsServed

\* Whatever fails, and however often the server is reset: what is announced
\* over mDNS is what the server is and answers, and no announcement outlives
\* it (AirPlayServer.cpp:2719-2813, lib/dnssd.c:272-452).
THEOREM AdvertisedAlways == Spec => []AdvertisedIsServed
<1> QED BY ServingInit, ServingNext, ServingAnnounces, PTL DEF Spec

-----------------------------------------------------------------------------
\* Clients stay paired.

\* The address is the one the options ask for, unless they ask for any.
Address ==
  Up => \/ options.mac = "random"
        \/ options.mac = "user" /\ mac_address = USER_MAC
        \/ options.mac = "system" /\ mac_address = SYSTEM_MAC

\* Keys that every start of the program comes to.
Stable == IF options.keyfile THEN options.writable ELSE options.mac # "random"
StableKey(key) ==
  IF options.keyfile THEN disk.key # None /\ key = disk.key
  ELSE key = <<"address", IF options.mac = "user" THEN USER_MAC ELSE SYSTEM_MAC>>

\* A client that is kept is in the list, and in the file before its answer.
Registering ==
  registering # None =>
    /\ raop # None
    /\ registering[1] \in Clients
    /\ options.pin
    /\ registering[2] # "unlisted" => check_register(registering[1])
    /\ registering[2] = "file" /\ options.list /\ options.writable =>
         registering[1] \in disk.clients

PerClient == \E T : paired \in [Clients -> T]
Files == disk = [key |-> disk.key, clients |-> disk.clients]

Pairs ==
  /\ Files
  /\ PerClient
  /\ ~Up => raop = None /\ registering = None
  /\ raop # None /\ Stable => StableKey(raop[1].pk)
  /\ \A c \in Clients : paired[c] # None =>
       /\ options.pin
       /\ Stable => StableKey(paired[c])

Listed ==
  \A c \in enrolled :
    /\ options.pin
    /\ options.writable /\ options.list =>
         c \in disk.clients /\ (Up => c \in registered_keys)

Pairing == Address /\ Registering /\ Pairs /\ Listed

LEMMA PairingInit == Init => Pairing
<1> SUFFICES ASSUME Init PROVE Pairing
  OBVIOUS
<1>1. Files
  BY DEF Init, Files
<1>2. PerClient /\ \A c \in Clients : paired[c] = None
  <2>1. paired \in [Clients -> {None}]
    BY DEF Init
  <2> QED BY <2>1 DEF PerClient, Init
<1> QED BY <1>1, <1>2 DEF Init, Pairing, Address, Registering, Pairs, Listed, Up

\* What only the files, the options and the clients say stays as they do.
LEMMA SameFiles ==
  ASSUME UNCHANGED <<options, disk, paired, enrolled>>
  PROVE  /\ Files => Files'
         /\ PerClient => PerClient'
         /\ Stable <=> Stable'
         /\ \A key : StableKey(key) => StableKey(key)'
  BY DEF Files, PerClient, Stable, StableKey

LEMMA KeySet ==
  ASSUME NEW key, Files, disk' = [disk EXCEPT !.key = key]
  PROVE  Files' /\ disk'.key = key /\ disk'.clients = disk.clients
  BY DEF Files

LEMMA ClientAppended ==
  ASSUME NEW c, Files, disk' = [disk EXCEPT !.clients = @ \cup {c}]
  PROVE  /\ Files' /\ disk'.key = disk.key
         /\ disk.clients \subseteq disk'.clients /\ c \in disk'.clients
  BY DEF Files

\* The process is gone, and its clients know what they knew.
LEMMA GonePairs ==
  ASSUME Pairing, NEW how \in Off, Gone(how)
  PROVE  Pairing'
<1>1. /\ ~Up' /\ raop' = None /\ registering' = None
      /\ UNCHANGED <<options, disk, paired, enrolled>>
  BY DEF Gone, Up, known
<1> QED BY <1>1, SameFiles DEF Pairing, Address, Registering, Pairs, Listed

\* A running server keeps its key, or goes while no client registers.
LEMMA KeptPairs ==
  ASSUME Pairing, Up, Up',
         raop' = None \/ (raop # None /\ raop'[1].pk = raop[1].pk),
         registering' = registering, registering # None => raop' # None,
         UNCHANGED <<options, disk, paired, enrolled, mac_address, registered_keys>>
  PROVE  Pairing'
  BY SameFiles DEF Pairing, Address, Registering, Pairs, Listed, check_register

\* The key a server is made with is one that every start comes to.
LEMMA MadePairs ==
  ASSUME Serving, Pairing, raop_init2
  PROVE  Pairing'
<1>1. /\ pc = "raop" /\ pc' = "raop_start"
      /\ raop = None /\ registering = None
      /\ UNCHANGED <<options, paired, enrolled, mac_address, registered_keys, registering>>
  BY DEF raop_init2, Step, Serving, Progress, Pairing, Registering
<1>2. raop'[1].pk = pk
  BY DEF raop_init2
<1>3. CASE Kept
  <2>1. disk' = disk
    BY <1>3 DEF raop_init2
  <2>2. Stable => StableKey(pk)
    BY <1>1, <1>3 DEF pk, Kept, Stable, StableKey, Pairing, Address, Up
  <2> QED BY <1>1, <1>2, <2>1, <2>2, SameFiles
          DEF Pairing, Address, Registering, Pairs, Listed, Up
<1>4. CASE ~Kept
  <2>1. options.keyfile /\ disk.key = None
    BY <1>4 DEF Kept
  <2>2. pk # None
    BY <2>1 DEF pk, Kept, None
  <2>3. CASE ~options.writable
    <3>1. disk' = disk /\ ~Stable
      BY <1>4, <2>1, <2>3 DEF raop_init2, Stable
    <3> QED BY <1>1, <3>1, SameFiles, <2>3
            DEF Pairing, Address, Registering, Pairs, Listed, Up
  <2>4. CASE options.writable
    <3>1. Files' /\ disk'.key = pk /\ disk'.clients = disk.clients
      <4>1. disk' = [disk EXCEPT !.key = pk]
        BY <1>4, <2>4 DEF raop_init2
      <4> QED BY <4>1, KeySet DEF Pairing, Pairs
    <3>2. Stable /\ \A c \in Clients : paired[c] = None
      BY <2>1, <2>4 DEF Stable, StableKey, Pairing, Pairs
    <3>3. StableKey(raop[1].pk)'
      BY <1>1, <1>2, <2>1, <2>2, <3>1 DEF StableKey
    <3>4. PerClient'
      BY <1>1 DEF Pairing, Pairs, PerClient
    <3> QED BY <1>1, <3>1, <3>2, <3>3, <3>4 DEF Pairing, Address, Registering, Pairs, Listed, Up
  <2> QED BY <2>3, <2>4
<1> QED BY <1>3, <1>4

\* The start, the main loop and its end leave clients and keys alone.
LEMMA MainPairs ==
  ASSUME Serving, Pairing,
         \/ start_dnssd \/ start_dnssdFails \/ raop_initFails
         \/ raop_start \/ raop_set_dnssd \/ raop_set_dnssdFails \/ register_dnssd
         \/ main_loop \/ Quit \/ reconnectServer \/ restart \/ Stopping \/ Return
  PROVE  Pairing'
<1> USE DEF Step, Up
<1>1. CASE start_dnssd \/ start_dnssdFails \/ raop_set_dnssdFails
  BY <1>1, KeptPairs, GonePairs
     DEF start_dnssd, start_dnssdFails, raop_set_dnssdFails, cleanup, CleanupAgain, known, Pairing,
         Registering
<1>2. CASE raop_initFails
  BY <1>2, KeptPairs, GonePairs
     DEF raop_initFails, cleanup, CleanupAgain, known, Pairing, Registering
<1>3. CASE raop_start
  <2>1. /\ pc = "raop_start" /\ pc' = "raop_set_dnssd" /\ HttpdStart /\ listening = 0
        /\ Shapes /\ raop # None
        /\ UNCHANGED <<options, disk, paired, enrolled, mac_address, registered_keys, registering>>
    BY <1>3 DEF raop_start, known, Serving, Listens, Progress
  <2>2. raop' # None /\ raop'[1].pk = raop[1].pk
    BY <2>1, HttpdServes
  <2> QED BY <2>1, <2>2, KeptPairs
<1>4. CASE raop_set_dnssd
  <2>1. IsServer(raop, options.pin) /\ pc = "raop_set_dnssd" /\ raop # None
    BY <1>4 DEF raop_set_dnssd, Serving, Shapes, Progress
  <2>2. raop' = <<[raop[1] EXCEPT !.dnssd = TRUE]>>
    BY <1>4 DEF raop_set_dnssd
  <2>3. raop' # None /\ raop'[1].pk = raop[1].pk
    BY <2>1, <2>2, KnownSet, Zenon
  <2>4. /\ pc' = "register_raop"
        /\ UNCHANGED <<options, disk, paired, enrolled, mac_address, registered_keys, registering>>
    BY <1>4 DEF raop_set_dnssd, known
  <2> QED BY <2>1, <2>3, <2>4, KeptPairs
<1>5. CASE register_dnssd
  BY <1>5, KeptPairs, GonePairs
     DEF register_dnssd, Register, RegisterFails, RegisterNull, cleanup, CleanupAgain, known,
         stop_raop_server, Pairing, Registering
<1>6. CASE main_loop \/ Quit
  BY <1>6, KeptPairs DEF main_loop, Quit, known, memory, Pairing, Registering
<1>7. CASE reconnectServer
  <2>1. /\ pc = "quit" /\ pc' = "reconnect" /\ Shapes /\ raop # None
        /\ UNCHANGED <<options, disk, paired, enrolled, mac_address, registered_keys, registering>>
    BY <1>7 DEF reconnectServer, known, Serving, Unasked
  <2>2. raop' # None /\ raop'[1].pk = raop[1].pk
    BY <1>7, <2>1, HttpdServes DEF reconnectServer
  <2> QED BY <2>1, <2>2, KeptPairs
<1>8. CASE restart \/ Stopping
  BY <1>8, KeptPairs DEF restart, Stopping, stop_raop_server, known
<1>9. CASE Return
  BY <1>9, KeptPairs, GonePairs DEF Return, cleanup, CleanupAgain, known, Pairing, Registering
<1> QED BY <1>1, <1>2, <1>3, <1>4, <1>5, <1>6, <1>7, <1>8, <1>9

\* Resets, and a client that registers: the list, the file, the answer.
LEMMA OthersPair ==
  ASSUME Serving, Pairing,
         \/ \E stops \in BOOLEAN : Reset(stops)
         \/ video_reset \/ InfoNull \/ Kill
         \/ \E c \in Clients : register_client(c)
         \/ AppendClient \/ Answer
  PROVE  Pairing'
<1>1. CASE (\E stops \in BOOLEAN : Reset(stops)) \/ video_reset
  BY <1>1, KeptPairs DEF Reset, video_reset, Serves, Up, known, Pairing, Registering
<1>2. CASE InfoNull \/ Kill
  BY <1>2, GonePairs DEF InfoNull, Kill
<1>3. ASSUME NEW c \in Clients, register_client(c) PROVE Pairing'
  <2>1. /\ Up /\ Up' /\ raop # None /\ options.pin /\ UNCHANGED raop
        /\ UNCHANGED <<options, disk, paired, enrolled, mac_address>>
    BY <1>3 DEF register_client, Serves, Up, known, Serving, Listens
  <2>2. PICK pending_registration \in BOOLEAN :
          /\ registered_keys' =
               IF pending_registration /\ options.list THEN registered_keys \cup {c}
               ELSE registered_keys
          /\ registering' = <<c, IF pending_registration THEN "memory" ELSE "unlisted">>
    BY <1>3 DEF register_client
  <2>3. /\ registered_keys \subseteq registered_keys'
        /\ Registering'
    <3>1. CASE pending_registration
      BY <2>1, <2>2, <3>1 DEF Registering, check_register
    <3>2. CASE ~pending_registration
      BY <2>1, <2>2, <3>2 DEF Registering
    <3> QED BY <3>1, <3>2
  <2> QED BY <2>1, <2>3, SameFiles DEF Pairing, Address, Pairs, Listed
<1>4. CASE AppendClient
  <2>1. /\ Up /\ Up' /\ registering # None /\ registering[2] = "memory"
        /\ registering' = <<registering[1], "file">>
        /\ UNCHANGED <<options, paired, enrolled, mac_address, raop, registered_keys>>
    BY <1>4 DEF AppendClient, Up
  <2>2. registering'[1] = registering[1] /\ registering'[2] = "file"
    BY <2>1
  <2>3. /\ Files' /\ disk'.key = disk.key /\ disk.clients \subseteq disk'.clients
        /\ options.list /\ options.writable => registering[1] \in disk'.clients
    <3>1. CASE options.list /\ options.writable
      <4>1. disk' = [disk EXCEPT !.clients = @ \cup {registering[1]}]
        BY <1>4, <3>1 DEF AppendClient
      <4> QED BY <4>1, ClientAppended DEF Pairing, Pairs
    <3>2. CASE ~(options.list /\ options.writable)
      <4>1. disk' = disk
        BY <1>4, <3>2 DEF AppendClient
      <4> QED BY <3>2, <4>1 DEF Pairing, Pairs, Files
    <3> QED BY <3>1, <3>2
  <2>4. Registering'
    <3>1. raop # None /\ registering[1] \in Clients /\ options.pin /\ check_register(registering[1])
      BY <2>1 DEF Pairing, Registering
    <3>2. check_register(registering[1])'
      BY <2>1, <3>1 DEF check_register
    <3>3. options.list /\ options.writable => registering[1] \in disk'.clients
      BY <2>3
    <3> QED BY <2>1, <2>2, <3>1, <3>2, <3>3 DEF Registering, check_register
  <2>5. PerClient' /\ (Stable' <=> Stable) /\ \A key : StableKey(key)' <=> StableKey(key)
    BY <2>1, <2>3 DEF Pairing, Pairs, PerClient, Stable, StableKey
  <2> QED BY <2>1, <2>3, <2>4, <2>5 DEF Pairing, Address, Pairs, Listed
<1>5. CASE Answer
  <2> DEFINE c == registering[1]
  <2>1. /\ Up /\ Up' /\ registering # None /\ registering' = None
        /\ paired' = [paired EXCEPT ![c] = raop[1].pk]
        /\ enrolled' = IF registering[2] = "file" THEN enrolled \cup {c} ELSE enrolled
        /\ UNCHANGED <<options, disk, mac_address, raop, registered_keys>>
    BY <1>5 DEF Answer, Up
  <2>2. /\ raop # None /\ c \in Clients /\ options.pin
        /\ registering[2] = "file" /\ options.list /\ options.writable =>
             c \in registered_keys /\ c \in disk.clients
    BY <2>1 DEF Pairing, Registering, check_register
  <2> HIDE DEF c
  <2>3. /\ PerClient' /\ paired'[c] = raop[1].pk
        /\ \A other \in Clients : other # c => paired'[other] = paired[other]
    <3>1. PICK T : paired \in [Clients -> T]
      BY DEF Pairing, Pairs, PerClient
    <3>2. paired' \in [Clients -> T \cup {raop[1].pk}]
      BY <2>1, <3>1
    <3> QED BY <2>1, <2>2, <3>1, <3>2 DEF PerClient
  <2>4. Files' /\ (Stable' <=> Stable) /\ \A key : StableKey(key)' <=> StableKey(key)
    BY <2>1 DEF Pairing, Pairs, Files, Stable, StableKey
  <2>5. ASSUME NEW other \in Clients, paired'[other] # None
        PROVE  /\ options.pin
               /\ Stable => StableKey(paired'[other])
    BY <2>1, <2>2, <2>3, <2>5 DEF Pairing, Pairs
  <2>6. Listed'
    BY <2>1, <2>2 DEF Pairing, Listed
  <2> QED BY <2>1, <2>2, <2>3, <2>4, <2>5, <2>6 DEF Pairing, Address, Registering, Pairs, Listed
<1> QED BY <1>1, <1>2, <1>3, <1>4, <1>5

LEMMA PairingNext == Serving /\ Pairing /\ [Next]_vars => Pairing'
<1> SUFFICES ASSUME Serving, Pairing, [Next]_vars PROVE Pairing'
  OBVIOUS
<1>1. CASE UNCHANGED vars
  <2>1. UNCHANGED <<options, disk, paired, enrolled, pc, raop, registering, mac_address, registered_keys>>
    BY <1>1 DEF vars, known, memory
  <2> QED BY <2>1, SameFiles DEF Pairing, Address, Registering, Pairs, Listed, Up, check_register
<1>2. CASE Launch
  <2>1. /\ ~Up /\ raop = None /\ registering = None
        /\ UNCHANGED <<options, disk, paired, enrolled, raop, registering>>
        /\ registered_keys' = IF options.pin /\ options.list THEN disk.clients ELSE {}
    BY <1>2 DEF Launch, known, Up, Pairing, Pairs
  <2>2. Address'
    BY <1>2 DEF Launch, known, Address
  <2> QED BY <2>1, <2>2, SameFiles DEF Pairing, Registering, Pairs, Listed
<1>3. CASE Next /\ ~Launch
  BY <1>3, MadePairs, MainPairs, OthersPair DEF Next
<1> QED BY <1>1, <1>2, <1>3

LEMMA PairingPairs == Pairing => ClientsStayPaired
  BY DEF Pairing, Pairs, Listed, ClientsStayPaired, Stable, StableKey, check_register

\* For any clients, options and number of starts, also when the program dies
\* in the middle of a registration: a client that was answered finds the key it
\* knows, and is still in the list when pending_registration happened to be
\* set (AirPlayServer.cpp:2131-2172, lib/crypto.c:357-417, raop_handlers.h:575).
THEOREM PairedAlways == Spec => []ClientsStayPaired
<1> QED BY ServingInit, ServingNext, PairingInit, PairingNext, PairingPairs, PTL DEF Spec
=============================================================================
