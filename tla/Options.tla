------------------------------ MODULE Options ------------------------------
(***************************************************************************)
(* How the AirPlay server is configured (AirPlayServer.cpp): the program's *)
(* arguments and the lines of a configuration file go through the same     *)
(* parser.  Most options take no value or one; for some the value may be   *)
(* missing, which the parser tells by the dash of the next argument, and   *)
(* some values start with a dash themselves.                               *)
(***************************************************************************)
EXTENDS Texts, SequencesExt

CONSTANTS
  Lines,          \* the options a user may write: records of
                  \*   args   the texts, the option's name first
                  \*   sets   what it means: setting -> value
                  \*   adds   the lists it adds to: setting -> element
                  \*   turns  the settings it turns over
                  \*   ok     FALSE: the program should refuse it
  Writable,       \* texts that name a file that can be written,
  Macs,           \* and those that have the form of a hardware address
  MAX_OPTIONS     \* bound: options of one command line or file

VARIABLES
  written,        \* the options as the user meant them
  source,         \* "command line", "file", or "quoted": a file whose values
                  \* are all in quotes
  argv, i,
  settings,       \* the members of AirPlayServer the options set
  outcome         \* "reading", "parsing", "done", "exit", "undefined"

vars == <<written, source, argv, i, settings, outcome>>

\* The members as the constructor leaves them; <<>> is one it leaves unset.
\* videorotate stands for videoflip[1], which no option reaches, timing for
\* udp[0].
Defaults == [
  allowed |-> <<>>, blocked |-> <<>>, restrict_clients |-> FALSE,
  server_name |-> Text("JARVIS"), do_append_hostname |-> TRUE,
  audio_sync |-> FALSE, video_sync |-> TRUE, audio_delay_alac |-> 0, audio_delay_aac |-> 0,
  display |-> <<0, 0>>, refresh_rate |-> 0, fps |-> 0, overscanned |-> 0, videoflip |-> <<>>,
  videorotate |-> <<>>, tcp |-> <<0, 0, 0>>, timing |-> 0, udp |-> <<0, 0>>,
  mac_address |-> <<>>, use_random_hw_addr |-> FALSE, use_audio |-> TRUE, debug_log |-> FALSE,
  video_parser |-> Text("h264parse"), video_decoder |-> Text("decodebin"),
  video_converter |-> Text("videoconvert"), videosink |-> Text("autovideosink"),
  audiosink |-> Text("autoaudiosink"), new_window_closing_behavior |-> TRUE,
  fullscreen |-> FALSE, show_client_FPS_data |-> FALSE, max_ntp_timeouts |-> 5,
  dump_video |-> FALSE, video_dump_limit |-> 0, video_dumpfile_name |-> Text("videodump"),
  dump_audio |-> FALSE, audio_dump_limit |-> 0, audio_dumpfile_name |-> Text("audiodump"),
  coverart_filename |-> <<>>, bt709_fix |-> FALSE, nohold |-> 0, audiodelay |-> -1,
  setup_legacy_pairing |-> FALSE, require_password |-> FALSE, pin |-> 0,
  registration_list |-> FALSE, pairing_register |-> <<>>, keyfile |-> <<>>, dacpfile |-> <<>>,
  taper_volume |-> FALSE, db |-> <<-30, 0>>, nofreeze |-> <<>>]

-----------------------------------------------------------------------------
\* The configuration file.

\* A value as it is written into a line.
Quoted(text) == <<QUOTE>> \o text \o <<QUOTE>>
Item(text) ==
  IF source = "quoted" \/ Contains(text, SPACE) THEN Quoted(text) ELSE text

\* A line: the option's name without its dash, and its values.
Line(args) ==
  FlattenSeq(<<<<[args[1][1] EXCEPT !.dash = FALSE]>>>> \o
             [k \in 1 .. Len(args) - 1 |-> <<SPACE>> \o Item(args[k + 1])])

\* Slip: a quote ends the item wherever it is.
MutEndsItem(line, k, quoted) == line[k] = (IF quoted THEN QUOTE ELSE SPACE)

\* An item ends at the space behind it, or at the quote it began with: one
\* that is not behind a backslash, and with a space or nothing after it.
EndsItem(line, k, quoted) ==
  IF quoted
  THEN /\ line[k] = QUOTE
       /\ line[k - 1] # BACKSLASH
       /\ k + 1 <= Len(line) => line[k + 1] = SPACE
  ELSE line[k] = SPACE

\* The characters of a line go through one loop, which knows whether it is in
\* an item and whether that is a quoted one; empty items are dropped.
Character(line, k, r) ==
  IF ~r.part /\ line[k] = SPACE THEN r
  ELSE IF ~r.part THEN
    [r EXCEPT !.part = TRUE, !.quoted = line[k] = QUOTE,
              !.item = IF line[k] = QUOTE THEN <<>> ELSE <<line[k]>>]
  ELSE IF EndsItem(line, k, r.quoted) THEN
    [r EXCEPT !.part = FALSE, !.item = <<>>,
              !.items = IF r.item = <<>> THEN @ ELSE Append(@, r.item)]
  ELSE [r EXCEPT !.item = Append(@, line[k])]

NoItem == [items |-> <<>>, item |-> <<>>, part |-> FALSE, quoted |-> FALSE]
Items(line) ==
  LET Read[k \in 0 .. Len(line)] ==
        IF k = 0 THEN NoItem ELSE Character(line, k, Read[k - 1])
      last == Read[Len(line)]
  IN  IF last.item = <<>> THEN last.items ELSE Append(last.items, last.item)

\* The first item of a line gets its dash back.
Tokens(line) ==
  LET items == Items(line)
  IN  <<[items[1] EXCEPT ![1].dash = TRUE]>> \o Tail(items)

\* read_config_file: the lines become an argument vector like the program's.
read_config_file ==
  /\ outcome = "reading"
  /\ source # "command line"
  /\ argv' = <<Text("JARVIS")>> \o
             FlattenSeq([k \in 1 .. Len(written) |-> Tokens(Line(written[k].args))])
  /\ outcome' = "parsing"
  /\ UNCHANGED <<written, source, i, settings>>

\* The arguments of the program, as the shell passes them.
Started ==
  /\ outcome = "reading"
  /\ source = "command line"
  /\ argv' = <<Text("JARVIS")>> \o
             FlattenSeq([k \in 1 .. Len(written) |-> written[k].args])
  /\ outcome' = "parsing"
  /\ UNCHANGED <<written, source, i, settings>>

Init ==
  /\ written \in UNION {[1 .. n -> Lines] : n \in 1 .. MAX_OPTIONS}
  /\ source \in {"command line", "file", "quoted"}
  /\ argv = <<>> /\ i = 2
  /\ settings = Defaults
  /\ outcome = "reading"

-----------------------------------------------------------------------------
\* The parser.  argv[i] is the option, Next1 the argument after it.

argc == Len(argv)
At(name) == outcome = "parsing" /\ i <= argc /\ argv[i] = Option(name)
HasNext == i < argc
Next1 == argv[i + 1]

\* option_has_value
option_has_value == HasNext /\ ~Dash(Next1)

\* The loop goes on behind the option and n arguments more.
Goes(n, changes) ==
  /\ settings' = changes
  /\ i' = i + 1 + n
  /\ outcome' = IF i + n >= argc THEN "done" ELSE "parsing"
  /\ UNCHANGED <<written, source, argv>>

Stops(how) == outcome' = how /\ UNCHANGED <<written, source, argv, i, settings>>
Exits == Stops("exit")

\* strlen or std::string of the NULL behind the last argument.
ReadsNull == Stops("undefined")

\* get_value: n > 0 is the largest value, and 0 is then not allowed.
get_value(text, n) ==
  IF IsNumber(text) /\ ~Dash(text) /\ (n = 0 \/ text[1].num[1] \in 1 .. n)
  THEN text[1].num ELSE <<>>

\* Options that stand alone.
Flag(name) ==
  LET On(s) ==
    CASE name = "nh" -> [s EXCEPT !.do_append_hostname = FALSE]
      [] name = "o" -> [s EXCEPT !.overscanned = 1]
      [] name = "a" -> [s EXCEPT !.use_audio = FALSE]
      [] name = "d" -> [s EXCEPT !.debug_log = ~@]
      [] name = "nc" -> [s EXCEPT !.new_window_closing_behavior = FALSE]
      [] name = "avdec" -> [s EXCEPT !.video_parser = Text("h264parse"),
           !.video_decoder = Text("avdec_h264"), !.video_converter = Text("videoconvert")]
      [] name = "v4l2" -> [s EXCEPT !.video_decoder = Text("v4l2h264dec"),
           !.video_converter = Text("v4l2convert")]
      [] name = "fs" -> [s EXCEPT !.fullscreen = TRUE]
      [] name = "FPSdata" -> [s EXCEPT !.show_client_FPS_data = TRUE]
      [] name = "bt709" -> [s EXCEPT !.bt709_fix = TRUE]
      [] name = "nohold" -> [s EXCEPT !.nohold = 1]
      [] name = "taper" -> [s EXCEPT !.taper_volume = TRUE]
      [] name = "nofreeze" -> [s EXCEPT !.nofreeze = <<TRUE>>]
  IN  At(name) /\ Goes(0, On(settings))

FlagNames ==
  {"nh", "o", "a", "d", "nc", "avdec", "v4l2", "fs", "FPSdata", "bt709", "nohold",
   "taper", "nofreeze"}

\* -n, -vp, -vd, -vc, -vs, -as: a text.
TextOptions == [n |-> "server_name", vp |-> "video_parser", vd |-> "video_decoder",
                vc |-> "video_converter", vs |-> "videosink", as |-> "audiosink"]
TextOption(name) ==
  /\ At(name)
  /\ \/ ~option_has_value /\ Exits
     \/ option_has_value /\ Goes(1, [settings EXCEPT ![TextOptions[name]] = Next1])

\* -allow, -block: one more entry of a list.
ListOptions == [allow |-> "allowed", block |-> "blocked"]
ListOption(name) ==
  /\ At(name)
  /\ \/ ~option_has_value /\ Exits
     \/ option_has_value /\ Goes(1, [settings EXCEPT ![ListOptions[name]] = Append(@, Next1)])

\* get_display_settings: wxh or wxh@r; the rate stays when it is not given.
get_display_settings(text) ==
  /\ text[1].text \in {"x", "x@"}
  /\ \A k \in 1 .. 2 : text[1].num[k] \in 1 .. 9999
  /\ text[1].text = "x@" => text[1].num[3] \in 1 .. 255
Display ==
  /\ At("s")
  /\ IF option_has_value /\ get_display_settings(Next1)
     THEN Goes(1, [settings EXCEPT
                     !.display = SubSeq(Next1[1].num, 1, 2),
                     !.refresh_rate = IF Next1[1].text = "x@" THEN Next1[1].num[3] ELSE @])
     ELSE Exits

Fps ==
  /\ At("fps")
  /\ IF option_has_value /\ get_value(Next1, 255) # <<>>
     THEN Goes(1, [settings EXCEPT !.fps = Next1[1].num[1]])
     ELSE Exits

\* -f, and -r, which reads its letter as a flip too, into the same member: the
\* function that would read a rotation has no caller.
Flips == {Text("I"), Text("H"), Text("V")}
Flip ==
  /\ At("f") \/ At("r")
  /\ IF option_has_value /\ Next1 \in Flips
     THEN Goes(1, [settings EXCEPT !.videoflip = Next1])
     ELSE Exits

\* -restrict [no]
Restricted ==
  /\ At("restrict")
  /\ IF HasNext /\ Next1 = Text("no")
     THEN Goes(1, [settings EXCEPT !.restrict_clients = FALSE])
     ELSE Goes(0, [settings EXCEPT !.restrict_clients = TRUE])

\* A delay may be below zero, and is looked for whatever its first character.
TakesDelay == HasNext /\ IsNumber(Next1)

\* -async and -vsync [no | delay], the delay in milliseconds and kept in
\* nanoseconds, here in milliseconds.
Sync(name, sync, delay) ==
  /\ At(name)
  /\ IF HasNext /\ Next1 = Text("no")
     THEN Goes(1, [settings EXCEPT ![sync] = FALSE])
     ELSE IF ~TakesDelay
     THEN Goes(0, [settings EXCEPT ![sync] = TRUE])
     ELSE IF Next1[1].num[1] \in -999 .. 999
     THEN Goes(1, [settings EXCEPT ![sync] = TRUE, ![delay] = Next1[1].num[1]])
     ELSE Exits

-----------------------------------------------------------------------------
\* Options whose value may be missing: the next argument tells by its dash.

LOWEST_ALLOWED_PORT == 1024
HIGHEST_PORT == 65535

\* get_ports: up to three ports, the missing ones counted on from the last.
\* That they are distinct is looked at, but nothing follows from it.
get_ports(text) ==
  LET ports == text[1].num
      n == Len(ports)
  IN  IF /\ n \in 1 .. 3
         /\ \A k \in 1 .. n : ports[k] \in LOWEST_ALLOWED_PORT .. HIGHEST_PORT
         /\ 3 + ports[n] <= n + HIGHEST_PORT
      THEN [k \in 1 .. 3 |-> IF k <= n THEN ports[k] ELSE ports[n] + (k - n)]
      ELSE <<>>

\* -p [[tcp | udp] ports].  A list without a keyword is for both kinds, except
\* for the port of the timing service.
Ports ==
  /\ At("p")
  /\ IF ~option_has_value
     THEN Goes(0, [settings EXCEPT !.tcp = <<7100, 7000, 7001>>,
                                   !.timing = 7011, !.udp = <<6001, 6000>>])
     ELSE IF Next1 \in {Text("tcp"), Text("udp")}
     THEN IF i + 2 > argc THEN ReadsNull
          ELSE LET ports == get_ports(argv[i + 2])
               IN  IF ports = <<>> THEN Exits
                   ELSE IF Next1 = Text("tcp") THEN Goes(2, [settings EXCEPT !.tcp = ports])
                   ELSE Goes(2, [settings EXCEPT !.timing = ports[1],
                                                 !.udp = <<ports[2], ports[3]>>])
     ELSE LET ports == get_ports(Next1)
          IN  IF ports = <<>> THEN Exits
              ELSE Goes(1, [settings EXCEPT !.tcp = ports, !.udp = <<ports[2], ports[3]>>])

\* -m [address]
Mac ==
  /\ At("m")
  /\ IF ~option_has_value THEN Goes(0, [settings EXCEPT !.use_random_hw_addr = TRUE])
     ELSE IF Next1 \in Macs
     THEN Goes(1, [settings EXCEPT !.mac_address = Next1, !.use_random_hw_addr = FALSE])
     ELSE Exits

\* -reset n, read whether it is there or not.
ResetLimit ==
  /\ At("reset")
  /\ IF ~HasNext THEN ReadsNull
     ELSE IF get_value(Next1, 0) # <<>>
     THEN Goes(1, [settings EXCEPT !.max_ntp_timeouts = Next1[1].num[1]])
     ELSE Exits

\* -vdmp and -admp [n] [file].  Zero is refused for the video only; a file
\* that cannot be written is only told.
Dump(name, on, limit, file) ==
  LET dumps == [settings EXCEPT ![on] = TRUE]
  IN  /\ At(name)
      /\ IF ~option_has_value THEN Goes(0, dumps)
         ELSE IF get_value(Next1, 0) = <<>>
         THEN Goes(1, [dumps EXCEPT ![file] = Next1])
         ELSE IF name = "vdmp" /\ Next1[1].num[1] = 0 THEN Exits
         ELSE IF i + 1 < argc /\ ~Dash(argv[i + 2])
         THEN Goes(2, [dumps EXCEPT ![limit] = Next1[1].num[1], ![file] = argv[i + 2]])
         ELSE Goes(1, [dumps EXCEPT ![limit] = Next1[1].num[1]])

\* -ca file
CoverArt ==
  /\ At("ca")
  /\ IF option_has_value /\ Next1 \in Writable
     THEN Goes(1, [settings EXCEPT !.coverart_filename = Next1])
     ELSE Exits

\* -al seconds, of which the program makes microseconds.
Latency ==
  /\ At("al")
  /\ IF option_has_value /\ IsNumber(Next1) /\ Next1[1].num[1] \in 0 .. 10
     THEN Goes(1, [settings EXCEPT !.audiodelay = Next1[1].num[1] * 1000000])
     ELSE Exits

\* -pin [nnnn]: a configured pin is told from a random one by being 10000 more.
Pin ==
  /\ At("pin")
  /\ LET on == [settings EXCEPT !.setup_legacy_pairing = TRUE, !.require_password = TRUE]
     IN  IF ~option_has_value THEN Goes(0, on)
         ELSE IF get_value(Next1, 9999) # <<>>
         THEN Goes(1, [on EXCEPT !.pin = Next1[1].num[1] + 10000])
         ELSE Exits

\* -reg, -key and -dacp [file]: the member, and what it is without a file.
FileOptions == [reg |-> "pairing_register", key |-> "keyfile", dacp |-> "dacpfile"]
WithoutFile == [reg |-> <<>>, key |-> Text("0"), dacp |-> Text("~/.uxplay.dacp")]
FileOption(name) ==
  LET on == IF name = "reg" THEN [settings EXCEPT !.registration_list = TRUE] ELSE settings
  IN  /\ At(name)
      /\ IF ~option_has_value
         THEN Goes(0, [on EXCEPT ![FileOptions[name]] = WithoutFile[name]])
         ELSE IF Next1 \in Writable
         THEN Goes(1, [on EXCEPT ![FileOptions[name]] = Next1])
         ELSE Exits

\* -db low[:high]: the value starts with a dash.
Decibels ==
  /\ At("db")
  /\ LET num == IF HasNext /\ Next1[1].text \in {"", ":"} THEN Next1[1].num ELSE <<>>
         db == IF Len(num) = 1 THEN <<num[1], 0>> ELSE num
     IN  IF Len(db) = 2 /\ db[1] < 0 /\ (Len(num) = 2 => db[1] < db[2])
         THEN Goes(1, [settings EXCEPT !.db = db])
         ELSE Exits

RemovedNames == {"t", "rpi", "rpifb", "rpigl", "rpiwl"}
Removed == (\E name \in RemovedNames : At(name)) /\ Exits

Known ==
  FlagNames \cup DOMAIN TextOptions \cup DOMAIN ListOptions \cup DOMAIN FileOptions \cup
  {"s", "fps", "f", "r", "restrict", "async", "vsync", "p", "m", "reset", "vdmp", "admp",
   "ca", "al", "pin", "db"} \cup RemovedNames

\* Anything else is told, and left out.
Unknown ==
  /\ outcome = "parsing"
  /\ ~\E name \in Known : argv[i] = Option(name)
  /\ Goes(0, settings)

Next ==
  \/ Started \/ read_config_file
  \/ \E name \in FlagNames : Flag(name)
  \/ \E name \in DOMAIN TextOptions : TextOption(name)
  \/ \E name \in DOMAIN ListOptions : ListOption(name)
  \/ \E name \in DOMAIN FileOptions : FileOption(name)
  \/ Display \/ Fps \/ Flip \/ Restricted
  \/ Sync("async", "audio_sync", "audio_delay_alac")
  \/ Sync("vsync", "video_sync", "audio_delay_aac")
  \/ Ports \/ Mac \/ ResetLimit
  \/ Dump("vdmp", "dump_video", "video_dump_limit", "video_dumpfile_name")
  \/ Dump("admp", "dump_audio", "audio_dump_limit", "audio_dumpfile_name")
  \/ CoverArt \/ Latency \/ Pin \/ Decibels \/ Removed \/ Unknown

Spec == Init /\ [][Next]_vars

-----------------------------------------------------------------------------
\* What a line says by its own words, whatever stands around it: which values
\* belong to its option, which of them it takes, and what it then sets; for -r
\* and an unknown option the words are those of the messages (AirPlayServer.cpp
\* lines 1049 and 1430), which the parser does not follow.

IsOf(l, name) == l.args[1] = Option(name)
Values(l) == Len(l.args) - 1
Value(l) == l.args[2]
HasValue(l) == Values(l) = 1 /\ ~Dash(Value(l))
Sets(l, sets) == l.ok /\ l.sets = sets /\ l.turns = {} /\ l.adds = <<>>
One(member, value) == [m \in {member} |-> value]
Both(f, g) == [m \in DOMAIN f \cup DOMAIN g |-> IF m \in DOMAIN f THEN f[m] ELSE g[m]]
SetsOne(l, member, value) == Sets(l, One(member, value))

FlagSets == [
  nh |-> [do_append_hostname |-> FALSE], o |-> [overscanned |-> 1], a |-> [use_audio |-> FALSE],
  nc |-> [new_window_closing_behavior |-> FALSE], fs |-> [fullscreen |-> TRUE],
  avdec |-> [video_parser |-> Text("h264parse"), video_decoder |-> Text("avdec_h264"),
             video_converter |-> Text("videoconvert")],
  v4l2 |-> [video_decoder |-> Text("v4l2h264dec"), video_converter |-> Text("v4l2convert")],
  FPSdata |-> [show_client_FPS_data |-> TRUE], bt709 |-> [bt709_fix |-> TRUE],
  nohold |-> [nohold |-> 1], taper |-> [taper_volume |-> TRUE], nofreeze |-> [nofreeze |-> <<TRUE>>]]

FlagSays(l) ==
  /\ \A name \in DOMAIN FlagSets : IsOf(l, name) => Values(l) = 0 /\ Sets(l, FlagSets[name])
  /\ IsOf(l, "d") =>
       Values(l) = 0 /\ l.ok /\ l.sets = <<>> /\ l.turns = {"debug_log"} /\ l.adds = <<>>

\* The options that need a value end the program without one, or with one they
\* do not take.
TextSays(l) ==
  /\ \A name \in DOMAIN TextOptions : IsOf(l, name) =>
       IF HasValue(l) THEN SetsOne(l, TextOptions[name], Value(l)) ELSE ~l.ok
  /\ \A name \in DOMAIN ListOptions : IsOf(l, name) =>
       IF HasValue(l)
       THEN l.ok /\ l.sets = <<>> /\ l.turns = {} /\ l.adds = One(ListOptions[name], Value(l))
       ELSE ~l.ok

DisplaySays(l) ==
  /\ IsOf(l, "s") =>
       IF ~HasValue(l) \/ ~get_display_settings(Value(l)) THEN ~l.ok
       ELSE IF Value(l)[1].text = "x@"
       THEN Sets(l, [display |-> SubSeq(Value(l)[1].num, 1, 2), refresh_rate |-> Value(l)[1].num[3]])
       ELSE Sets(l, [display |-> SubSeq(Value(l)[1].num, 1, 2)])
  /\ IsOf(l, "fps") =>
       IF HasValue(l) /\ get_value(Value(l), 255) # <<>>
       THEN Sets(l, [fps |-> Value(l)[1].num[1]]) ELSE ~l.ok
  /\ IsOf(l, "f") =>
       IF HasValue(l) /\ Value(l) \in Flips THEN Sets(l, [videoflip |-> Value(l)]) ELSE ~l.ok
  /\ IsOf(l, "r") =>
       IF HasValue(l) /\ Value(l) \in {Text("R"), Text("L")}
       THEN Sets(l, [videorotate |-> Value(l)]) ELSE ~l.ok

NumberSays(l) ==
  /\ IsOf(l, "reset") =>
       IF HasValue(l) /\ get_value(Value(l), 0) # <<>>
       THEN Sets(l, [max_ntp_timeouts |-> Value(l)[1].num[1]]) ELSE ~l.ok
  /\ IsOf(l, "ca") =>
       IF HasValue(l) /\ Value(l) \in Writable
       THEN Sets(l, [coverart_filename |-> Value(l)]) ELSE ~l.ok
  /\ IsOf(l, "al") =>
       IF HasValue(l) /\ IsNumber(Value(l)) /\ Value(l)[1].num[1] \in 0 .. 10
       THEN Sets(l, [audiodelay |-> Value(l)[1].num[1] * 1000000]) ELSE ~l.ok

DecibelsSay(l) ==
  IsOf(l, "db") =>
    LET num == IF Values(l) = 1 /\ Value(l)[1].text \in {"", ":"} THEN Value(l)[1].num ELSE <<>>
    IN  IF Len(num) = 1 /\ num[1] < 0 THEN Sets(l, [db |-> <<num[1], 0>>])
        ELSE IF Len(num) = 2 /\ num[1] < 0 /\ num[1] < num[2] THEN Sets(l, [db |-> num])
        ELSE ~l.ok

\* Those of which the value may be missing.
SwitchSays(l) ==
  /\ IsOf(l, "restrict") =>
       \/ Values(l) = 0 /\ Sets(l, [restrict_clients |-> TRUE])
       \/ Values(l) = 1 /\ Value(l) = Text("no") /\ Sets(l, [restrict_clients |-> FALSE])
  /\ \A sync \in {<<"async", "audio_sync", "audio_delay_alac">>,
                  <<"vsync", "video_sync", "audio_delay_aac">>} :
       IsOf(l, sync[1]) =>
         \/ Values(l) = 0 /\ SetsOne(l, sync[2], TRUE)
         \/ Values(l) = 1 /\ Value(l) = Text("no") /\ SetsOne(l, sync[2], FALSE)
         \/ /\ Values(l) = 1 /\ IsNumber(Value(l))
            /\ IF Value(l)[1].num[1] \in -999 .. 999
               THEN Sets(l, Both(One(sync[2], TRUE), One(sync[3], Value(l)[1].num[1]))) ELSE ~l.ok

PortsSay(l) ==
  IsOf(l, "p") =>
    \/ /\ Values(l) = 0
       /\ Sets(l, [tcp |-> <<7100, 7000, 7001>>, timing |-> 7011, udp |-> <<6001, 6000>>])
    \/ HasValue(l) /\ ~l.ok /\ Value(l) \in {Text("tcp"), Text("udp")}
    \/ LET ports == get_ports(Value(l))
       IN  /\ HasValue(l) /\ Value(l) \notin {Text("tcp"), Text("udp")}
           /\ IF ports = <<>> THEN ~l.ok
              ELSE Sets(l, [tcp |-> ports, udp |-> <<ports[2], ports[3]>>])
    \/ LET ports == get_ports(l.args[3])
       IN  /\ Values(l) = 2 /\ Value(l) \in {Text("tcp"), Text("udp")}
           /\ IF ports = <<>> THEN ~l.ok
              ELSE IF Value(l) = Text("tcp") THEN Sets(l, [tcp |-> ports])
              ELSE Sets(l, [timing |-> ports[1], udp |-> <<ports[2], ports[3]>>])

DumpSays(l) ==
  \A d \in {<<"vdmp", "dump_video", "video_dump_limit", "video_dumpfile_name">>,
            <<"admp", "dump_audio", "audio_dump_limit", "audio_dumpfile_name">>} :
    IsOf(l, d[1]) =>
      LET Refused == get_value(Value(l), 0) # <<>> /\ d[1] = "vdmp" /\ Value(l)[1].num[1] = 0
      IN  \/ Values(l) = 0 /\ SetsOne(l, d[2], TRUE)
          \/ /\ HasValue(l)
             /\ IF Refused THEN ~l.ok
                ELSE IF get_value(Value(l), 0) = <<>>
                THEN Sets(l, Both(One(d[2], TRUE), One(d[4], Value(l))))
                ELSE Sets(l, Both(One(d[2], TRUE), One(d[3], Value(l)[1].num[1])))
          \/ /\ Values(l) = 2 /\ get_value(Value(l), 0) # <<>> /\ ~Dash(l.args[3])
             /\ IF Refused THEN ~l.ok
                ELSE Sets(l, Both(Both(One(d[2], TRUE), One(d[3], Value(l)[1].num[1])), One(d[4], l.args[3])))

AddressSays(l) ==
  /\ IsOf(l, "m") =>
       \/ Values(l) = 0 /\ Sets(l, [use_random_hw_addr |-> TRUE])
       \/ /\ HasValue(l)
          /\ IF Value(l) \in Macs
             THEN Sets(l, [use_random_hw_addr |-> FALSE, mac_address |-> Value(l)]) ELSE ~l.ok
  /\ IsOf(l, "pin") =>
       LET on == [setup_legacy_pairing |-> TRUE, require_password |-> TRUE]
       IN  \/ Values(l) = 0 /\ Sets(l, on)
           \/ /\ HasValue(l)
              /\ IF get_value(Value(l), 9999) # <<>>
                 THEN Sets(l, Both(on, [pin |-> Value(l)[1].num[1] + 10000])) ELSE ~l.ok

FileSays(l) ==
  \A name \in DOMAIN FileOptions : IsOf(l, name) =>
    LET on == IF name = "reg" THEN [registration_list |-> TRUE] ELSE <<>>
    IN  \/ Values(l) = 0 /\ Sets(l, Both(One(FileOptions[name], WithoutFile[name]), on))
        \/ /\ HasValue(l)
           /\ IF Value(l) \in Writable THEN Sets(l, Both(One(FileOptions[name], Value(l)), on)) ELSE ~l.ok

\* An option there is none of is said to stop the program.
IsUnknown(l) == ~\E name \in Known : IsOf(l, name)
OtherSays(l) ==
  /\ (\E name \in RemovedNames : IsOf(l, name)) => ~l.ok
  /\ IsUnknown(l) => Values(l) = 0 /\ ~l.ok

\* What texts are made of; none is empty.
Chars == [text : STRING, dash : BOOLEAN, num : Seq(Int)]
AnyText == Seq(Chars) \ {<<>>}

\* A text that a line can carry: it ends neither the quotes around it nor,
\* without them, begins any.
Carried(text) ==
  /\ text[1] = QUOTE => Contains(text, SPACE)
  /\ text[Len(text)] # BACKSLASH
  /\ \A k \in 1 .. Len(text) - 1 :
       text[k] = QUOTE /\ text[k + 1] = SPACE => k > 1 /\ text[k - 1] = BACKSLASH

\* Only ports and dumps have two values.
ArgsOf(l) ==
  /\ l.args \in Seq(AnyText)
  /\ \/ Len(l.args) \in {1, 2}
     \/ Len(l.args) = 3 /\ \E name \in {"p", "vdmp", "admp"} : IsOf(l, name)

\* An option's name is not what the parser takes for a number, a separator, a
\* space or a quote.
NameOf(l) ==
  /\ IsOf(l, l.args[1][1].text)
  /\ l.args[1][1].text \notin {"", ":", SPACE.text, QUOTE.text}

Says(l) ==
  /\ ArgsOf(l) /\ NameOf(l) /\ \A k \in 2 .. Len(l.args) : Carried(l.args[k])
  /\ FlagSays(l) /\ TextSays(l) /\ DisplaySays(l) /\ NumberSays(l) /\ DecibelsSay(l)
  /\ SwitchSays(l) /\ PortsSay(l) /\ DumpSays(l) /\ AddressSays(l) /\ FileSays(l) /\ OtherSays(l)

-----------------------------------------------------------------------------
\* What the options mean one by one, in the order they were written: each
\* sets its members, whatever stands before and behind it, and one that is
\* wrong sets none.
Meant ==
  LET After[k \in 0 .. Len(written)] ==
        IF k = 0 THEN Defaults
        ELSE IF ~written[k].ok THEN After[k - 1]
        ELSE [m \in DOMAIN Defaults |->
                IF m \in DOMAIN written[k].sets THEN written[k].sets[m]
                ELSE IF m \in written[k].turns THEN ~After[k - 1][m]
                ELSE IF m \in DOMAIN written[k].adds
                THEN Append(After[k - 1][m], written[k].adds[m])
                ELSE After[k - 1][m]]
  IN  After[Len(written)]

\* The server is configured as it was written: no option takes a value that
\* is not its own or leaves one for the next to trip over, a number below zero
\* is not taken for an option, and a file says what the same words say on the
\* command line, with or without quotes.  An option that is wrong by itself
\* ends the program, and no other does.
\* There are two exceptions.  -r is documented with R and L (AirPlayServer.cpp
\* line 1049, main.cpp line 202) but refuses these and sets the flip by the
\* letters of -f.  An unknown option does not stop the program, as is printed
\* (line 1430), but is left out.
OptionsAsWritten ==
  LET meant == Meant
      Rotations == {k \in 1 .. Len(written) : IsOf(written[k], "r")}
      Wrong == {k \in 1 .. Len(written) : ~written[k].ok}
      Turned == IF Rotations = {} THEN {} ELSE {"videoflip", "videorotate"}
  IN  /\ outcome = "done" =>
           /\ \A m \in DOMAIN Defaults \ Turned : settings[m] = meant[m]
           /\ \A k \in Wrong \ Rotations : IsUnknown(written[k])
      /\ outcome \in {"exit", "undefined"} => Wrong \cup Rotations # {}
=============================================================================
