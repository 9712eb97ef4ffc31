----------------------------- MODULE MCOptions -----------------------------
(***************************************************************************)
(* What a user may write, for the model checker: every option in each of   *)
(* its forms, values at the ends of their ranges, one with a space and a   *)
(* quote in it, and options that are wrong by themselves.  -r means what   *)
(* its documentation says, a rotation by R or L.                           *)
(***************************************************************************)
EXTENDS Texts, TLC

LOCAL Plain(name, sets) ==
  [args |-> <<Option(name)>>, sets |-> sets, adds |-> <<>>, turns |-> {}, ok |-> TRUE]
LOCAL With(name, text, sets) == [Plain(name, sets) EXCEPT !.args = Append(@, text)]
LOCAL With2(name, text, next, sets) == [With(name, text, sets) EXCEPT !.args = Append(@, next)]
LOCAL Wrong(args) == [Plain("", <<>>) EXCEPT !.args = args, !.ok = FALSE]

LOCAL TV == <<Chunk("My"), SPACE, Chunk("TV"), QUOTE, Chunk("s")>>
LOCAL FILE == Text("/tmp/f")
LOCAL MAC == Text("88:88:88:88:88:88")
MCWritable == {FILE}
MCMacs == {MAC}

\* An option there is none of.
MCNoLine == Wrong(<<Option("rest")>>)

MCLines == {
  Plain("nh", "do_append_hostname" :> FALSE), Plain("o", "overscanned" :> 1),
  Plain("a", "use_audio" :> FALSE), [Plain("d", <<>>) EXCEPT !.turns = {"debug_log"}],
  Plain("nc", "new_window_closing_behavior" :> FALSE),
  Plain("avdec", "video_parser" :> Text("h264parse") @@ "video_decoder" :> Text("avdec_h264")
                 @@ "video_converter" :> Text("videoconvert")),
  Plain("v4l2", "video_decoder" :> Text("v4l2h264dec") @@ "video_converter" :> Text("v4l2convert")),
  Plain("fs", "fullscreen" :> TRUE), Plain("FPSdata", "show_client_FPS_data" :> TRUE),
  Plain("bt709", "bt709_fix" :> TRUE), Plain("nohold", "nohold" :> 1),
  Plain("taper", "taper_volume" :> TRUE), Plain("nofreeze", "nofreeze" :> <<TRUE>>),
  With("n", TV, "server_name" :> TV), With("vs", Text("x"), "videosink" :> Text("x")),
  [With("allow", Text("id"), <<>>) EXCEPT !.adds = "allowed" :> Text("id")],
  With("s", Numbers("x", <<1920, 1080>>), "display" :> <<1920, 1080>>),
  With("s", Numbers("x@", <<1280, 720, 255>>), "display" :> <<1280, 720>> @@ "refresh_rate" :> 255),
  With("fps", Number(255), "fps" :> 255), Wrong(<<Option("fps"), Number(256)>>),
  With("f", Text("H"), "videoflip" :> Text("H")), Wrong(<<Option("f"), Text("R")>>),
  With("r", Text("R"), "videorotate" :> Text("R")), Wrong(<<Option("r"), Text("H")>>),
  Plain("restrict", "restrict_clients" :> TRUE),
  With("restrict", Text("no"), "restrict_clients" :> FALSE),
  Plain("async", "audio_sync" :> TRUE), With("async", Text("no"), "audio_sync" :> FALSE),
  With("vsync", Number(-20), "video_sync" :> TRUE @@ "audio_delay_aac" :> -20),
  Wrong(<<Option("vsync"), Number(1000)>>),
  Plain("p", "tcp" :> <<7100, 7000, 7001>> @@ "timing" :> 7011 @@ "udp" :> <<6001, 6000>>),
  With("p", Number(5000), "tcp" :> <<5000, 5001, 5002>> @@ "udp" :> <<5001, 5002>>),
  With2("p", Text("tcp"), Number(65533), "tcp" :> <<65533, 65534, 65535>>),
  With2("p", Text("udp"), Numbers(",", <<2000, 1024>>), "timing" :> 2000 @@ "udp" :> <<1024, 1025>>),
  Wrong(<<Option("p"), Text("tcp")>>), Wrong(<<Option("p"), Number(65534)>>),
  Plain("m", "use_random_hw_addr" :> TRUE),
  With("m", MAC, "use_random_hw_addr" :> FALSE @@ "mac_address" :> MAC),
  With("reset", Number(0), "max_ntp_timeouts" :> 0), Wrong(<<Option("reset")>>),
  Plain("vdmp", "dump_video" :> TRUE),
  With("vdmp", FILE, "dump_video" :> TRUE @@ "video_dumpfile_name" :> FILE),
  With2("vdmp", Number(3), FILE,
        "dump_video" :> TRUE @@ "video_dump_limit" :> 3 @@ "video_dumpfile_name" :> FILE),
  Wrong(<<Option("vdmp"), Number(0)>>),
  With("admp", Number(3), "dump_audio" :> TRUE @@ "audio_dump_limit" :> 3),
  With("ca", FILE, "coverart_filename" :> FILE), With("al", Number(2), "audiodelay" :> 2000000),
  Plain("pin", "setup_legacy_pairing" :> TRUE @@ "require_password" :> TRUE),
  With("pin", Number(1234), "setup_legacy_pairing" :> TRUE @@ "require_password" :> TRUE @@ "pin" :> 11234),
  Plain("reg", "registration_list" :> TRUE @@ "pairing_register" :> <<>>),
  With("key", FILE, "keyfile" :> FILE), Plain("key", "keyfile" :> Text("0")),
  Plain("dacp", "dacpfile" :> Text("~/.uxplay.dacp")),
  With("db", Number(-20), "db" :> <<-20, 0>>), With("db", Numbers(":", <<-20, 10>>), "db" :> <<-20, 10>>),
  Wrong(<<Option("t")>>), MCNoLine
}
=============================================================================
