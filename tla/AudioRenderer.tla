--------------------------- MODULE AudioRenderer ---------------------------
(***************************************************************************)
(* Where the audio goes (renderers/audio_renderer_gstreamer.c and the      *)
(* callbacks of AirPlayServer.cpp): a GStreamer pipeline for each of two   *)
(* formats, of which the one renderer points to plays.  Three threads use  *)
(* renderer without a lock: the httpd thread starts it for a SETUP and     *)
(* stops it with the last connection, the audio thread pushes buffers and  *)
(* sets the volume, and the main loop stops it when it starts over.  A     *)
(* buffer is stamped with the client's clock moved by remote_clock_offset, *)
(* which the first packet sets and whoever resets it sets to zero.         *)
(*                                                                         *)
(* Video is never rendered: nothing in the program sets use_video.         *)
(***************************************************************************)
EXTENDS Integers, FiniteSets

CONSTANTS
  Clients,        \* clients, each with one connection,
  Skew,           \* client -> how far its clock is behind ours
  Errors,         \* how far off an estimate of its time may be
  Formats,        \* compression types clients ask for
  Options,        \* how the server was started: records of
                  \*   audio_sync, video_sync, nohold, aac, alac (the plugins
                  \*   are there), audio_delay_alac, audio_delay_aac
  MAX_TIME        \* bound: times

VARIABLES
  options, now,
  open, holder,               \* open connections; the one that is served, or NoClient
  stream,                     \* <<ct>> of the running audio thread, or <<>>
  setting,                    \* the SETUP of audio under way
  destroying,                 \* connection closed but its audio thread not joined, or NoClient
  renderer,                   \* <<ct>> of the pipeline in use, or <<>>
  playing,                    \* pipelines in GST_STATE_PLAYING
  render_audio, sync, base_time,
  remote_clock_offset,
  stale,                      \* it was set for a connection that is closed
  packet,                     \* what the audio thread works on, or <<>>
  reset_loop,
  started_over,               \* the main loop stopped the renderer of this stream
  pushed,                     \* the last buffer pushed, or <<>>
  crashed                     \* who used renderer when it was NULL, or "no"

serverVars == <<open, holder, stream, setting, destroying>>
offsetVars == <<remote_clock_offset, stale>>
rendererVars == <<renderer, playing, render_audio, sync, base_time>>
vars == <<options, now, serverVars, rendererVars, offsetVars, packet,
          reset_loop, started_over, pushed, crashed>>

NoClient == 0

\* Of the four formats the source names, pipelines are built for the first
\* NFORMATS = 2: AAC-ELD and ALAC, not AAC-LC and PCM.
ELD == 8
ALAC == 2
LC == 4
Built == {ELD, ALAC}

\* Where a SETUP is: it found a renderer to "change", or none and has to "start"
\* one, or it is about to read the "base" time of the one that plays since at.
NoSetup == [step |-> "none", ct |-> 0, at |-> 0]

Init ==
  /\ options \in Options
  /\ now = 0 /\ open = {} /\ holder = NoClient /\ stream = <<>> /\ destroying = NoClient
  /\ setting = NoSetup
  /\ renderer = <<>> /\ playing = {} /\ render_audio = FALSE /\ sync = FALSE
  /\ base_time = 0 /\ remote_clock_offset = 0 /\ stale = FALSE /\ packet = <<>>
  /\ reset_loop = FALSE /\ started_over = FALSE /\ pushed = <<>> /\ crashed = "no"

Up == crashed = "no"

Tick ==
  /\ Up /\ now < MAX_TIME
  /\ now' = now + 1
  /\ UNCHANGED <<options, serverVars, rendererVars, offsetVars, packet,
                 reset_loop, started_over, pushed, crashed>>

-----------------------------------------------------------------------------
\* The renderer's operations.

\* get_renderer_type: whether this build can play the format, and whether by
\* the clock.
Plays(ct) == (ct = ELD /\ options.aac) \/ (ct = ALAC /\ options.alac)
ByTheClock(ct) ==
  IF ct = ELD THEN options.video_sync ELSE IF ct = ALAC THEN options.audio_sync ELSE sync

\* audio_renderer_stop
audio_renderer_stop ==
  /\ renderer' = <<>>
  /\ playing' = IF renderer = <<>> THEN playing ELSE playing \ {renderer[1]}
  /\ UNCHANGED <<render_audio, sync, base_time>>

-----------------------------------------------------------------------------
\* The httpd thread.  It serves nothing else while it waits for an audio thread
\* or is in the middle of a SETUP.

Serves == Up /\ destroying = NoClient /\ setting = NoSetup

\* conn_init
Connect(c) ==
  /\ Serves /\ c \notin open
  /\ open' = open \cup {c}
  /\ UNCHANGED <<options, now, setting, holder, stream, destroying, rendererVars, offsetVars,
                 packet, reset_loop, started_over, pushed, crashed>>

\* The first request of a connection: it is served, or turned away and closed,
\* or, with -nohold, takes over: the old connection is destroyed, and the
\* audio thread of the old client still runs while the offset is already reset.
Request(c) ==
  /\ Serves /\ c \in open /\ c # holder
  /\ IF holder = NoClient
     THEN holder' = c /\ UNCHANGED <<open, destroying, offsetVars, reset_loop>>
     ELSE IF ~options.nohold
     THEN open' = open \ {c} /\ UNCHANGED <<holder, destroying, offsetVars, reset_loop>>
     ELSE /\ remote_clock_offset' = 0 /\ stale' = FALSE /\ reset_loop' = TRUE
          /\ open' = open \ {holder} /\ destroying' = holder
          /\ holder' = c
  /\ UNCHANGED <<options, now, setting, stream, rendererVars, packet, started_over, pushed, crashed>>

\* raop_rtp_start_audio does nothing while its thread runs and may fail to open
\* sockets; a connection that has not set up its keys has no receiver.
raop_rtp_start_audio(ct) ==
  stream' \in {stream} \cup (IF stream = <<>> THEN {<<ct>>} ELSE {})

\* SETUP of an audio stream, the first of a connection or another one under a
\* stream that runs: audio_get_format calls audio_renderer_start, which first
\* looks whether the format has a pipeline and whether that must be changed.
\* For an unknown one it switches rendering off and leaves the pipeline alone.
Setup(c, ct) ==
  /\ Serves /\ c = holder
  /\ render_audio' = Plays(ct)
  /\ sync' = ByTheClock(ct)
  /\ IF ct \notin Built \/ renderer = <<ct>>
     THEN raop_rtp_start_audio(ct) /\ UNCHANGED setting
     ELSE /\ setting' = [ct |-> ct, at |-> 0,
                         step |-> IF renderer = <<>> THEN "start" ELSE "change"]
          /\ UNCHANGED stream
  /\ UNCHANGED <<options, now, open, holder, destroying, renderer, playing, base_time,
                 offsetVars, packet, reset_loop, started_over, pushed, crashed>>

\* What an audio thread has stamped for one pipeline is in time for no other.
Untimed == IF packet = <<>> THEN <<>> ELSE <<[packet[1] EXCEPT !.timed = FALSE]>>

\* The old pipeline is stopped, unless the main loop has taken renderer away
\* since it was looked at, and the new one plays.
SetupSwitch ==
  /\ Up /\ setting.step \in {"start", "change"}
  /\ IF setting.step = "change" /\ renderer = <<>>
     THEN crashed' = "setup" /\ UNCHANGED <<setting, renderer, playing, packet, started_over>>
     ELSE /\ playing' = {setting.ct} \cup
                        (IF renderer = <<>> THEN playing ELSE playing \ {renderer[1]})
          /\ renderer' = <<setting.ct>>
          /\ setting' = [setting EXCEPT !.step = "base", !.at = now]
          /\ packet' = Untimed
          /\ started_over' = FALSE
          /\ UNCHANGED crashed
  /\ UNCHANGED <<options, now, open, holder, stream, destroying, render_audio, sync, base_time,
                 offsetVars, reset_loop, pushed>>

\* Its base time is asked for, through renderer again; then the audio thread is
\* started.
SetupBase ==
  /\ Up /\ setting.step = "base"
  /\ IF renderer = <<>>
     THEN crashed' = "setup" /\ UNCHANGED <<setting, base_time, stream>>
     ELSE /\ base_time' = setting.at
          /\ raop_rtp_start_audio(setting.ct)
          /\ setting' = NoSetup
          /\ UNCHANGED crashed
  /\ UNCHANGED <<options, now, open, holder, destroying, renderer, playing, render_audio,
                 sync, offsetVars, packet, reset_loop, started_over, pushed>>

\* TEARDOWN of the audio stream joins its thread; the renderer goes on.
Teardown(c) ==
  /\ Serves /\ c = holder /\ stream # <<>> /\ packet = <<>>
  /\ stream' = <<>>
  /\ UNCHANGED <<options, now, setting, open, holder, destroying, rendererVars, offsetVars,
                 packet, reset_loop, started_over, pushed, crashed>>

\* conn_teardown, of the mirror stream: the main loop is told to start over,
\* whatever the audio stream does.
TeardownMirror(c) ==
  /\ Serves /\ c = holder
  /\ reset_loop' = TRUE
  /\ UNCHANGED <<options, now, serverVars, rendererVars, offsetVars, packet,
                 started_over, pushed, crashed>>

\* Slip: the offset is kept when the last connection goes.
MutOffsetAfter(left) == remote_clock_offset

OffsetAfter(left) == IF left = {} THEN 0 ELSE remote_clock_offset

\* conn_destroy: the callback first, which with the last connection stops the
\* renderer, and only then the audio thread is joined.
Close(c) ==
  /\ Serves /\ c \in open
  /\ open' = open \ {c}
  /\ remote_clock_offset' = OffsetAfter(open \ {c})
  /\ stale' = (open # {c} /\ (stale \/ (c = holder /\ remote_clock_offset # 0)))
  /\ IF open = {c} THEN audio_renderer_stop ELSE UNCHANGED rendererVars
  /\ IF c = holder THEN destroying' = c /\ holder' = NoClient ELSE UNCHANGED <<destroying, holder>>
  /\ UNCHANGED <<options, now, setting, stream, packet, reset_loop, started_over, pushed, crashed>>

\* raop_rtp_destroy
Joined ==
  /\ Up /\ destroying # NoClient /\ packet = <<>>
  /\ stream' = <<>> /\ destroying' = NoClient
  /\ UNCHANGED <<options, now, setting, open, holder, rendererVars, offsetVars, packet,
                 reset_loop, started_over, pushed, crashed>>

-----------------------------------------------------------------------------
\* The audio thread.

\* Whose stream it is: of the connection that is being destroyed, or served.
Streamer == IF destroying # NoClient THEN destroying ELSE holder

Delay(ct) ==
  IF ct = ALAC THEN options.audio_delay_alac
  ELSE IF ct \in {LC, ELD} THEN options.audio_delay_aac ELSE 0

\* audio_process: the offset is set by the first packet that finds it zero.
TakePacket ==
  /\ Up /\ stream # <<>> /\ packet = <<>>
  /\ \E e \in Errors :
       LET remote == now - Skew[Streamer]
       IN  /\ remote_clock_offset' =
                IF remote_clock_offset = 0 THEN now + e - remote ELSE remote_clock_offset
           /\ stale' = IF remote_clock_offset = 0 THEN destroying # NoClient ELSE stale
           /\ packet' = <<[ct |-> stream[1], sent |-> now, remote |-> remote, pts |-> <<>>,
                          timed |-> FALSE]>>
  /\ pushed' = <<>>
  /\ UNCHANGED <<options, now, serverVars, rendererVars, reset_loop, started_over, crashed>>

\* It is read again, and the time compared with the pipeline's, as far as the
\* check that there is a renderer.  For a connection that is being destroyed the
\* offset may be gone by then.
Stamp ==
  /\ Up /\ packet # <<>> /\ packet[1].pts = <<>>
  /\ LET time == packet[1].remote + remote_clock_offset + Delay(packet[1].ct)
     IN  packet' = IF ~render_audio \/ (sync /\ time < base_time) \/ renderer = <<>>
                   THEN <<>>
                   ELSE <<[packet[1] EXCEPT !.pts = IF sync THEN <<time - base_time>> ELSE <<0>>,
                                            !.timed = /\ sync /\ ~stale
                                                      /\ destroying = NoClient
                                                      /\ setting.step # "base"]>>
  /\ UNCHANGED <<options, now, serverVars, rendererVars, offsetVars,
                 reset_loop, started_over, pushed, crashed>>

\* The first byte of a frame tells the coded formats apart; a frame of another
\* one may begin with any byte.
Marked == {ELD, ALAC, LC}
Valid(ct) == IF ct \in Marked THEN {renderer[1] = ct} ELSE BOOLEAN

\* How long after it was sent a buffer is to be heard, without the delay that
\* was asked for; <<>> when it does not go by the clock, by an offset that is
\* stale or gone, or by the base time of another pipeline.
Late(p) == IF p.timed THEN <<p.pts[1] + base_time - p.sent - Delay(p.ct)>> ELSE <<>>

\* renderer is read again for the format and for the pipeline.
Push ==
  /\ Up /\ packet # <<>> /\ packet[1].pts # <<>>
  /\ IF renderer = <<>>
     THEN crashed' = "push" /\ UNCHANGED pushed
     ELSE /\ \E valid \in Valid(packet[1].ct) :
               pushed' = IF valid
                         THEN <<[ct |-> packet[1].ct, into |-> renderer[1], late |-> Late(packet[1])]>>
                         ELSE <<>>
          /\ UNCHANGED crashed
  /\ packet' = <<>>
  /\ UNCHANGED <<options, now, serverVars, rendererVars, offsetVars, reset_loop,
                 started_over>>

\* audio_set_volume, which looks at no pointer.
SetVolume ==
  /\ Up /\ stream # <<>> /\ packet = <<>>
  /\ crashed' = IF renderer = <<>> THEN "volume" ELSE crashed
  /\ UNCHANGED <<options, now, serverVars, rendererVars, offsetVars, packet,
                 reset_loop, started_over, pushed>>

-----------------------------------------------------------------------------
\* The main loop finds reset_loop set, at its next look: reconnect.
MainReset ==
  /\ Up /\ reset_loop
  /\ reset_loop' = FALSE
  /\ started_over' = (stream # <<>> \/ setting # NoSetup)
  /\ audio_renderer_stop
  /\ UNCHANGED <<options, now, serverVars, offsetVars, packet, pushed, crashed>>

Next ==
  \/ Tick \/ SetupSwitch \/ SetupBase \/ Joined \/ TakePacket \/ Stamp \/ Push \/ SetVolume \/ MainReset
  \/ \E c \in Clients :
       \/ Connect(c) \/ Request(c) \/ Teardown(c) \/ TeardownMirror(c) \/ Close(c)
       \/ \E ct \in Formats : Setup(c, ct)

Spec == Init /\ [][Next]_vars

-----------------------------------------------------------------------------
\* One pipeline plays, the one renderer points to; a buffer goes into the
\* pipeline of its own format, and where that goes by the clock, at the time
\* it was sent, give or take the error of the estimates and the delay that was
\* asked for.
\* A second SETUP may start another pipeline under a stream that runs: the
\* buffers of a coded format are then refused, those of a format whose frames
\* have no mark may go into it, and a buffer that is being handed over gets the
\* base time of the pipeline before (audio_renderer_gstreamer.c:227-300).
\* The time may be that of another client's clock only where the
\* offset outlives the connection that set it: another connection was open
\* when it was closed, or a last packet set it again behind the reset; and that
\* of the client's own clock where another connection takes over between the
\* two reads of the offset.
\* No renderer is found where one is needed only in three cases: the audio
\* thread's connection is being destroyed, its format has no pipeline, or the
\* main loop has started over under it or under a SETUP.
RendererFollowsTheStream ==
  /\ playing = (IF renderer = <<>> THEN {} ELSE {renderer[1]})
  /\ pushed # <<>> =>
       /\ pushed[1].into = pushed[1].ct \/ pushed[1].ct \notin Marked
       /\ pushed[1].late # <<>> => pushed[1].late[1] \in Errors
  /\ crashed # "no" =>
       destroying # NoClient \/ started_over \/ stream[1] \notin Built
=============================================================================
