# A TLA+ model of J.A.R.V.I.S.

J.A.R.V.I.S. is a voice assistant: a client records speech and sends it to a
server that transcribes it, works out what is asked and talks to Home
Assistant. The client is also an AirPlay receiver, and that receiver (C, under
`src/include/AirPlayServer`, driven by `src/src/client/AirPlayServer`) is where
most of the program's own concurrent logic is. Paths below are relative to the
repository; `lib/` stands for `include/AirPlayServer/lib/`.

## 1. Inventory

### The AirPlay receiver

| part | state | operations | talks to |
|---|---|---|---|
| main loop, `client/AirPlayServer/AirPlayServer.cpp` | `raop`, `reset_loop`, `relaunch_video`, `close_window`, `open_connections` | `restart`, `reconnect`, `main_loop`, `start_`/`stop_raop_server`; the callbacks `conn_init/destroy/reset/teardown`, `video_reset` | starts and stops httpd; receives callbacks of every other thread |
| httpd, `lib/httpd.c` | flags `running`, `joined` under a mutex; table of connections, their count and types | one thread: select, accept, receive, remove; `httpd_start/stop` from other threads | `conn_init/request/destroy` of `lib/raop.c` |
| requests, `lib/raop.c`, `lib/raop_handlers.h` | per connection: type, pairing session, pointers to the timing, audio and mirroring services | SETUP, RECORD, SET_PARAMETER, FLUSH, TEARDOWN, pairing | start, stop, destroy services; post events to the audio thread |
| audio, `lib/raop_rtp.c` | flags, a mailbox of events under a mutex, sockets, clock synchronisation | thread: events, control and data packets, playing; `set_volume`, `flush`, ..., `start_audio`, `stop`, `destroy` | buffer; renderer callbacks; reads the timing clock |
| jitter buffer, `lib/raop_buffer.c` | ring of 32 entries, 16-bit `first_seqnum`, `last_seqnum`, `is_empty` | `enqueue`, `dequeue`, `handle_resends`, `flush` | used by the audio thread only, flushed by `raop_rtp_stop` |
| timing, `lib/raop_ntp.c` | flags, ring of eight measurements, offset | thread: request, answer or time-out; conversions; `start`, `stop` | `conn_reset` after too many time-outs |
| mirroring, `lib/raop_rtp_mirror.c`, `mirror_buffer.c` | flags, the connected stream, parameter sets held back, key stream position | thread: accept, packet header, payload; `start`, `stop` | `video_process`, `conn_reset` |
| pairing, `lib/pairing.c` | per session: status, keys | setup, verify, pin, handshake, finish | called from requests |

The hard behaviours: a thread per service, the httpd thread that starts, stops
and joins them in the middle of a request, services that stop the httpd thread
when they lose the client, a main loop that restarts everything; UDP packets
lost, repeated and reordered; 16-bit arithmetic; mailboxes read outside the
lock; freed objects. What makes these parts correct: audio is played in order,
once and only in the session it belongs to; no event is lost; nothing is used
after it was closed, flushed or freed; every stop ends and leaves nothing
behind; there is one client; a lost client leads to a restart.

Around the sessions: the options of the program and a configuration file that
share one parser (`parse_arguments`); `run`, which makes logger, pipelines, the
server's address and key; `lib/dnssd.c`, which announces two services that must
name the server that listens; `lib/http_request.c`, `lib/http_response.c` and
the generated parser `lib/llhttp`, through which every request comes in pieces;
the audio renderer, one pointer that three threads use without a lock. Here
correct means: what is configured is what was written, what is announced is
served, a paired client stays paired when the program is started again, a
request is served as it was sent or refused, a buffer is played by its pipeline
and by the right clock, and the program ends in order.

### The assistant

| part | state | operations |
|---|---|---|
| `default/networkmanager` | sockets | server: a thread per client reading a request of header and body, and one transcriber under a mutex; client: connect and retry, send, receive |
| `main.cpp` | the threads of server and client | terminal, network speech, task processing |
| `server/inputhandler`, `server/taskprocessor`, `server/ml` | a queue of tasks; two classifiers with thresholds | add, poll, take, run |
| `server/HomeAssistantAPI` | one socket | request and answer |
| `default/prometheus` | counters, gauges, histograms, families, the registry | increment, observe, collect, add, remove |

Hard here: a queue and a socket shared without a lock, requests that arrive in
pieces, a socket closed under the thread that uses it, lock-free updates. Their
properties: a sound is heard whole, what was begun comes to its end, no update of
a metric is lost.

`PROJECT.json` lists every component, with those that stay out (FairPlay,
drivers, web routes, Bluetooth: vendored code or calls into a library or a
device), and every hazard at its line.

## 2. Plan

1. `OrderedStream`, `RaopBuffer`: the buffer and what it promises. *Done, proved.*
2. `RaopRtp`: the audio receiver around that buffer. *Done, proved but for
   liveness.*
3. `AirPlaySession`: connections, services and the main loop. *Done, proved but
   for liveness.*
4. `RaopMirror`: packets, parameter sets and key stream of the mirroring receiver.
   *Done, proved but for liveness.*
5. `RaopNtp`: measurements, choice of the offset, time-outs. *Done, proved but for liveness.*
   `Crypto`, `Srp`, `Pairing`: the steps of pairing and the secrets they leave.
   *Done, proved.*
6. `HttpRequest`, `Llhttp`, `HttpConnection`, `HttpResponse`: a request from its bytes to
   its answer. *Done, proved but for liveness.*
7. `Texts`, `Options`, `Startup`, `AudioRenderer`: from the options to the end of the
   program. *Done, proved.*
8. `NetworkManager`, `Assistant`, `Metrics`: the assistant. *Done, proved but for
   liveness.*

Every safety property of the passing runs but `ResponseIsWhole` is a theorem;
section 5 says from which assumptions.

## 3. What is modelled

### RaopBuffer and OrderedStream

`OrderedStream` is the promise: a window of the sender's stream, from which the
packet at the front is taken, or skipped, and to which packets are added, each
at most once; a jump ahead starts a new window. Its positions are natural
numbers. `RaopBuffer` is the code: `entries`, `first_seqnum`, `last_seqnum` and
`is_empty`, sequence numbers modulo `SEQ_RANGE`, slots modulo the ring's length.
The actions are the four functions; a packet is the stream position it carries,
with its sequence number the position modulo `SEQ_RANGE`. `WindowInv` relates
the two, and gives the refinement mapping of `ImplementsOrderedStream`.
Decryption and the bytes of a payload are left out. An arriving packet is taken
to be less than half the range away from the window, as sequence-number
arithmetic demands of any sender.

### RaopRtp

One instance of the buffer, and two processes: the thread (`thread` says where
it is in `raop_rtp_thread_udp`: `process_events`, the callbacks outside the
lock, `select`, the control socket, the data socket, dequeuing, resends,
leaving) and the RTSP side, which is the httpd thread calling `set_*`, `flush`,
`start_audio`, `stop` (in four steps: clearing `running`, joining, flushing,
marking) and `destroy`. Events are numbered, so that losing, repeating or
reordering one shows. A receive that fails is the packet length 65535 that the
unsigned `packetlen` makes of -1: a build with assertions ends, another goes on.
The clock arithmetic is left out.

### AirPlaySession

Three kinds of threads. The httpd thread's position is `httpd` together with
`work`, the rest of its pass: a sequence of jobs (accept, receive, serve a
request, stop, join and free a service, close a connection) that stands for its
call stack, since it can block in a join at any depth. A request is what it does
to services: nothing, SETUP with keys, SETUP and TEARDOWN of streams, TEARDOWN
of the session, a disconnect. A service (timing, audio, mirroring, each in
`svc` by session) is its two flags, whether it was freed, and where its thread
is; its loop may end because it was stopped, by an error, or because the client
was lost, and then it calls `conn_reset`: stop the httpd thread, join it, set
`reset_loop`. `main` walks through `restart`, `reconnect` and
`stop_raop_server`. `httpd_stop` is two steps, as its join is outside the lock.

Two things the code leaves undefined are choices here: the callbacks
`reset_callback`, `sigint_callback` and `sigterm_callback` cast the GMainLoop to
the server, so the loop may quit at any time and a signal may or may not clear
`relaunch_video` (`Quit`); a thread whose object was freed goes on as if it were
there. A call of `raop_stop` without a server (its assertion fails) and freeing
a server that a thread still uses end in `Crash`, where nothing is left; the
properties then say nothing more. That crash is reachable, and no text of the
repository denies it.

### RaopMirror

The thread, the RTSP side and the client. The client's bytes are units that know
their packet and their place in it; `recv` moves any number of them from `wire`
into `packet` or `payload` behind `readstart`, or times out, and the header that
was put together tells what the thread takes it for. So a packet mixed from two
would show. What the client meant is in the packet: its number, the parameter
sets last sent before it and their time (`sets`, `sets_time`), where in the key
stream it was encrypted (`start`); the sets a frame is to be shown with
(`Expected`) are those of its own time. `Decrypt` is `mirror_buffer_decrypt` as far as positions
go: `block` blocks of key stream used, `nextDecryptCount` units of the last one
left; a frame decrypted in step is what the client sent, one out of step may look
like anything (`LooksLike`). A client that goes may leave its last bytes unsent;
the next connection starts at a later time and with the key stream where it was.

Clients set a stream up when they have none, and send no frame shorter than the
rest of a block (`MirrorAssumption`); what the code does otherwise is not
modelled. A second SETUP after a TEARDOWN is: it gives a new key and keeps
`nextDecryptCount` (`carried`), after which nothing is in step, so
`KeyStreamInStep` is about streams that begin without a rest. Left out: the bytes
of NAL units, time conversion, the renderer's pause and resume, and `destroy` and
the meeting with the httpd thread, which are in `AirPlaySession`. Selecting on
descriptor -1 after a stop is undefined: it may time out, fail or end the process.

### RaopNtp

The timing thread, the datagrams, and the RTSP side that starts and stops it.
Times are in nanoseconds of the local clock; the client's is `THETA` ahead, and
an answer is what the client makes of a request that took some time to come and
some to be answered. Datagrams are lost, late and out of order, so that an
answer to the request before is read as that of the present one, as the code
does. `Measured` has the code's formulas and C's division; `qsort` may put
either of two equals first. A request may fail to leave at any time (`SendFails`):
the thread then sleeps, and counts nothing. `raop_ntp_stop` closes the socket under
the thread. The conversions between nanoseconds and 32.32 fixed point are left out:
what they round is far below the bounds that are stated.

### Crypto, Srp and Pairing

`Crypto` states what the callers rely on: exponentiation in a group, a hash that
is as good as its arguments, a cipher that gives back what was encrypted with
the same key at the same place. `Srp` is `lib/srp.c` over a small prime: salts,
verifiers, both public keys, the session key and the two proofs, with the length
in bytes of each number where `pairing.c` checks it. `Pairing` has one action per
request: `pair-pin-start`, the three steps of `pair-setup-pin`, `pair-setup`, the
two of `pair-verify` and the key of SETUP, each with what the client makes of the
answer. Clients are honest; the pin is shared by all connections.

### HttpRequest, Llhttp, HttpConnection and HttpResponse

A request is a sequence of units: a character, or a run of characters no node of
the parser tells apart, cut where `recv` may cut it. `Llhttp` has one operator
per node of the generated graph that looks at a character, named as the node is;
nodes that only test or set something are part of the one before. `HttpRequest`
has the callbacks, `HttpConnection` the httpd thread: pieces of any size, a parser
made with the first and thrown away with the last, the answer. A length beyond
`MAXLEN` is one beyond 64 bits. What a request means (`means`, `protocol`,
`persistent`, or that it is none) is stated with it in `MCHttp`, without a parser;
that the parser makes this of it when it comes whole (`Understood`) is an assumption
of `Server`, which has the connection as an instance, and TLC evaluates it for every
request of the run. `HttpResponse` is the response's buffer: its
`data_size` is never raised, as in the code.

### Texts, Options and MCOptions

A text is a sequence of chunks, which are characters the parser tells apart or
the numbers a text spells. `Options` has an action per option, with the code's
look at the next argument, and `read_config_file` with its loop over characters.
`Lines` are the options a user may write together with what each means by
itself; `MCOptions` has them. `Says` is the manual: for each option, which values
belong to it, which of them it takes and what it then sets, stated of the line alone,
without a parser; that every line says what it means, and that a file can carry its
values (`Carried`), is the assumption of `Server`, which has the configuration as an
instance next to the start. In two places the code does not follow the manual, and
`OptionsAsWritten` names them: `-r` takes the letters of `-f`, and an unknown option
stops nothing.

### Startup

The thread of the main loop from `run` to its end, step by step, with `pc`
where it is and `frames` the calls of `reconnect` that wait for the next one to
return; each step of `restart` may fail, and then cleans up and goes on. Other
threads reset the server, and register clients in the middle of a request. Keys,
addresses and ports the system picks are numbers not seen before. `disk` and
what clients know outlive the program, which may be killed anywhere. A client that
has shown the pin is put into the list or not as `pending_registration` happens to
be, a local variable nothing sets (`raop_handlers.h:576`); `enrolled` are those that
were put there and answered. The second of a client's two calls of `main_loop`
(`main.cpp:293-295`: `run` enters it already) is left out: it begins when the first
has returned and everything is stopped.

### AudioRenderer

The httpd thread (connections, SETUP, TEARDOWN and the close that calls back
before it joins), the audio thread in three steps (`TakePacket`, `Stamp`, `Push`)
between which the others may come, and the main loop's restart. Pipelines are built
for two of the four formats the source lists (`NFORMATS`). A SETUP takes three steps
(`Setup`, `SetupSwitch`, `SetupBase`), since it reads `renderer` three times, and may
come under a stream that runs: the pipeline is changed before the running thread
is found. `audio_set_volume` looks at no pointer, so a format without a pipeline ends
the program. Clients' clocks count from their own start: `Skew` is how far behind ours
they are. One of the two checked is ahead, so that a time that was not moved is a late
one and not one before the pipeline's start, which would be dropped. Where `renderer`
is read again after the check and is gone, the program ends.

### NetworkManager, Assistant and Metrics

`NetworkManager`: each client program connects, hands its socket to a detached
thread and leaves the scope that owns it, which closes it at any point; the
server's sessions share the transcriber. The request's header has four units, which
end where a cut makes a difference: before the length is known the answer is 400, or
`stoi` throws; a length may be cut short; and without the header's end what was read
of it counts as sound, so that a short sound is overrun and a longer one heard from
the header on (`Mixed`). `Assistant`: the console and the task thread with the deque
between them, where a push that moves the map while the other thread pops leaves the
queue broken (`Sane` no more), and nothing is promised any longer; the models' answers
are given for each sentence. `Metrics`: the compare-and-swap in its two halves, the
histogram under its mutex, families and the names they may have. These classes are made
for many threads; the program itself raises one counter, on one thread.

### Services

The timing service, pairing, the renderer, the sound service and the assistant's
tasks meet neither each other nor anything else the model has of the program.
So do answers and metrics. `Services` puts them side by side, each an instance with
variables of its own, and gives their promises names; `MCServices` gives the
constants values and adds the variable `unit`, which says which of them a behaviour
is about. `Server` and `MCServer` do the same for start, configuration and requests.

## 4. What the runs show

| run | shows | bounds |
|---|---|---|
| `buffer` | the ring stays one window of the stream, implements the ordered stream, asks for the packets of the gap and no others | a ring of 4, 12 sequence numbers and a stream of 15 packets, which wraps around: as with the code's 32 and 65536 the ring divides the range and is below half of it, and the proof covers all such values |
| `rtp` | the thread never works on closed sockets, a freed receiver or a buffer being flushed; audio stays in its session; posted events reach the renderer, the last one of a kind is never overtaken; `stop` returns | a ring of 2, 8 sequence numbers and the stream's packets across the wrap-around; any number of sessions; two posts of any kinds |
| `rtp_assert` | *violated*: `assert(result >= 0)` fails after a failed `recvfrom` | |
| `rtp_resend` | *violated*: the buffer is not back in its "initial state" after a stop | |
| `session` | one client, also while one captures the receiver; nothing survives a stop; an accepted connection has a place; one joiner; a server that is down is about to be restarted | a table of two connections: full, captured, with one removed before its turn in a pass; one session; mirroring as the only stream, since audio ends like it but never resets the server; a window that is relaunched with `nohold`, and neither |
| `session_live` | the clock outlives audio and mirroring; waits for the httpd thread end unless it waits for the waiter | one connection, all three services, with relaunch |
| `session_removal` | *violated*: a connection being removed is closed | |
| `mirror` | packets are whole, in order and taken once, whatever pieces, time-outs and reconnections; parameter sets go with their frame; the thread's socket is its own | headers of two units, payloads of none to two, two connections, one stream; blocks of one unit, since `mirror_stream` has the cipher; a new packet may begin behind the last unit of the old |
| `mirror_stream` | decryption is in step with the client; a packet is taken in spite of time-outs; a stop returns | blocks of three units and frames of two and four, which leave every rest; two streams, the second with every rest of the first |
| `mirror_flag` | *violated*: the flag `prepend_sps_pps` means that parameter sets wait | as `mirror` |
| `server` | requests are served as they were sent, refused when they are none, and always settled; options mean what was written; what is announced is served; clients stay paired; the program ends in order | each behaviour has one part. Requests: twenty-four, made to pass every part of the parser, cut at every unit, one sent right behind another. Options: every pair, in three ways of writing: what an option leaves over can only disturb the next. Startup: two starts with two resets, so that a reset follows a reset and a start a start, under every combination of address, pin, list, key file and whether files can be written; one of two clients is blocked; each step of a start may fail, and the program be killed at any |
| `services` | times are converted within half of the delay; a silent client is reported; a client with the right pin is let in and shares its secrets; the renderer follows the stream; answers are whole; sounds are heard whole but for a header in pieces; metrics add up; whoever was begun to be served is served, and a typed sentence is processed by both threads | each behaviour has one part: a ring of two and a limit of two; two pairing clients; two audio clients ten apart with the two formats, by the clock and not, a second SETUP at any point, and, without `-nohold`, PCM and a second moment; two sound clients, one with a sound that has a zero byte or is longer than what is left of a cut header; three sentences; two threads with three operations |

The parts of `server` and of `services` do not meet in the code; the first state
chooses one, and the others stay as they began.

`CHECK_DEADLOCK FALSE` is set where the system really may stop: the receiver is
destroyed, the program ends, or the threads wait for each other.

**Fairness.** Every thread is weakly fair: the operating system schedules it. In
`RaopRtp` and `AirPlaySession` the clients, the network, signals, errors and the
main loop's quitting are not fair; a thread that waits in a join has no fairness
until the other has returned. In `RaopMirror` what a client has sent, or the news
that it ended, arrives: receiving is strongly fair, since time-outs in between
disable it, and TCP retransmits. The client itself is not fair. In
`HttpConnection` bytes that were sent arrive. In `RaopNtp` the thread is fair and
datagrams arrive or are lost, neither is promised; that requests do not for ever fail
to leave an open socket is not assumed of the code but is the left side of
`SilentClientIsReported`. In `NetworkManager` connecting
is retried and the threads run; a session is strongly fair, since the transcriber's
mutex is granted in the end. In `Assistant` both threads are weakly fair, the
user is not.

### Findings

- `raop_rtp.c:621`: -1 of `recvfrom` in an unsigned passes the length checks and
  fails the assertion at 669.
- `raop_buffer.c:277`: a flush keeps the old window, so that a marker at the
  start of the next session can ask for packets of the last.
- `AirPlayServer.cpp:1821`: `conn_reset` on a service's thread joins the httpd
  thread, which may be joining that service: both wait for ever.
- `raop_rtp_mirror.c:514`: an h265 frame frees the parameter sets in front of it
  and leaves the flag that announces them.

Seen while modelling, against no text of the repository or outside what a run
can show:

- Sessions: a second "first SETUP" leaves running services without an owner
  (`raop_handlers.h:731`); a client that closes between packets leaves its
  descriptor open (`raop_rtp_mirror.c:296`); once h265 was seen no frame is shown
  until the stream is started again; a service that ended by itself is never
  joined and cannot be started again. When `raop_ntp_stop` closes the socket, the
  failing `recvfrom` counts as one more time-out, so a client that answered may be
  reported as "no longer responding" (`raop_ntp.c:314`).
- Callbacks: `raop_cbs.cls` is never set (`AirPlayServer.cpp:2247`), though every
  callback casts it to the server; the modules take it to be the server, as
  intended.
- Start: `run`'s local `server_hw_addr` hides the member, so no device id is
  announced; `raop_start`'s result is not looked at; `GET /info` before
  `raop_set_dnssd` dereferences NULL; after a reset the end of the program cleans
  up twice; a signal that comes with a reset pending starts the server again.
- Options: the ports "are distinct" by the comment at `AirPlayServer.cpp:803`, but
  the test that says so has no effect; `-r` reads the letters of `-f` and so
  refuses the R and L it is documented with (`AirPlayServer.cpp:1047-1049`,
  `main.cpp:202`; `get_videorotate`, lines 864-880, has no caller); an unknown option
  is said to stop the program and is only reported (line 1430); `-p` with a bare list
  leaves the first UDP port; `-reset` and `-p tcp` as the last option read NULL, and
  the help shows `-p tcp` without its ports and 0 as the default of `-reset`, which is
  5; a keyword of zero is refused for `-vdmp` only; a quoted empty value is dropped.
- Renderer: a compression type without a pipeline (`NFORMATS` is 2 of the four named,
  `audio_renderer_gstreamer.c:29`) leaves `renderer` NULL, and `audio_set_volume`
  (361) uses it; a second SETUP changes the pipeline under the thread that plays
  (`raop_handlers.h:848` before 852). The main loop may stop the renderer of a stream that plays;
  `conn_destroy` resets offset and renderer before the audio thread is joined, and
  does so only with the last connection. `audio_process` reads the offset twice
  (`AirPlayServer.cpp:1843` and `1847`), and `video_reset` may clear it in between:
  the packet is then played by the time of its client's clock. The invariant did not
  have this case until its proof failed at it; the run, whose clients' clocks were
  all behind, dropped such a packet for being late.
- HTTP: an RTSP request without keep-alive followed by more bytes in one piece
  closes the connection unanswered. `http_response_add_data` never sets `data_size`
  (`http_response.c:43-52`): an answer whose text is longer than the first allocation,
  as with a request's `CSeq` of some two thousand bytes that is copied into it
  (`raop.c:295`), is written beyond the end of it. `ResponseIsWhole` is about the
  answers whose text fits. Timing: a `sendto` that fails is neither counted nor
  followed by a receive (`raop_ntp.c:299-303`), so a client that went with the network
  is not reported.
- Pairing: `access_client_session_data` (`pairing.c:452`) assigns its out-parameter
  instead of what it points to, so whether a registration is pending is whatever the
  caller's variable held (`raop_handlers.h:576`), and a client that has paired may not
  be kept.
- Assistant: every typed task is processed twice, and the queue between the two threads
  has no lock (`inputhandler.cpp`); a zero byte in the first piece of a sound hides the
  bytes behind it; a header in two pieces makes `session` take header for sound, or
  write past its end (`NetworkManager.cpp:352-378`), since `npos` is not looked for;
  `std::stoi` on a bad length throws in a thread (`NetworkManager.cpp:354`); `PixelRing`'s animation locks a mutex it holds
  (`PixelRing.cpp:39`).

## 5. What is proved

For every value of the constants, under the assumptions the modules name:
`BufferAssumption` (the ring's length divides the range of sequence numbers and is
below half of it; it is stated as `Sizes`, which `RtpAssumption` asks of the
receiver's buffer), `SessionAssumption`, `MirrorAssumption` (a header is not
empty, no frame is shorter than the rest of a block), `NtpAssumption` (delays are
below that of an empty entry), `PairingAssumption` (a modulus above 1, and keys,
salts and pins that are numbers), `RendererAssumption` (times, delays and errors are
numbers), `NetworkAssumption` and `AssistantAssumption` (sounds are sequences, a
model's certainty is a number, nobody has the name of a free mutex),
`MetricsAssumption` (the bounds of a histogram's buckets increase, which its
constructor demands), `OptionsAssumption` (every line `Says` what it means) and
`RequestsAssumption` (every request is `Understood` when it comes in one piece).

- `TypeCorrect`, `WindowAlways` and `StreamImplemented` (`RaopBufferProofs`). The
  inductive invariant is `TypeOK /\ WindowInv`: `WindowInv` says for every slot
  which stream position it holds, if any. The slots of a window are distinct,
  which rests on the lemmas about remainders in `Modular`. Each step of the ring
  is then shown to be a step of the ordered stream, or to change nothing of it.
- `ResendsAlways` (`RaopBufferProofs`): the code scans from the front for the first
  slot that is filled (`LeastNumber`); with `WindowInv` each slot it scans is that of
  the next position (`ScannedSlot`), and a filled one holds it (`FilledMeansHeld`),
  so the count of numbers asked for is the gap (`GapNamed`).
- `OwnershipAlways` (`RaopRtpProofs`), with the invariant `Lifecycle`: how far a
  stop has got tells whether the thread can still be in its loop.
- `NoEventLost` (`RaopRtpProofs`), with the invariant `Mailbox`: between the
  mailbox, the events taken and those delivered nothing is missing or newer than
  it should be.
- `PlayedAlways` (`RaopRtpProofs`), an action property, with the invariant `PlayInv`:
  what the ring holds came in this session (`HoldsOnly`), and from the flush of a
  stop to the next start it holds nothing (`NothingHeld`). The theorems about the
  buffer are used through the instance `Proved`.
- `OneJoinerAlways` (`AirPlaySessionProofs`), with the invariant `JoinInv`:
  whoever waits has cleared `running` and `joined` is not set, so neither a stop
  nor a start gets past the flags meanwhile; and a service marked as joined has
  ended.
- `OneClientAlways`, `StoppedAlways` and `RoomAlways` (`AirPlaySessionProofs`),
  with the invariant `ServerInv`. Its parts: the table holds and counts its connections
  (`TableInv`); in `work` a removal comes first and ends with its close, then at
  most one capture, by a connection not yet identified, and behind it only sockets
  to accept from and connections to receive from (`WorkInv`); where the thread has returned
  no work and no connection is left, and who marks the server as joined has waited
  for that (`ThreadInv`). `WorkInv` is what makes the rest inductive: a capture
  serves its connection only when no other is of a known type, and the table could
  lose the capturing one only through a close in front of it, which is of another.
- `DownNoticedAlways` (`AirPlaySessionProofs`), with the invariant `DownInv`: the
  thread leaves its loop stopped or failed, and a server that is down and not
  marked as joined failed, or someone waits for its thread. The clause that a
  server which is down was noticed holds already while the main loop is about to
  enter its loop: without that it is not inductive.
- `ClockAlways` (`AirPlaySessionProofs`), with the invariant `ClockInv`: a connection
  points to one session, to which no other points; what it points to is there,
  unless the connection is being closed; a stream let go is to be stopped; only the
  thread being joined runs on after it was told to stop; and in the steps of a
  removal a stream is stopped before it, or its clock, is freed. Where no removal
  is ahead this is the shorter `CalmInv`, from which the other handlers start.
- `StreamOwnedAlways` (`RaopMirrorProofs`): `ThreadOwnsTheStream` is inductive as
  it stands, with the lemma `QuietStep` for the steps that only move the thread.
- `PacketsWholeAlways` (`RaopMirrorProofs`), under `MirrorAssumption`, with the
  invariant `Whole`: what is on the wire is whole packets in a row, what the thread
  holds is the beginning of the packet due, and what comes next on the wire goes on
  where that ends.
- `KeyStreamAlways` and `SetsAlways` (`RaopMirrorProofs`), the second an action
  property, with the invariant `Carried` on top of `Whole`. `StreamInv` says that what
  a client knows behind one packet is what it knows before the next, through all that
  is on the wire; so the thread's place in the key stream is where the packet due was
  encrypted (`KeyInv`, `CipherInv`), and the parameter sets it holds are those the
  client sent for that packet, or older than any frame to come (`SetsInv`,
  `ClockInv`). What a client sends after a reconnection is later than what was lost.
- `NtpTypeCorrect` and `ConvertedAlways` (`ServicesProofs`). The inductive invariant
  `Clocks` says of every answer which request and delays it was made of, of every
  entry that it is off by at most half of its delay, and of the offset in use that
  it is a fastest entry's; the arithmetic is in `AnswerMeasured`.
- `EndsInOrderAlways` (`StartupProofs`), an action property, with the invariant
  `InOrder`: before its end only a failed step has cleaned up, dnssd is there from
  its start to the announcements unless a step failed, and a start without a reset
  makes one call of `reconnect`.
- `AdvertisedAlways` (`StartupProofs`), with the invariant `Serving`: how far the
  announcements are at each step of the start (`Progress`), that what is announced
  was taken from the server as it is (`Ready`, `Announced`), that nobody asks for a
  reset before a first port is open (`Unasked`), and that a server which does not
  listen at its port failed to, or is about to be reset (`Open`). The port of a
  server that a reset starts again is the one announced because it is not 0 any
  more: that is why `Listens` speaks of resets.
- `PairedAlways` (`StartupProofs`), with `Serving` and the invariant `Pairing`: which
  key every start comes to (`StableKey`), that a running server and every client
  answered have it, and that a client that is kept is in the list before it is in the
  file, and in the file before its answer (`Registering`, `Listed`). A client the unset
  flag leaves out is answered too, and nothing is claimed of its place in the list.

- `HeardAlways` (`ServicesProofs`), with the invariant `NetInv`: what a session has read
  is a stretch of the request, what is on the wire follows it, and the two and what
  the session still waits for make up its length (`Begun`, `Flow`); it begins behind
  the header, or in it when the header was cut, and then ends before the sound does.
  Else the session never gets as much as it waits for (`Starved`), since the zero byte
  that ends a first piece only ever loses bytes.
- `PinAlways` and `SecretsAlways` (`ServicesProofs`), with the invariant `PairInv`: for
  each connection, what the step of the client says of the server's session
  (`ConnInv`), which challenge was sent (`Challenged`), and that both ends know each
  other's public keys (`Shaken`). Why the two agree is arithmetic: `Power` is a
  recursive function, its laws are proved by induction (`EveryNumber`, `PowerOfSum`,
  `PowerOfPower`), the shared secret of the verification is `PowersCommute`, and that
  of the pin is `SharedNumber`, the identity SRP-6a rests on. Hash, cipher and
  signature are what `Crypto` says they are.
- `RendererAlways` (`ServicesProofs`), with the invariant `RendererInv`: a stream of a
  format that has a pipeline, and a SETUP past its first look, have a renderer, unless
  the connection goes or the main loop started over (`PipelineInv`); an offset that is
  neither zero nor stale is that of the connection served, and there is none such while
  a connection is destroyed (`OffsetInv`); a packet on its way belongs to the stream that
  runs, and its time is right as long as no other pipeline was started behind its stamp
  (`PacketInv`).

- `MetricsAlways` (`ServicesProofs`), with the invariant `MetricsInv`: names of families
  are distinct and labels of a metric are not constant ones (`RegistryInv`), the gauge
  is what was added to it (`GaugeInv`: an exchange that succeeds found the value it was
  computed from), and the sum of a histogram is ahead of its complete observations by
  what the owner of the mutex is observing (`ObservedInv`). What `Collect` returns is
  then a fact about sums: a bucket's cumulative count is the number of values not above
  its bound, since the bounds increase (`BucketOfValue`, `SumsCount`).
- `ServicesTyped` (`ServicesProofs`): the types of all services with a type invariant,
  each relative to its service's inductive invariant above; pairing needs in addition
  that the keys a session has came in pairs (`PairKinds`).
- `OptionsAlways` (`StartupProofs`), with the invariant `OptionsInv`: the parser is at the
  first argument of an option, or behind the last, and the settings are those that the
  options in front of it mean one by one (`Told`), to a parser that hears `-r` as `-f`
  and passes over what it does not know (`Heard`). Three groups of lemmas carry it.
  One lemma per kind of option (`GoesPast` to `UnknownPasses`, together `LinePasses`)
  says that the parser goes past the option as its own words mean, provided that what
  stands behind it, if anything, begins with a name: the options whose value may be
  missing look there. A second group says where each option's arguments are when
  options are put behind one another (`Flattens`, `JoinedStays`, `JoinedHolds`). The
  third is about files: what `read_config_file` makes of the line that was written is
  the option's arguments again (`ReadBack`), one character after the other (`ItemsRead`),
  where a value that is quoted ends at its own closing quote and nowhere before
  (`QuotedRead`) and one that is not at its space (`PlainRead`).

- `ServedAlways` (`HttpConnectionProofs`), under `RequestsAssumption`: each request by itself is
  understood when it comes in one piece, is complete with its last byte and not before,
  and, if it is none, never. That is what the grammar in `Llhttp` makes of one text,
  and TLC looks at each text of the run. What the theorem adds is everything the wire
  and the client do: for any number of such requests, sent in any order, each cut
  anywhere, with a connection lost in any place, what is served is what was sent. The
  argument is a simulation between two runs of the parser, one over the pieces and one
  over the whole request. `Near` says how they agree: in all but buffer, place, the
  beginning of the span and what of a span has been handed over, and what was handed
  over is what the other will hand over (`Same`, `After`). The lemmas `NodeReached` and
  `AbreastStep` take this through every node of the generated graph (`NodeIs`) and every
  callback, `PieceTaken` through a piece, and `BehindIsRefused` says that a piece that
  goes on into the next request ends in an error, since its parser is closed. One field
  the two do not agree on: `on_url` copies the protocol from where the URL's
  piece ends, and reads what is in the buffer there (`ProtocolUnits`, `Stale`). So
  `ServedAsSent` speaks of the protocol of a request whose first line came in one
  piece, and the simulation carries a set of protocols, which is narrowed when that
  line has ended (`RestNarrows`). The invariant is `ConnInv`: what is on the wire is
  what the parser has not read of the first request, and the second one behind it.

Only model-checked: `ResponseIsWhole`; liveness (`StopReturns`, `EventsReachTheRenderer`,
`JoinsEnd`, `PacketsAreTaken`, `SilentClientIsReported`, `RequestsAreSettled`,
`ServicesServe`), which the prover does not reach; and what is an assumption of a
theorem about data, and holds of the values the runs have: `RequestsAssumption` for
the requests of `MCHttp` and `OptionsAssumption` for the options of `MCOptions`.

## 6. Not modelled

Property lists and what handlers put into them, metadata, cover art and
progress (`process_metadata`: wording); FairPlay; time stamps and the playout
clock of the audio receiver; the dump files; the UDP half of `NetworkManager`,
which nothing calls; the video renderer, which is never reached since nothing
sets `use_video`; summaries and their quantile sketches, which no part of the
program makes; tokenisation and inference, which belong to TFLite and
whisper.cpp; web routes, Bluetooth, drivers and lights, which are calls into
libraries and devices.
