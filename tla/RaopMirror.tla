----------------------------- MODULE RaopMirror -----------------------------
(***************************************************************************)
(* The AirPlay mirroring receiver (lib/raop_rtp_mirror.c) and the          *)
(* decryption of its frames (lib/mirror_buffer.c): a thread that accepts a *)
(* TCP client, puts packets together from whatever pieces recv returns,    *)
(* holds parameter sets back for the frame they belong to and decrypts     *)
(* frames with a key stream that runs on from frame to frame; the RTSP     *)
(* side that sets streams up and stops them; and the client.               *)
(*                                                                         *)
(* A byte is a unit: the packet it belongs to and its place there.  The    *)
(* thread decodes the size, type and time of a packet from the header it   *)
(* holds, whatever units that header was filled with.                      *)
(***************************************************************************)
EXTENDS Integers, Sequences

CONSTANTS
  HEADER,                      \* units of a header (128 bytes)
  BLOCK,                       \* units of a block of the cipher (16 bytes)
  FrameSizes, OtherSizes,      \* payloads of frames, and of other packets
  WINDOW,                      \* units under way before a new packet is begun
  MaxTime, MaxSetups           \* bounds on the client's clock, and on SETUPs

\* mirror_buffer_decrypt reads nextDecryptCount bytes of every frame; clients
\* send no frame shorter than that.
ASSUME MirrorAssumption ==
  /\ {HEADER, BLOCK, WINDOW, MaxTime, MaxSetups} \subseteq Nat \ {0}
  /\ OtherSizes \subseteq Nat
  /\ FrameSizes \subseteq Nat
  /\ \A size \in FrameSizes : size >= BLOCK - 1

VARIABLES
  running, joined,             \* the flags guarded by run_mutex
  data_sock,                   \* mirror_data_sock is open
  rtsp,                        \* where the RTSP side is in raop_rtp_mirror_stop
  thread,                      \* where raop_rtp_mirror_thread is
  stream_fd,                   \* it has accepted a client
  packet, payload,             \* its buffers for the header and the payload
  allocated,                   \* payload # NULL
  readstart,                   \* how much of the buffer in turn is filled
  sps_pps,                     \* the parameter sets it holds, NoSets for NULL
  prepend_sps_pps,             \* they go in front of the next frame
  ntp_timestamp_nal,           \* their time
  h265_video_detected,
  conn_reset,
  block, nextDecryptCount,     \* blocks of key stream used, rest of the last one
  conn,                        \* the client's end of the connection
  wire,                        \* units under way on the connection
  client,                      \* what the client remembers
  setups,                      \* number of SETUPs
  carried,                     \* nextDecryptCount when the stream was set up
  gap,                         \* frames were lost since with a connection
  due                          \* number of the packet to be taken next

flags == <<running, joined, data_sock>>
buffers == <<packet, payload, allocated, readstart>>
sets == <<sps_pps, prepend_sps_pps, ntp_timestamp_nal, h265_video_detected>>
cipher == <<block, nextDecryptCount>>
network == <<conn, wire>>
history == <<setups, carried, gap, due>>
vars == <<flags, rtsp, thread, stream_fd, buffers, sets, conn_reset, cipher,
          network, client, history>>

IDS == 3                       \* packets are numbered modulo IDS
KEYSTREAM == 2 * BLOCK         \* positions in the key stream modulo KEYSTREAM
NoSets == IDS
NoTime == 0

Types == {"h264", "h265", "sets", "other"}

\* A packet knows where in the key stream the client was when it sent it, and
\* the parameter sets, with their time, it had sent for the next frame.
NoPacket == [id |-> 0, type |-> "none", size |-> 0, time |-> NoTime,
             start |-> 0, sets |-> NoSets, sets_time |-> NoTime]

Frame(p) == p.type \in {"h264", "h265"}

Unit(p, i) == [of |-> p, at |-> i]

NoUnit == Unit(NoPacket, 0)

\* A packet is sent as HEADER + size units.
Units(p) == [i \in 1 .. HEADER + p.size |-> Unit(p, i - 1)]

NoHeader == [i \in 0 .. HEADER - 1 |-> NoUnit]

NoPayload == [i \in 0 .. -1 |-> NoUnit]

\* What the thread takes the header in `packet' to be the header of.
Current == packet[0].of

Working == {"check", "select", "header", "payload", "dispatch"}

Init ==
  /\ running = FALSE /\ joined = TRUE /\ data_sock = FALSE
  /\ rtsp = "idle" /\ thread = "none" /\ stream_fd = FALSE
  /\ packet = NoHeader /\ payload = NoPayload
  /\ allocated = FALSE /\ readstart = 0
  /\ sps_pps = NoSets /\ prepend_sps_pps = FALSE
  /\ ntp_timestamp_nal = NoTime /\ h265_video_detected = FALSE
  /\ conn_reset = FALSE
  /\ block = 0 /\ nextDecryptCount = 0
  /\ conn = "none" /\ wire = <<>>
  /\ client = [id |-> 0, clock |-> NoTime, sent |-> 0,
               sets |-> NoSets, sets_time |-> NoTime]
  /\ setups = 0 /\ carried = 0 /\ gap = FALSE /\ due = 0

-----------------------------------------------------------------------------
(* The RTSP side.                                                          *)

\* A failed assertion, or its like, has ended the process.
Idle == rtsp = "idle" /\ thread # "aborted"

\* raop_rtp_mirror_start: a socket is opened and a thread created, whose local
\* variables start afresh; nothing happens when a thread runs, or was never
\* joined, or when the socket cannot be opened.
start ==
  /\ running' = TRUE /\ joined' = FALSE /\ data_sock' = TRUE
  /\ thread' = "check" /\ stream_fd' = FALSE
  /\ packet' = NoHeader /\ payload' = NoPayload
  /\ allocated' = FALSE /\ readstart' = 0
  /\ sps_pps' = NoSets /\ prepend_sps_pps' = FALSE
  /\ ntp_timestamp_nal' = NoTime /\ h265_video_detected' = FALSE
  /\ conn_reset' = FALSE

\* SETUP of a mirroring stream: a new key, which both sides use from its first
\* block on, but not a new nextDecryptCount.  Clients set a stream up when
\* they have none.
SetUp ==
  /\ Idle /\ ~running /\ setups < MaxSetups
  /\ setups' = setups + 1
  /\ block' = 0 /\ carried' = nextDecryptCount
  /\ client' = [client EXCEPT !.sent = 0] /\ gap' = FALSE
  /\ \/ joined /\ start
     \/ UNCHANGED <<flags, thread, stream_fd, buffers, sets, conn_reset>>
  /\ UNCHANGED <<rtsp, nextDecryptCount, network, due>>

StopBegin ==
  /\ Idle /\ running /\ ~joined
  /\ running' = FALSE /\ rtsp' = "close"
  /\ UNCHANGED <<joined, data_sock, thread, stream_fd, buffers, sets, conn_reset,
                 cipher, network, client, history>>

Disconnected == conn' = "none" /\ wire' = <<>>

\* Without run_mutex.  A client that was not accepted yet loses its connection.
StopClose ==
  /\ rtsp = "close" /\ rtsp' = "join"
  /\ data_sock' = FALSE
  /\ IF stream_fd THEN UNCHANGED network ELSE Disconnected
  /\ UNCHANGED <<running, joined, thread, stream_fd, buffers, sets, conn_reset,
                 cipher, client, history>>

\* Slip: the thread is not joined.
MutStopJoin ==
  /\ rtsp = "join" /\ rtsp' = "idle"
  /\ joined' = TRUE
  /\ UNCHANGED <<running, data_sock, thread, stream_fd, buffers, sets, conn_reset,
                 cipher, network, client, history>>

StopJoin ==
  /\ rtsp = "join" /\ rtsp' = "idle"
  /\ thread = "none"
  /\ joined' = TRUE
  /\ UNCHANGED <<running, data_sock, thread, stream_fd, buffers, sets, conn_reset,
                 cipher, network, client, history>>

RtspThread == SetUp \/ StopBegin \/ StopClose \/ StopJoin

-----------------------------------------------------------------------------
(* raop_rtp_mirror_thread.                                                 *)

GoTo(from, to) == thread = from /\ thread' = to

\* Slip: the thread does not look at the flag while it has a client.
MutCheck ==
  /\ GoTo("check", IF running \/ stream_fd THEN "select" ELSE "leaving")
  /\ UNCHANGED <<flags, rtsp, stream_fd, buffers, sets, conn_reset, cipher,
                 network, client, history>>

Check ==
  /\ GoTo("check", IF running THEN "select" ELSE "leaving")
  /\ UNCHANGED <<flags, rtsp, stream_fd, buffers, sets, conn_reset, cipher,
                 network, client, history>>

\* select times out after 5 ms, or fails, as accept and setsockopt may.
SelectNothing ==
  /\ \E to \in {"check", "leaving"} : GoTo("select", to)
  /\ UNCHANGED <<flags, rtsp, stream_fd, buffers, sets, conn_reset, cipher,
                 network, client, history>>

\* After StopClose the thread may put descriptor -1 in its set, which is
\* undefined; C libraries that check it end the process.
SelectClosed ==
  /\ ~stream_fd /\ ~data_sock
  /\ GoTo("select", "aborted")
  /\ UNCHANGED <<flags, rtsp, stream_fd, buffers, sets, conn_reset, cipher,
                 network, client, history>>

\* Slip: the new client's header is put behind what the old one left.
MutAccept ==
  /\ ~stream_fd /\ data_sock /\ conn # "none"
  /\ GoTo("select", "check")
  /\ stream_fd' = TRUE
  /\ UNCHANGED <<flags, rtsp, buffers, sets, conn_reset,
                 cipher, network, client, history>>

Accept ==
  /\ ~stream_fd /\ data_sock /\ conn # "none"
  /\ GoTo("select", "check")
  /\ stream_fd' = TRUE /\ readstart' = 0
  /\ UNCHANGED <<flags, rtsp, packet, payload, allocated, sets, conn_reset,
                 cipher, network, client, history>>

\* The client closed its end, or the connection failed, and all it sent has
\* been read.
Ended(how) == wire = <<>> /\ conn = how

Readable ==
  /\ stream_fd /\ (wire # <<>> \/ conn # "open")
  /\ GoTo("select", IF allocated THEN "payload" ELSE "header")
  /\ UNCHANGED <<flags, rtsp, stream_fd, buffers, sets, conn_reset, cipher,
                 network, client, history>>

\* recv puts n units behind those that are there.
Fill(buf, n) ==
  [i \in DOMAIN buf |-> IF i \in readstart .. readstart + n - 1
                        THEN wire[i - readstart + 1] ELSE buf[i]]

Receive(n) == n <= Len(wire) /\ wire' = SubSeq(wire, n + 1, Len(wire))

RecvHeaderPart(n) ==
  /\ thread = "header" /\ readstart + n < HEADER
  /\ Receive(n)
  /\ packet' = Fill(packet, n) /\ readstart' = readstart + n
  /\ UNCHANGED <<flags, rtsp, thread, stream_fd, payload, allocated, sets, conn_reset,
                 cipher, conn, client, history>>

\* The header is complete: it says how large a payload to make room for.
RecvHeaderRest ==
  /\ thread = "header"
  /\ Receive(HEADER - readstart)
  /\ packet' = Fill(packet, HEADER - readstart)
  /\ allocated' = TRUE /\ readstart' = 0
  /\ payload' = [i \in 0 .. packet'[0].of.size - 1 |-> NoUnit]
  /\ thread' = IF payload' = NoPayload THEN "dispatch" ELSE "payload"
  /\ UNCHANGED <<flags, rtsp, stream_fd, sets, conn_reset, cipher, conn, client, history>>

RecvPayload(n) ==
  /\ readstart + n <= Current.size
  /\ GoTo("payload", IF readstart + n = Current.size THEN "dispatch" ELSE "payload")
  /\ Receive(n)
  /\ payload' = Fill(payload, n) /\ readstart' = readstart + n
  /\ UNCHANGED <<flags, rtsp, stream_fd, packet, allocated, sets, conn_reset, cipher,
                 conn, client, history>>

\* Slip: after a time-out the packet is begun anew.
MutRecvTimeout ==
  /\ \E from \in {"header", "payload"} : GoTo(from, "check")
  /\ wire # <<>> \/ conn = "open"
  /\ readstart' = 0
  /\ UNCHANGED <<flags, rtsp, stream_fd, packet, payload, allocated, sets, conn_reset,
                 cipher, network, client, history>>

\* recv times out after 5 ms: what was read stays where it is.
RecvTimeout ==
  /\ \E from \in {"header", "payload"} : GoTo(from, "check")
  /\ wire # <<>> \/ conn = "open"
  /\ UNCHANGED <<flags, rtsp, stream_fd, buffers, sets, conn_reset, cipher,
                 network, client, history>>

\* Between packets, or in a header, the thread goes on to wait for a client.
RecvClosedInHeader ==
  /\ GoTo("header", "check")
  /\ Ended("closed") /\ Disconnected
  /\ stream_fd' = FALSE
  /\ UNCHANGED <<flags, rtsp, buffers, sets, conn_reset, cipher, client, history>>

RecvClosedInPayload ==
  /\ GoTo("payload", "leaving")
  /\ Ended("closed")
  /\ UNCHANGED <<flags, rtsp, stream_fd, buffers, sets, conn_reset, cipher,
                 network, client, history>>

RecvFails ==
  /\ \E from \in {"header", "payload"} : GoTo(from, "leaving")
  /\ Ended("reset") \/ Ended("timedout")
  /\ conn_reset' = (conn = "reset")
  /\ UNCHANGED <<flags, rtsp, stream_fd, buffers, sets, cipher, network, client, history>>

\* The packet is whole: what its type says is done, then the buffers are
\* cleared for the next one.
EndOfPacket ==
  /\ GoTo("dispatch", "check")
  /\ packet' = NoHeader /\ payload' = NoPayload
  /\ allocated' = FALSE /\ readstart' = 0
  /\ due' = (due + 1) % IDS
  /\ UNCHANGED <<flags, rtsp, stream_fd, conn_reset, network, client,
                 setups, carried, gap>>

\* A streaming report (0x05, or 0x02 of the old protocol), a packet of unknown
\* type, or parameter sets without payload.
DispatchOther ==
  /\ Current.type \in {"sets", "other"}
  /\ Current.type = "sets" => Current.size = 0
  /\ EndOfPacket
  /\ UNCHANGED <<sets, cipher>>

\* Parameter sets (0x01) replace those that wait.
DispatchSets ==
  /\ Current.type = "sets" /\ Current.size > 0
  /\ EndOfPacket
  /\ sps_pps' = payload[0].of.id /\ prepend_sps_pps' = TRUE
  /\ ntp_timestamp_nal' = Current.time
  /\ UNCHANGED <<h265_video_detected, cipher>>

\* Blocks that n units take, the last one only begun when they do not fill it.
Blocks(n) == (n + BLOCK - 1) \div BLOCK

\* Slip: the rest of the last block is taken for unused.
MutDecrypt ==
  /\ block' = (block + Blocks(Current.size)) % 2
  /\ nextDecryptCount' = Blocks(Current.size) * BLOCK - Current.size

\* mirror_buffer_decrypt: nextDecryptCount units come off the block begun with
\* the last frame, whole blocks follow, and a block is begun for the rest.
Decrypt ==
  LET fresh == Current.size - nextDecryptCount
  IN  /\ block' = (block + Blocks(fresh)) % 2
      /\ nextDecryptCount' = Blocks(fresh) * BLOCK - fresh

\* The receiver is where the client was when it encrypted the frame.
InStep == Current.start = (KEYSTREAM + block * BLOCK - nextDecryptCount) % KEYSTREAM

\* Slip: the sets that wait are put in front of any frame.
MutSetsApply == prepend_sps_pps

\* Sets of another time than the frame are discarded.
SetsApply == prepend_sps_pps /\ ntp_timestamp_nal = Current.time

\* What is put in front of the frame.
Prepended == IF SetsApply THEN sps_pps ELSE NoSets

\* The flag is set and the sets are gone: assert(sps_pps) fails, or memcpy is
\* given a null pointer.
FrameAborts ==
  /\ Frame(Current) /\ SetsApply /\ sps_pps = NoSets
  /\ GoTo("dispatch", "aborted")
  /\ UNCHANGED <<flags, rtsp, stream_fd, buffers, sets, conn_reset, cipher,
                 network, client, history>>

\* What the NAL units of the decrypted frame look like: a frame that was
\* decrypted out of step may look like anything.
LooksLike(codec) == InStep => Current.type = codec

\* Once h265 was seen, no frame is handed on.  The sets that were to go in
\* front of the frame are freed with it, the flag stays.
FrameDropped ==
  /\ Frame(Current) /\ (SetsApply => sps_pps # NoSets)
  /\ h265_video_detected \/ LooksLike("h265")
  /\ EndOfPacket /\ Decrypt
  /\ h265_video_detected' = TRUE
  /\ sps_pps' = IF prepend_sps_pps THEN NoSets ELSE sps_pps
  /\ prepend_sps_pps' = SetsApply
  /\ UNCHANGED ntp_timestamp_nal

\* video_process gets the frame, behind what is Prepended.
FrameShown ==
  /\ Frame(Current) /\ (SetsApply => sps_pps # NoSets)
  /\ ~h265_video_detected /\ LooksLike("h264")
  /\ EndOfPacket /\ Decrypt
  /\ sps_pps' = IF prepend_sps_pps THEN NoSets ELSE sps_pps
  /\ prepend_sps_pps' = FALSE
  /\ UNCHANGED <<ntp_timestamp_nal, h265_video_detected>>

Dispatch == DispatchOther \/ DispatchSets \/ FrameAborts \/ FrameDropped \/ FrameShown

\* Under run_mutex; before it the stream is closed.
Leave ==
  /\ GoTo("leaving", IF conn_reset THEN "conn_reset" ELSE "none")
  /\ running' = FALSE
  /\ stream_fd' = FALSE
  /\ IF stream_fd THEN Disconnected ELSE UNCHANGED network
  /\ UNCHANGED <<joined, data_sock, rtsp, buffers, sets, conn_reset, cipher, client, history>>

\* The callback conn_reset, which is that of AirPlaySession.
ReportReset ==
  /\ GoTo("conn_reset", "none")
  /\ UNCHANGED <<flags, rtsp, stream_fd, buffers, sets, conn_reset, cipher,
                 network, client, history>>

Receiving ==
  \/ \E n \in 1 .. HEADER : RecvHeaderPart(n)
  \/ \E n \in 1 .. Len(wire) : RecvPayload(n)
  \/ RecvHeaderRest \/ RecvClosedInHeader \/ RecvClosedInPayload \/ RecvFails

Thread ==
  \/ Check \/ SelectNothing \/ SelectClosed \/ Accept \/ Readable
  \/ Receiving \/ RecvTimeout
  \/ Dispatch \/ Leave \/ ReportReset

-----------------------------------------------------------------------------
(* The client.                                                             *)

clientless == <<flags, rtsp, thread, stream_fd, buffers, sets, conn_reset, cipher>>

\* A new connection begins at a later time; the key stream runs on.  What is
\* sent to a thread that has ended is never read.
Connect ==
  /\ data_sock /\ thread # "none" /\ conn = "none" /\ client.clock < MaxTime
  /\ conn' = "open" /\ wire' = <<>>
  /\ client' = [client EXCEPT !.clock = @ + 1, !.sets = NoSets]
  /\ due' = client.id
  /\ UNCHANGED <<clientless, setups, carried, gap>>

\* The client's next packet: frames are encrypted one behind the other.
NextPacket(type, size, time) ==
  [id |-> client.id, type |-> type, size |-> size, time |-> time,
   start |-> client.sent, sets |-> client.sets, sets_time |-> client.sets_time]

\* Its time is never less than that of the one before; reports have none.
Times(type) ==
  IF type = "other" THEN {NoTime} ELSE {client.clock, client.clock + 1} \cap 0 .. MaxTime

Sizes(type) == IF type \in {"h264", "h265"} THEN FrameSizes ELSE OtherSizes

\* Sets are meant for the next frame, if that has their time.
Send(p) ==
  /\ conn = "open" /\ Len(wire) < WINDOW
  /\ wire' = wire \o Units(p)
  /\ client' = [client EXCEPT
       !.id = (@ + 1) % IDS,
       !.clock = IF p.type = "other" THEN @ ELSE p.time,
       !.sent = IF Frame(p) THEN (@ + p.size) % KEYSTREAM ELSE @,
       !.sets = IF Frame(p) THEN NoSets
                ELSE IF p.type = "sets" /\ p.size > 0 THEN p.id ELSE @,
       !.sets_time = IF p.type = "sets" /\ p.size > 0 THEN p.time ELSE @]
  /\ UNCHANGED <<clientless, conn, history>>

\* The client closes its end, resets the connection or is not heard of any
\* more; the last of what it sent may not arrive.
End(how, n) ==
  /\ conn = "open" /\ conn' = how
  /\ wire' = SubSeq(wire, 1, n)
  /\ gap' = (gap \/ \E i \in n + 1 .. Len(wire) : Frame(wire[i].of))
  /\ UNCHANGED <<clientless, client, setups, carried, due>>

Client ==
  \/ Connect
  \/ \E type \in Types : \E size \in Sizes(type), time \in Times(type) :
       Send(NextPacket(type, size, time))
  \/ \E how \in {"closed", "reset", "timedout"}, n \in 0 .. Len(wire) : End(how, n)

Next == RtspThread \/ Thread \/ Client

\* The thread is scheduled, a stop that began goes on, and what was sent, or
\* the news that the connection ended, arrives.  Nothing makes the client send
\* or the RTSP side call.
Spec ==
  /\ Init /\ [][Next]_vars
  /\ WF_vars(Thread) /\ WF_vars(StopClose) /\ WF_vars(StopJoin)
  /\ SF_vars(Readable) /\ SF_vars(Receiving)

-----------------------------------------------------------------------------
\* Every variable of the receiver holds a value its use gives it.
TypeOK ==
  /\ {running, joined, data_sock, stream_fd, allocated} \subseteq BOOLEAN
  /\ {prepend_sps_pps, h265_video_detected, conn_reset, gap} \subseteq BOOLEAN
  /\ rtsp \in {"idle", "close", "join"}
  /\ thread \in Working \cup {"leaving", "conn_reset", "none", "aborted"}
  /\ DOMAIN packet = 0 .. HEADER - 1
  /\ readstart \in 0 .. IF allocated THEN Current.size ELSE HEADER - 1
  /\ sps_pps \in 0 .. IDS /\ ntp_timestamp_nal \in 0 .. MaxTime
  /\ block \in {0, 1} /\ {nextDecryptCount, carried} \subseteq 0 .. BLOCK - 1
  /\ conn \in {"none", "open", "closed", "reset", "timedout"}
  /\ setups \in 0 .. MaxSetups /\ due \in 0 .. IDS - 1

\* Framing holds across partial reads, timeouts and reconnections: what is
\* taken for a packet is one packet the client sent, complete and unmixed, and
\* the packets of a connection are taken once each, in the order sent.
PacketsAreWhole ==
  thread = "dispatch" =>
    /\ packet = [i \in 0 .. HEADER - 1 |-> Unit(Current, i)]
    /\ payload = [i \in 0 .. Current.size - 1 |-> Unit(Current, HEADER + i)]
    /\ Current.id = due

\* The parameter sets the client meant to go with a frame: those of its time.
Expected == IF Current.time = Current.sets_time THEN Current.sets ELSE NoSets

\* A frame is shown behind the parameter sets the client sent for it, the last
\* ones, and every other frame without: none are shown twice, late or with
\* another frame, whatever reports and connections come between.
SetsReachTheirFrame == [][FrameShown => Prepended = Expected]_vars

\* mirror_buffer_decrypt is in step with the client through all frames, shown
\* or dropped, unless the stream began with a rest of the one before, or
\* frames were lost with a connection.
KeyStreamInStep ==
  thread = "dispatch" /\ Frame(Current) /\ carried = 0 /\ ~gap => InStep

Alive == thread \in Working \cup {"leaving", "conn_reset"}

\* While the thread works, its socket is not closed but by raop_rtp_mirror_stop,
\* there is never a second thread, and a stream it serves has a client's end.
ThreadOwnsTheStream ==
  /\ Alive => ~joined
  /\ thread \in Working => data_sock \/ rtsp = "join"
  /\ stream_fd => conn # "none"

\* raop_rtp_mirror_stop returns, also when the client stopped in the middle of
\* a packet or keeps sending.
StopReturns == rtsp = "close" ~> rtsp = "idle" \/ thread = "aborted"

\* A packet on its way is taken although its pieces come with timeouts between
\* them, unless the connection or the thread ends.
PacketsAreTaken ==
  stream_fd /\ wire # <<>> ~> thread \in {"dispatch", "aborted"} \/ ~stream_fd

-----------------------------------------------------------------------------
(* What the code says of itself and does not keep.                         *)

\* "The flag prepend_sps_pps = true will signal that the previous packet
\* contained a SPS NAL + a PPS NAL, that has not yet been sent."
FlagMeansSets == prepend_sps_pps => sps_pps # NoSets
=============================================================================
