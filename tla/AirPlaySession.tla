--------------------------- MODULE AirPlaySession ---------------------------
(***************************************************************************)
(* The sessions of the AirPlay receiver: the httpd thread that accepts     *)
(* connections and serves their requests (lib/httpd.c, lib/raop.c,         *)
(* lib/raop_handlers.h), the threads of the services that SETUP starts     *)
(* (timing, audio and mirroring: lib/raop_ntp.c, lib/raop_rtp.c,           *)
(* lib/raop_rtp_mirror.c), which stop the server when they lose their      *)
(* client, and the main loop that starts it again (AirPlayServer.cpp).     *)
(*                                                                         *)
(* Of a request only what it does to connections and services is kept; of  *)
(* a service only how it starts, ends and is joined.  The call stack of    *)
(* the httpd thread, which can block in the middle of it on a join, is the *)
(* sequence `work' of what is left to do.                                  *)
(***************************************************************************)
EXTENDS Integers, Sequences, FiniteSets

CONSTANTS
  MAX_CONNECTIONS,             \* size of the table of connections (12)
  Streams,                     \* the streams of a session: "rtp", "mirror"
  Options,                     \* values of the options <<use_video, nohold>>
  MaxSessions                  \* bound on the sessions that exist at a time

ASSUME SessionAssumption ==
  /\ MAX_CONNECTIONS \in Nat \ {0}
  /\ Streams \subseteq {"rtp", "mirror"}
  /\ Options \subseteq BOOLEAN \X BOOLEAN
  /\ MaxSessions \in Nat \ {0}

VARIABLES
  running, joined,             \* the flags of httpd_t guarded by run_mutex
  failed,                      \* httpd has no thread through an error of its own
  httpd,                       \* where httpd_thread is
  work,                        \* what is left of its pass over the sockets
  connections, open_connections,
  svc,                         \* the services of every session
  main,                        \* where the main loop is
  ending,                      \* stop_raop_server is called for good
  reset_loop, relaunch_video,  \* flags that tell the main loop what to do
  use_video, nohold            \* options, never changed

server == <<running, joined, failed>>
options == <<use_video, nohold>>
flags == <<reset_loop, relaunch_video>>
table == <<connections, open_connections>>
vars == <<server, httpd, work, table, svc, main, ending, flags, options>>

Slots == 1 .. MAX_CONNECTIONS
Sessions == 1 .. MaxSessions
Kinds == Streams \cup {"ntp"}

\* A NULL pointer to the services of a session.
None == 0

\* `timing' and `streams' are the sessions whose raop_ntp, and whose raop_rtp
\* and raop_rtp_mirror, the connection points to.
Closed == [connected |-> FALSE, raop |-> FALSE, timing |-> None, streams |-> None]

\* A service: allocated, its flags, where its thread is, and whether the thread
\* found its client gone.
Absent == [live |-> FALSE, running |-> FALSE, joined |-> FALSE,
           at |-> "none", lost |-> FALSE]

Ready == [Absent EXCEPT !.live = TRUE, !.joined = TRUE]
Started == [Ready EXCEPT !.running = TRUE, !.joined = FALSE, !.at = "loop"]

Job(do, what, id) == [do |-> do, what |-> what, id |-> id]

Init ==
  /\ running = FALSE /\ joined = TRUE /\ failed = FALSE
  /\ httpd = "none" /\ work = <<>>
  /\ connections = [c \in Slots |-> Closed] /\ open_connections = 0
  /\ svc = [id \in Kinds \X Sessions |-> Absent]
  /\ main = "start" /\ ending = FALSE
  /\ reset_loop = FALSE /\ relaunch_video = FALSE
  /\ \E o \in Options : use_video = o[1] /\ nohold = o[2]

-----------------------------------------------------------------------------
(* The table of connections and the calls that release its services.       *)

Connected == {c \in Slots : connections[c].connected}

\* Connections of a type other than CONNECTION_TYPE_UNKNOWN.
Known == {c \in Connected : connections[c].raop}

Lowest(S) == CHOOSE c \in S : \A d \in S : c <= d

Stop(k, s) == IF s = None THEN <<>> ELSE <<Job("stop", k, s)>>

Destroy(k, s) ==
  IF s = None \/ k \notin Kinds THEN <<>> ELSE <<Job("stop", k, s), Job("free", k, s)>>

\* Slip: the timing service goes before those that use its clock.
MutRemove(c) ==
  LET conn == connections[c]
  IN  Destroy("ntp", conn.timing) \o Destroy("rtp", conn.streams)
        \o Destroy("mirror", conn.streams) \o <<Job("close", "connection", c)>>

\* httpd_remove_connection, with the conn_destroy of raop.c it calls.
Remove(c) ==
  LET conn == connections[c]
  IN  Destroy("rtp", conn.streams) \o Destroy("mirror", conn.streams)
        \o Destroy("ntp", conn.timing) \o <<Job("close", "connection", c)>>

-----------------------------------------------------------------------------
(* httpd_thread.                                                           *)

Rest == Tail(work)

Doing(do) == work # <<>> /\ Head(work).do = do

AtLoopTop == httpd = "loop" /\ work = <<>>

\* The pass over the sockets select found readable: the listening sockets
\* (4 and 6, for their protocols) before the connections, in order.
Pass(fds, conns) ==
  LET accept(fd) == IF fd \in fds THEN <<Job("accept", "socket", fd)>> ELSE <<>>
      recv == [i \in 1 .. Cardinality(conns) |->
                 Job("recv", "connection",
                     CHOOSE c \in conns : Cardinality({d \in conns : d <= c}) = i)]
  IN  accept(4) \o accept(6) \o recv

\* The listening sockets are not watched while the table is full.
Select ==
  /\ AtLoopTop
  /\ running
  /\ \E fds \in SUBSET {4, 6}, conns \in SUBSET Connected :
       /\ fds # {} => open_connections < MAX_CONNECTIONS
       /\ work' = Pass(fds, conns)
  /\ UNCHANGED <<server, httpd, table, svc, main, ending, flags, options>>

SelectFails ==
  /\ AtLoopTop
  /\ running
  /\ httpd' = "exit" /\ failed' = TRUE
  /\ UNCHANGED <<running, joined, work, table, svc, main, ending, flags, options>>

SeeStopped ==
  /\ AtLoopTop
  /\ ~running
  /\ httpd' = "exit"
  /\ UNCHANGED <<server, work, table, svc, main, ending, flags, options>>

\* The first socket may have taken the last place.
AcceptSkipped ==
  /\ Doing("accept")
  /\ open_connections >= MAX_CONNECTIONS
  /\ work' = Rest
  /\ UNCHANGED <<server, httpd, table, svc, main, ending, flags, options>>

Accept ==
  /\ Doing("accept")
  /\ open_connections < MAX_CONNECTIONS
  /\ Connected # Slots
  /\ connections' = [connections EXCEPT ![Lowest(Slots \ Connected)].connected = TRUE]
  /\ open_connections' = open_connections + 1
  /\ work' = Rest
  /\ UNCHANGED <<server, httpd, svc, main, ending, flags, options>>

\* The connection cannot be set up: the rest of the pass is abandoned.
AcceptAbandoned ==
  /\ Doing("accept")
  /\ open_connections < MAX_CONNECTIONS
  /\ work' = <<>>
  /\ UNCHANGED <<server, httpd, table, svc, main, ending, flags, options>>

AcceptFails ==
  /\ Doing("accept")
  /\ open_connections < MAX_CONNECTIONS
  /\ httpd' = "exit" /\ failed' = TRUE
  /\ work' = <<>>
  /\ UNCHANGED <<running, joined, table, svc, main, ending, flags, options>>

\* Slip: a connection removed earlier in the pass is not passed over.
MutReadable(c) == TRUE

Readable(c) == connections[c].connected

\* The connection is gone, or the request is not complete.
RecvNothing(c) ==
  /\ Doing("recv") /\ Head(work).id = c
  /\ work' = Rest
  /\ UNCHANGED <<server, httpd, table, svc, main, ending, flags, options>>

\* The client closed the connection, or sent what cannot be parsed.
RecvEnd(c) ==
  /\ Doing("recv") /\ Head(work).id = c
  /\ Readable(c)
  /\ work' = Remove(c) \o Rest
  /\ UNCHANGED <<server, httpd, table, svc, main, ending, flags, options>>

\* The first request of a connection decides its type: the receiver serves one
\* client, unless `nohold' lets a new one capture it.
Identify(c) ==
  /\ connections' = [connections EXCEPT ![c].raop = TRUE]
  /\ work' = <<Job("request", "connection", c)>> \o Rest
  /\ UNCHANGED <<server, httpd, open_connections, svc, main, ending, options>>

RecvRequest(c) ==
  /\ Doing("recv") /\ Head(work).id = c
  /\ Readable(c)
  /\ connections[c].raop \/ Known = {}
  /\ Identify(c)
  /\ UNCHANGED flags

\* 409 Conflict: the connection stays, its type unknown.
RecvRejected(c) ==
  /\ Doing("recv") /\ Head(work).id = c
  /\ Readable(c)
  /\ ~connections[c].raop /\ Known # {} /\ ~nohold
  /\ work' = Rest
  /\ UNCHANGED <<server, httpd, table, svc, main, ending, flags, options>>

RecvCapture(c) ==
  /\ Doing("recv") /\ Head(work).id = c
  /\ Readable(c)
  /\ ~connections[c].raop /\ Known # {} /\ nohold
  /\ reset_loop' = TRUE /\ relaunch_video' = TRUE
  /\ work' = <<Job("capture", "connection", c)>> \o Rest
  /\ UNCHANGED <<server, httpd, table, svc, main, ending, options>>

\* Slip: the client captured keeps its connection.
MutCaptured == TRUE

\* httpd_remove_known_connections is through with the table.
Captured == Known = {}

CaptureRemove(c) ==
  /\ Doing("capture") /\ Head(work).id = c
  /\ ~Captured
  /\ work' = Remove(Lowest(Known)) \o work
  /\ UNCHANGED <<server, httpd, table, svc, main, ending, flags, options>>

CaptureDone(c) ==
  /\ Doing("capture") /\ Head(work).id = c
  /\ Captured
  /\ Identify(c)
  /\ UNCHANGED flags

-----------------------------------------------------------------------------
(* The requests (conn_request and the handlers it calls).                  *)

Serving(c) == Doing("request") /\ Head(work).id = c

\* A request that leaves the services alone: also one rejected in a handler,
\* or answered by events for the audio thread (module RaopRtp).
RequestOther(c) ==
  /\ Serving(c)
  /\ work' = Rest
  /\ UNCHANGED <<server, httpd, table, svc, main, ending, flags, options>>

\* The handler asks for the connection to be closed after its response.
RequestDisconnect(c) ==
  /\ Serving(c)
  /\ work' = Remove(c) \o Rest
  /\ UNCHANGED <<server, httpd, table, svc, main, ending, flags, options>>

\* A session whose objects are all freed and whose threads have all ended.
Unused(s) == \A k \in Kinds : ~svc[<<k, s>>].live /\ svc[<<k, s>>].at = "none"

\* SETUP with keys: the connection's pointers are overwritten, whatever they
\* point to, and timing starts if its socket can be opened.  The same request
\* may go on to set up streams.
SetupKeys(c) ==
  /\ Serving(c)
  /\ \E s \in Sessions, timing \in {Ready, Started} :
       /\ Unused(s)
       /\ \A r \in Sessions : Unused(r) => s <= r
       /\ connections' = [connections EXCEPT ![c].timing = s, ![c].streams = s]
       /\ svc' = [id \in Kinds \X Sessions |->
                    IF id[2] # s THEN svc[id]
                    ELSE IF id[1] = "ntp" THEN timing ELSE Ready]
  /\ work' = <<Job("setup", "connection", c)>> \o Rest
  /\ UNCHANGED <<server, httpd, open_connections, main, ending, flags, options>>

\* SETUP of a stream: its thread is started unless one exists.
SetupStream(c, k) ==
  LET s == connections[c].streams
  IN  /\ Serving(c) \/ (Doing("setup") /\ Head(work).id = c)
      /\ s # None
      /\ ~svc[<<k, s>>].running /\ svc[<<k, s>>].joined
      /\ svc' = [svc EXCEPT ![<<k, s>>] = Started]
      /\ work' = <<Job("setup", "connection", c)>> \o Rest
      /\ UNCHANGED <<server, httpd, table, main, ending, flags, options>>

\* A stream that cannot be set up makes the response ask for the end.
SetupDone(c) ==
  /\ Doing("setup") /\ Head(work).id = c
  /\ work' \in {Rest, Remove(c) \o Rest}
  /\ UNCHANGED <<server, httpd, table, svc, main, ending, flags, options>>

\* TEARDOWN of streams: audio comes before mirroring, which is then left as it
\* is.  The callback conn_teardown asks for a new window after mirroring if the
\* option to close it is set.
TeardownStream(c, k) ==
  /\ Serving(c)
  /\ work' = Stop(k, connections[c].streams) \o Rest
  /\ reset_loop' \in {reset_loop, TRUE}
  /\ UNCHANGED <<server, httpd, table, svc, main, ending, relaunch_video, options>>

\* TEARDOWN of the session: the streams are destroyed, timing is not.
TeardownSession(c) ==
  LET s == connections[c].streams
  IN  /\ Serving(c)
      /\ connections' = [connections EXCEPT ![c].streams = None]
      /\ work' = Destroy("rtp", s) \o Destroy("mirror", s) \o Rest
      /\ UNCHANGED <<server, httpd, open_connections, svc, main, ending, flags, options>>

Request(c) ==
  \/ RequestOther(c) \/ RequestDisconnect(c)
  \/ SetupKeys(c) \/ SetupDone(c) \/ TeardownSession(c)
  \/ \E k \in Streams : SetupStream(c, k) \/ TeardownStream(c, k)

-----------------------------------------------------------------------------
(* raop_ntp_stop, raop_rtp_stop, raop_rtp_mirror_stop and their _destroy,  *)
(* as the httpd thread calls them.                                         *)

Target == <<Head(work).what, Head(work).id>>

\* Slip: the thread is not told before it is joined.
MutStopService ==
  /\ Doing("stop")
  /\ LET s == svc[Target]
         claimed == s.running /\ ~s.joined
     IN  work' = IF claimed THEN <<[Head(work) EXCEPT !.do = "join"]>> \o Rest ELSE Rest
  /\ UNCHANGED <<server, httpd, table, svc, main, ending, flags, options>>

StopService ==
  /\ Doing("stop")
  /\ LET s == svc[Target]
         claimed == s.running /\ ~s.joined
     IN  /\ svc' = [svc EXCEPT ![Target].running = s.running /\ ~claimed]
         /\ work' = IF claimed THEN <<[Head(work) EXCEPT !.do = "join"]>> \o Rest ELSE Rest
  /\ UNCHANGED <<server, httpd, table, main, ending, flags, options>>

JoinService ==
  /\ Doing("join")
  /\ svc[Target].at = "none"
  /\ svc' = [svc EXCEPT ![Target].joined = TRUE]
  /\ work' = Rest
  /\ UNCHANGED <<server, httpd, table, main, ending, flags, options>>

\* Of the object nothing is left, the thread may still be on its way out.
FreeService ==
  /\ Doing("free")
  /\ svc' = [svc EXCEPT ![Target] =
                [Absent EXCEPT !.at = svc[Target].at, !.lost = svc[Target].lost]]
  /\ work' = Rest
  /\ UNCHANGED <<server, httpd, table, main, ending, flags, options>>

CloseConnection ==
  /\ Doing("close")
  /\ connections' = [connections EXCEPT ![Head(work).id] = Closed]
  /\ open_connections' = open_connections - 1
  /\ work' = Rest
  /\ UNCHANGED <<server, httpd, svc, main, ending, flags, options>>

\* Out of its loop, the thread removes the connections that are left,
ExitRemove ==
  /\ httpd = "exit" /\ work = <<>>
  /\ Connected # {}
  /\ work' = Remove(Lowest(Connected))
  /\ UNCHANGED <<server, httpd, table, svc, main, ending, flags, options>>

\* Slip: the connections that are left are forgotten.
MutExitClear ==
  /\ httpd = "exit" /\ work = <<>>
  /\ running' = FALSE
  /\ httpd' = "left"
  /\ UNCHANGED <<joined, failed, work, table, svc, main, ending, flags, options>>

\* clears `running'
ExitClear ==
  /\ httpd = "exit" /\ work = <<>>
  /\ Connected = {}
  /\ running' = FALSE
  /\ httpd' = "left"
  /\ UNCHANGED <<joined, failed, work, table, svc, main, ending, flags, options>>

\* and returns.
ExitReturn ==
  /\ httpd = "left"
  /\ httpd' = "none"
  /\ UNCHANGED <<server, work, table, svc, main, ending, flags, options>>

Httpd ==
  \/ Select \/ SelectFails \/ SeeStopped
  \/ AcceptSkipped \/ Accept \/ AcceptAbandoned \/ AcceptFails
  \/ \E c \in Slots :
       \/ RecvNothing(c) \/ RecvEnd(c) \/ RecvRequest(c)
       \/ RecvRejected(c) \/ RecvCapture(c)
       \/ CaptureRemove(c) \/ CaptureDone(c)
       \/ Request(c)
  \/ StopService \/ JoinService \/ FreeService \/ CloseConnection
  \/ ExitRemove \/ ExitClear \/ ExitReturn

-----------------------------------------------------------------------------
(* httpd_start and httpd_stop, called by the main loop and by the services. *)

\* Slip: only one of the flags is looked at.
MutStoppable == ~joined

\* httpd_stop clears `running' and joins the thread only if the flags allow.
Stoppable == running /\ ~joined

\* httpd_start, whose sockets may not open.
HttpdStart ==
  IF ~running /\ joined
  THEN \/ /\ running' = TRUE /\ joined' = FALSE /\ failed' = FALSE
          /\ httpd' = "loop"
       \/ /\ failed' = TRUE
          /\ UNCHANGED <<running, joined, httpd>>
  ELSE UNCHANGED <<server, httpd>>

\* The process dies, and everything with it.
Crash ==
  /\ main' = "crashed"
  /\ running' = FALSE /\ joined' = TRUE /\ failed' = FALSE
  /\ httpd' = "none" /\ work' = <<>>
  /\ connections' = [c \in Slots |-> Closed] /\ open_connections' = 0
  /\ svc' = [id \in Kinds \X Sessions |-> Absent]
  /\ UNCHANGED <<ending, flags, options>>

-----------------------------------------------------------------------------
(* The thread of service k of session s.                                   *)

\* raop is NULL while the main loop is between two servers, or after the last.
NoServer == main \in {"gone", "ended"}

\* The loop ends because the service was stopped, because select failed (the
\* timing thread has none), or because the client was lost: a limit of timing
\* requests without answer, a reset mirroring connection.
ServiceLeave(k, s) ==
  /\ svc[<<k, s>>].at = "loop"
  /\ \E lost \in BOOLEAN :
       /\ lost => k # "rtp"
       /\ ~lost => ~svc[<<k, s>>].running \/ k \in Streams
       /\ svc' = [svc EXCEPT ![<<k, s>>].at = "clear", ![<<k, s>>].lost = lost]
  /\ UNCHANGED <<server, httpd, work, table, main, ending, flags, options>>

ServiceClear(k, s) ==
  /\ svc[<<k, s>>].at = "clear"
  /\ svc' = [svc EXCEPT ![<<k, s>>].running = FALSE, ![<<k, s>>].at = "tail"]
  /\ UNCHANGED <<server, httpd, work, table, main, ending, flags, options>>

ServiceReturn(k, s) ==
  /\ svc[<<k, s>>].at = "tail"
  /\ ~svc[<<k, s>>].lost
  /\ svc' = [svc EXCEPT ![<<k, s>>].at = "none"]
  /\ UNCHANGED <<server, httpd, work, table, main, ending, flags, options>>

\* conn_reset calls raop_stop, which stops the httpd thread
ConnReset(k, s) ==
  /\ svc[<<k, s>>].at = "tail"
  /\ svc[<<k, s>>].lost
  /\ ~NoServer
  /\ running' = (running /\ ~Stoppable)
  /\ svc' = [svc EXCEPT ![<<k, s>>].at = IF Stoppable THEN "join" ELSE "flag"]
  /\ UNCHANGED <<joined, failed, httpd, work, table, main, ending, flags, options>>

\* and asserts that there is a server,
ConnResetAsserts(k, s) ==
  /\ svc[<<k, s>>].at = "tail"
  /\ svc[<<k, s>>].lost
  /\ NoServer
  /\ Crash

\* Slip: the main loop is not told.
MutConnResetJoin(k, s) ==
  /\ svc[<<k, s>>].at = "join"
  /\ httpd = "none"
  /\ joined' = TRUE
  /\ svc' = [svc EXCEPT ![<<k, s>>].at = "none"]
  /\ UNCHANGED <<running, failed, httpd, work, table, main, ending, flags, options>>

\* joins the httpd thread,
ConnResetJoin(k, s) ==
  /\ svc[<<k, s>>].at = "join"
  /\ httpd = "none"
  /\ joined' = TRUE
  /\ svc' = [svc EXCEPT ![<<k, s>>].at = "flag"]
  /\ UNCHANGED <<running, failed, httpd, work, table, main, ending, flags, options>>

\* and tells the main loop.
ConnResetFlag(k, s) ==
  /\ svc[<<k, s>>].at = "flag"
  /\ svc' = [svc EXCEPT ![<<k, s>>].at = "none", ![<<k, s>>].lost = FALSE]
  /\ reset_loop' = TRUE
  /\ UNCHANGED <<server, httpd, work, table, main, ending, relaunch_video, options>>

\* What a service does without being lost or failing by itself.
ServiceProceed(k, s) ==
  \/ ServiceLeave(k, s) /\ ~svc[<<k, s>>].running
  \/ ServiceClear(k, s) \/ ServiceReturn(k, s)
  \/ ConnReset(k, s) \/ ConnResetAsserts(k, s) \/ ConnResetJoin(k, s) \/ ConnResetFlag(k, s)

Service(k, s) == ServiceLeave(k, s) \/ ServiceProceed(k, s)

-----------------------------------------------------------------------------
(* The main loop: AirPlayServer::restart, reconnect and main_loop.         *)

GoTo(from, to) == main = from /\ main' = to

\* raop_start; that it fails or refuses is not looked at.
Start ==
  /\ GoTo("start", "enter")
  /\ HttpdStart
  /\ UNCHANGED <<work, table, svc, ending, flags, options>>

Enter ==
  /\ GoTo("enter", "loop")
  /\ relaunch_video' = use_video
  /\ UNCHANGED <<server, httpd, work, table, svc, ending, reset_loop, options>>

\* g_main_loop_run returns.  The callbacks that make it quit take their argument,
\* the GMainLoop, for the AirPlayServer: reset_callback may quit whatever
\* reset_loop is, and a signal may or may not clear relaunch_video.
Quit ==
  /\ GoTo("loop", "quit")
  /\ relaunch_video' \in {relaunch_video, FALSE}
  /\ UNCHANGED <<server, httpd, work, table, svc, ending, reset_loop, options>>

\* reconnect: a reset means that the server was stopped already,
Reset ==
  /\ GoTo("quit", "relaunch")
  /\ reset_loop
  /\ reset_loop' = FALSE
  /\ UNCHANGED <<server, httpd, work, table, svc, ending, relaunch_video, options>>

\* otherwise raop_stop stops it, unless the flags say that it is stopped.
StopForRelaunch ==
  /\ GoTo("quit", IF Stoppable THEN "join" ELSE "relaunch")
  /\ ~reset_loop /\ relaunch_video
  /\ running' = (running /\ ~Stoppable)
  /\ UNCHANGED <<joined, failed, httpd, work, table, svc, ending, flags, options>>

JoinForRelaunch ==
  /\ GoTo("join", "relaunch")
  /\ httpd = "none"
  /\ joined' = TRUE
  /\ UNCHANGED <<running, failed, httpd, work, table, svc, ending, flags, options>>

Relaunch ==
  /\ GoTo("relaunch", "enter")
  /\ relaunch_video
  /\ HttpdStart
  /\ UNCHANGED <<work, table, svc, ending, flags, options>>

\* A new server replaces the old one, or none does: raop_destroy stops the old
\* one, unless the flags say that it is stopped,
DestroyStop ==
  /\ \/ GoTo("relaunch", IF Stoppable THEN "destroy join" ELSE "destroy")
        /\ ~relaunch_video /\ ending' = FALSE
     \/ GoTo("quit", IF Stoppable THEN "destroy join" ELSE "destroy")
        /\ ~reset_loop /\ ~relaunch_video /\ ending' = TRUE
  /\ running' = (running /\ ~Stoppable)
  /\ UNCHANGED <<joined, failed, httpd, work, table, svc, flags, options>>

DestroyJoin ==
  /\ GoTo("destroy join", "destroy")
  /\ httpd = "none"
  /\ joined' = TRUE
  /\ UNCHANGED <<running, failed, httpd, work, table, svc, ending, flags, options>>

\* The threads that wait for the httpd thread.
Joiners == {id \in Kinds \X Sessions : svc[id].at = "join"}

\* and frees it.
DestroyFree ==
  /\ GoTo("destroy", IF ending THEN "ended" ELSE "gone")
  /\ httpd = "none" /\ Joiners = {}
  /\ UNCHANGED <<server, httpd, work, table, svc, ending, flags, options>>

\* A thread that still uses the server then works on freed memory.
DestroyUsed ==
  /\ main = "destroy"
  /\ httpd # "none" \/ Joiners # {}
  /\ Crash

\* restart: raop_init2 makes a new server.
Restart ==
  /\ GoTo("gone", "start")
  /\ running' = FALSE /\ joined' = TRUE /\ failed' = FALSE
  /\ UNCHANGED <<httpd, work, table, svc, ending, flags, options>>

MainProceed ==
  \/ Start \/ Enter \/ Reset \/ StopForRelaunch \/ JoinForRelaunch \/ Relaunch
  \/ DestroyStop \/ DestroyJoin \/ DestroyFree \/ DestroyUsed \/ Restart

-----------------------------------------------------------------------------
Next ==
  \/ Httpd
  \/ MainProceed \/ Quit
  \/ \E k \in Kinds, s \in Sessions : Service(k, s)

\* Every thread is scheduled; clients, the network and signals are free.
Spec ==
  /\ Init /\ [][Next]_vars
  /\ WF_vars(Httpd)
  /\ WF_vars(MainProceed)
  /\ \A k \in Kinds, s \in Sessions : WF_vars(ServiceProceed(k, s))

-----------------------------------------------------------------------------
\* The variables hold values their uses give them.
TypeOK ==
  /\ {running, joined, failed, ending, reset_loop, relaunch_video} \subseteq BOOLEAN
  /\ {use_video, nohold} \subseteq BOOLEAN
  /\ httpd \in {"none", "loop", "exit", "left"}
  /\ work \in Seq([do : {"accept", "recv", "capture", "request", "setup",
                         "stop", "join", "free", "close"},
                   what : {"socket", "connection"} \cup Kinds, id : Nat])
  /\ connections \in [Slots -> [connected : BOOLEAN, raop : BOOLEAN,
                                timing : {None} \cup Sessions,
                                streams : {None} \cup Sessions]]
  /\ open_connections \in 0 .. MAX_CONNECTIONS
  /\ svc \in [Kinds \X Sessions ->
                [live : BOOLEAN, running : BOOLEAN, joined : BOOLEAN, lost : BOOLEAN,
                 at : {"none", "loop", "clear", "tail", "join", "flag"}]]
  /\ main \in {"start", "enter", "loop", "quit", "join", "relaunch", "destroy join",
               "destroy", "gone", "ended", "crashed"}

\* Two clients are never served at a time, also while one captures the receiver
\* from the other.
OneClient == \A c, d \in Known : c = d

\* Audio and mirroring never read the clock of a timing service that was freed,
\* whatever ended the session.
ClockOutlivesUsers ==
  \A k \in Streams, s \in Sessions : svc[<<k, s>>].at = "loop" => svc[<<"ntp", s>>].live

\* When a stop has come to its end nothing of the server's run is left: no
\* thread, no open connection, no request half served.
StoppedMeansStopped ==
  joined => httpd = "none" /\ Connected = {} /\ open_connections = 0 /\ work = <<>>

\* An accepted connection always finds a place in the table: the sockets are
\* watched by the count, the place is sought by the flags.
RoomWhenAccepting ==
  Doing("accept") /\ open_connections < MAX_CONNECTIONS => Connected # Slots

\* The httpd thread is joined at most once: of the main loop and all services
\* that stop the server only one waits for the thread.
OneJoiner ==
  \A a, b \in Joiners : a = b /\ main \notin {"join", "destroy join"}

\* No reset is lost: a server without an httpd thread on the way up is about to
\* be started again, unless that thread ended by an error of its own.
DownIsNoticed ==
  main = "loop" /\ ~running =>
    failed \/ reset_loop \/ \E id \in Kinds \X Sessions : svc[id].at \in {"join", "flag"}

\* The httpd thread waits for the service that waits for it.
CircularWait == \E id \in Joiners : Doing("join") /\ Target = id

\* A wait for the httpd thread ends, but for that of a service the thread waits
\* for in its turn.
JoinsEnd ==
  /\ main \in {"join", "destroy join"} ~> main \notin {"join", "destroy join"}
  /\ \A k \in Kinds, s \in Sessions :
       svc[<<k, s>>].at = "join" ~> svc[<<k, s>>].at # "join" \/ CircularWait

-----------------------------------------------------------------------------
(* What the code says of itself and does not keep.                         *)

\* conn_destroy stops the services "in case TEARDOWN was not called": a
\* connection that is being removed gets closed.
RemovalsEnd ==
  \A c \in Slots :
    (\E i \in 1 .. Len(work) : work[i] = Job("close", "connection", c))
      ~> ~connections[c].connected
=============================================================================
