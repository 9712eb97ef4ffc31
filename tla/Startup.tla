------------------------------ MODULE Startup ------------------------------
(***************************************************************************)
(* From the start of the AirPlay server to its end, and from one start of  *)
(* the program to the next (AirPlayServer::run, restart, reconnect and     *)
(* cleanup; lib/dnssd.c; raop_init to raop_destroy of lib/raop.c): the     *)
(* thread of the main loop announces two services over mDNS, makes the     *)
(* server they name, and does both again after each reset.  Every reset    *)
(* adds a call of reconnect that is waiting for the next to return.        *)
(*                                                                         *)
(* The server's key and the list of registered clients are in files, and   *)
(* are what clients know the server by when the program is started again.  *)
(* How connections are served and threads are joined is AirPlaySession's.  *)
(***************************************************************************)
EXTENDS Integers, FiniteSets

CONSTANTS
  Clients,        \* device ids
  Options,        \* how the program may be started: records of
                  \*   port       the server's port, 0: any
                  \*   mac        "user", "system" or "random"
                  \*   pin        -pin: require_password, setup_legacy_pairing
                  \*   list       -reg: registration_list
                  \*   keyfile, writable   -key, and that files can be written
                  \*   nohold, restrict_clients, allowed, blocked
  MAX_LAUNCHES,   \* bounds: starts of the program,
  MAX_RESETS      \* and resets of one start

VARIABLES
  options,
  disk,           \* the files: [key, clients]
  pc, frames,     \* the thread of the main loop, and its calls of reconnect
  mac_address, registered_keys,
  dnssd, raop,    \* <<>> or what they point to
  listening,      \* the port the httpd listens on, or 0
  raop_port,
  reset_loop, relaunch_video,
  cleaned,        \* cleanup was called
  failed,         \* steps that failed since the program was started
  advertised,     \* service -> what the mDNS daemon announces, or <<>>
  registering,    \* <<client, how far>>: the httpd thread's SETUP, or <<>>
  paired,         \* client -> key it knows the server by, or <<>>
  enrolled,       \* clients that were listed before they were answered
  fresh, launches, resets

memory == <<mac_address, registered_keys, dnssd, raop, listening, raop_port,
            reset_loop, relaunch_video, cleaned, failed, advertised, registering>>
known == <<options, disk, paired, enrolled>>
counters == <<fresh, launches, resets>>
vars == <<known, pc, frames, memory, counters>>

None == <<>>
Services == {"raop", "airplay"}
Nothing == [s \in Services |-> None]

\* Keys, addresses and ports the system picks are numbers not seen before;
\* these two are given, and what other ports are for is left out.
USER_MAC == 1
SYSTEM_MAC == 2
FIRST_FRESH == 10

Init ==
  /\ options \in Options
  /\ disk = [key |-> None, clients |-> {}]
  /\ pc = "off" /\ frames = 0
  /\ mac_address = 0 /\ registered_keys = {}
  /\ dnssd = None /\ raop = None /\ listening = 0 /\ raop_port = 0
  /\ reset_loop = FALSE /\ relaunch_video = FALSE /\ cleaned = FALSE /\ failed = {}
  /\ advertised = Nothing /\ registering = None
  /\ paired = [c \in Clients |-> None] /\ enrolled = {}
  /\ fresh = FIRST_FRESH /\ launches = 0 /\ resets = 0

Up == pc \notin {"off", "ended", "crashed"}
Step(from, to) == pc = from /\ pc' = to

\* The process is gone: nothing it held is left, and the daemon finds out.
Gone(how) ==
  /\ pc' = how /\ frames' = 0
  /\ mac_address' = 0 /\ registered_keys' = {}
  /\ dnssd' = None /\ raop' = None /\ listening' = 0 /\ raop_port' = 0
  /\ reset_loop' = FALSE /\ relaunch_video' = FALSE /\ cleaned' = FALSE /\ failed' = {}
  /\ advertised' = Nothing /\ registering' = None
  /\ UNCHANGED <<known, counters>>

-----------------------------------------------------------------------------
\* run: from the options to restart.

Launch ==
  /\ pc \in {"off", "ended", "crashed"} /\ launches < MAX_LAUNCHES
  /\ pc' = "dnssd" /\ launches' = launches + 1 /\ resets' = 0
  /\ \/ options.mac = "user" /\ mac_address' = USER_MAC /\ UNCHANGED fresh
     \/ options.mac = "system" /\ mac_address' = SYSTEM_MAC /\ UNCHANGED fresh
     \/ options.mac = "random" /\ mac_address' = fresh /\ fresh' = fresh + 1
  /\ registered_keys' = IF options.pin /\ options.list THEN disk.clients ELSE {}
  /\ UNCHANGED <<known, frames, dnssd, raop, listening, raop_port, reset_loop,
                 relaunch_video, cleaned, failed, advertised, registering>>

\* run parses the address into a vector of its own, which hides the one that
\* start_dnssd is given: no address is announced.
server_hw_addr == None

\* The bits of the default feature set, with that of legacy pairing.
Features ==
  {1, 2, 5, 6, 7, 9, 10, 11, 12, 13, 14, 15, 16, 17, 18, 19, 20, 21, 22, 25, 28, 30} \cup
  (IF options.pin THEN {27} ELSE {})

\* cleanup destroys the pipelines and the logger; a second call does so again.
cleanup(then) ==
  /\ ~cleaned /\ cleaned' = TRUE /\ pc' = then
  /\ UNCHANGED <<mac_address, registered_keys, reset_loop, relaunch_video>>
CleanupAgain == cleaned /\ Gone("crashed")

\* start_dnssd
start_dnssd ==
  /\ Step("dnssd", "raop")
  /\ dnssd' = <<[features |-> Features, hw_addr |-> server_hw_addr,
                 require_pw |-> options.pin, pk |-> None, named |-> TRUE]>>
  /\ UNCHANGED <<known, counters, frames, mac_address, registered_keys, raop, listening,
                 raop_port, reset_loop, relaunch_video, cleaned, failed, advertised,
                 registering>>

\* A step of restart that fails does not end it: it cleans up and goes on.
start_dnssdFails ==
  /\ pc = "dnssd"
  /\ \/ /\ cleanup("raop")
        /\ failed' = failed \cup {"dnssd"}
        /\ UNCHANGED <<known, counters, frames, dnssd, raop, listening, raop_port,
                       advertised, registering>>
     \/ CleanupAgain

-----------------------------------------------------------------------------
\* dnssd_register_*, dnssd_unregister_* and stop_dnssd.

\* What is announced: pk as it is set in dnssd, under the port it is given.
Record(port) ==
  [port |-> port, pk |-> dnssd[1].pk, features |-> dnssd[1].features,
   deviceid |-> dnssd[1].hw_addr, pw |-> dnssd[1].require_pw]

\* The name is freed with the service that goes last, TXT record and all.
Unregistered(s, registered) ==
  [registered EXCEPT ![s] = None]
NameFreed(s, registered) ==
  registered[s] # None /\ Unregistered(s, registered) = Nothing

\* raop first, then airplay; then the object itself.
stop_dnssd == dnssd' = None /\ advertised' = Nothing

\* How often the name is freed on the way.
Frees ==
  Cardinality({s \in Services :
    NameFreed(s, IF s = "raop" THEN advertised ELSE Unregistered("raop", advertised))})

\* stop_raop_server: raop_destroy stops the httpd, in the middle of a request
\* only after it.
stop_raop_server == raop' = None /\ listening' = 0 /\ registering = None /\ registering' = None

-----------------------------------------------------------------------------
\* start_raop_server: raop_init and raop_init2, raop_start, raop_set_dnssd.

\* Slip: the key in the file is not read.
MutKept == ~options.keyfile

\* ed25519_key_generate finds a key: the one in the file, or without a file
\* the one that is made of the address.
Kept == ~options.keyfile \/ disk.key # None

pk ==
  IF ~options.keyfile THEN <<"address", mac_address>>
  ELSE IF Kept THEN disk.key ELSE <<"drawn", fresh>>

raop_init2 ==
  /\ Step("raop", "raop_start")
  /\ raop' = <<[pk |-> pk, port |-> options.port, use_pin |-> options.pin, dnssd |-> FALSE]>>
  /\ disk' = IF ~Kept /\ options.writable THEN [disk EXCEPT !.key = pk] ELSE disk
  /\ fresh' = IF Kept THEN fresh ELSE fresh + 1
  /\ UNCHANGED <<options, paired, enrolled, launches, resets, frames, mac_address,
                 registered_keys, dnssd, listening, raop_port, reset_loop, relaunch_video,
                 cleaned, failed, advertised, registering>>

\* raop_init or raop_init2: no memory for one of their parts.
raop_initFails ==
  /\ pc = "raop"
  /\ \/ /\ cleanup("register_raop")
        /\ stop_dnssd
        /\ failed' = failed \cup {"raop"}
        /\ UNCHANGED <<known, counters, frames, raop, listening, raop_port, registering>>
     \/ CleanupAgain

\* Slip: the port the system picked is not told to raop.
MutHttpdStart ==
  \/ /\ listening' = IF raop[1].port = 0 THEN fresh ELSE raop[1].port
     /\ fresh' = IF raop[1].port = 0 THEN fresh + 1 ELSE fresh
     /\ failed' = failed \ {"httpd"}
     /\ UNCHANGED raop
  \/ /\ failed' = failed \cup {"httpd"}
     /\ UNCHANGED <<raop, listening, fresh>>

\* raop_start, when it is not running, at the port of raop, 0 for one the
\* system picks; whether it worked is not looked at.  Then raop_set_port.
HttpdStart ==
  \/ /\ listening' = IF raop[1].port = 0 THEN fresh ELSE raop[1].port
     /\ fresh' = IF raop[1].port = 0 THEN fresh + 1 ELSE fresh
     /\ raop' = <<[raop[1] EXCEPT !.port = listening']>>
     /\ failed' = failed \ {"httpd"}
  \/ /\ failed' = failed \cup {"httpd"}
     /\ UNCHANGED <<raop, listening, fresh>>

raop_start ==
  /\ Step("raop_start", "raop_set_dnssd")
  /\ HttpdStart
  /\ raop_port' = raop'[1].port
  /\ UNCHANGED <<known, launches, resets, frames, mac_address, registered_keys, dnssd,
                 reset_loop, relaunch_video, cleaned, advertised, registering>>

raop_set_dnssd ==
  /\ Step("raop_set_dnssd", "register_raop")
  /\ dnssd # None
  /\ dnssd' = <<[dnssd[1] EXCEPT !.pk = raop[1].pk]>>
  /\ raop' = <<[raop[1] EXCEPT !.dnssd = TRUE]>>
  /\ UNCHANGED <<known, counters, frames, mac_address, registered_keys, listening, raop_port,
                 reset_loop, relaunch_video, cleaned, failed, advertised, registering>>

\* Without dnssd this start fails too, and cleans up for the second time.
raop_set_dnssdFails == pc = "raop_set_dnssd" /\ dnssd = None /\ CleanupAgain

-----------------------------------------------------------------------------
\* register_dnssd

Register(s, from, to) ==
  /\ Step(from, to)
  /\ dnssd # None
  /\ advertised' = [advertised EXCEPT ![s] = <<Record(raop_port)>>]
  /\ UNCHANGED <<known, counters, frames, mac_address, registered_keys, dnssd, raop, listening,
                 raop_port, reset_loop, relaunch_video, cleaned, failed, registering>>

RegisterFails(s, from) ==
  /\ pc = from /\ dnssd # None
  /\ \/ /\ cleanup("reconnect")
        /\ stop_raop_server /\ stop_dnssd
        /\ failed' = failed \cup {s}
        /\ UNCHANGED <<known, counters, frames, raop_port>>
     \/ CleanupAgain

\* The assertion is compiled out.
RegisterNull == pc = "register_raop" /\ dnssd = None /\ Gone("crashed")

register_dnssd ==
  \/ Register("raop", "register_raop", "register_airplay")
  \/ Register("airplay", "register_airplay", "reconnect")
  \/ RegisterFails("raop", "register_raop")
  \/ RegisterFails("airplay", "register_airplay")
  \/ RegisterNull

-----------------------------------------------------------------------------
\* reconnect and main_loop.  Nothing in the program sets use_video.

main_loop ==
  /\ Step("reconnect", "loop")
  /\ frames' = frames + 1
  /\ relaunch_video' = FALSE
  /\ UNCHANGED <<known, counters, mac_address, registered_keys, dnssd, raop, listening,
                 raop_port, reset_loop, cleaned, failed, advertised, registering>>

\* The loop quits by a signal, or when it looks at the flags.
Quit ==
  /\ Step("loop", "quit")
  /\ UNCHANGED <<known, counters, frames, memory>>

\* -nohold: the server goes on, or is started again if it was stopped, under
\* the services that are announced.  relaunch_video is never set without
\* reset_loop, so it is not raop_stop that stops it.
reconnectServer ==
  /\ Step("quit", "reconnect")
  /\ relaunch_video /\ reset_loop
  /\ IF listening = 0 THEN HttpdStart ELSE UNCHANGED <<raop, listening, failed, fresh>>
  /\ reset_loop' = FALSE
  /\ UNCHANGED <<known, launches, resets, frames, mac_address, registered_keys, dnssd,
                 raop_port, relaunch_video, cleaned, advertised, registering>>

\* A reset: a new server, and new announcements.
restart ==
  /\ Step("quit", "dnssd")
  /\ reset_loop /\ ~relaunch_video
  /\ stop_raop_server /\ stop_dnssd
  /\ reset_loop' = FALSE
  /\ failed' = failed \ {"httpd"}
  /\ UNCHANGED <<known, counters, frames, mac_address, registered_keys, raop_port,
                 relaunch_video, cleaned>>

\* Slip: it cleans up, as reconnect will.
MutStopping ==
  /\ Step("quit", "return")
  /\ ~reset_loop /\ ~relaunch_video
  /\ stop_raop_server /\ stop_dnssd
  /\ cleaned' = TRUE
  /\ UNCHANGED <<known, counters, frames, mac_address, registered_keys, raop_port,
                 reset_loop, relaunch_video, failed>>

Stopping ==
  /\ Step("quit", "return")
  /\ ~reset_loop /\ ~relaunch_video
  /\ stop_raop_server /\ stop_dnssd
  /\ UNCHANGED <<known, counters, frames, mac_address, registered_keys, raop_port,
                 reset_loop, relaunch_video, cleaned, failed>>

\* Each call of reconnect cleans up before it returns to the one before.
Return ==
  /\ pc = "return"
  /\ IF frames = 0 THEN Gone("ended")
     ELSE \/ /\ cleanup("return")
             /\ frames' = frames - 1
             /\ UNCHANGED <<known, counters, dnssd, raop, listening, raop_port, failed,
                            advertised, registering>>
          \/ CleanupAgain

-----------------------------------------------------------------------------
\* What the other threads do meanwhile.

Serves == Up /\ listening # 0

\* conn_reset stops the httpd and tells the main loop; conn_teardown only
\* tells it.
Reset(stops) ==
  /\ Serves /\ resets < MAX_RESETS /\ registering = None
  /\ resets' = resets + 1
  /\ reset_loop' = TRUE
  /\ listening' = IF stops THEN 0 ELSE listening
  /\ UNCHANGED <<known, pc, frames, fresh, launches, mac_address, registered_keys, dnssd, raop,
                 raop_port, relaunch_video, cleaned, failed, advertised, registering>>

\* video_reset, when another client takes over.
video_reset ==
  /\ Serves /\ options.nohold /\ resets < MAX_RESETS /\ registering = None
  /\ resets' = resets + 1
  /\ reset_loop' = TRUE /\ relaunch_video' = TRUE
  /\ UNCHANGED <<known, pc, frames, fresh, launches, mac_address, registered_keys, dnssd, raop,
                 listening, raop_port, cleaned, failed, advertised, registering>>

\* GET /info: what is announced, again.
InfoAnswer ==
  [pk |-> raop[1].pk, features |-> dnssd[1].features, deviceid |-> dnssd[1].hw_addr]

\* It may come before the server knows dnssd.
InfoNull ==
  /\ Serves /\ registering = None
  /\ ~raop[1].dnssd
  /\ Gone("crashed")

\* report_client_request
Admitted(c) ==
  /\ options.restrict_clients => c \in options.allowed
  /\ c \notin options.blocked

\* check_register
check_register(c) == options.list => c \in registered_keys

\* The SETUP of a client that has shown the pin.  pending_registration is a
\* local that access_client_session_data never writes (it assigns to its own
\* parameter): what is in it decides whether register_client keeps the client,
register_client(c) ==
  /\ Serves /\ options.pin /\ registering = None
  /\ Admitted(c) /\ (paired[c] = None \/ ~check_register(c))
  /\ \E pending_registration \in BOOLEAN :
       /\ registered_keys' =
            IF pending_registration /\ options.list THEN registered_keys \cup {c}
            ELSE registered_keys
       /\ registering' = <<c, IF pending_registration THEN "memory" ELSE "unlisted">>
  /\ UNCHANGED <<known, counters, pc, frames, mac_address, dnssd, raop, listening, raop_port,
                 reset_loop, relaunch_video, cleaned, failed, advertised>>

\* appends it to the file,
AppendClient ==
  /\ Up /\ registering # None /\ registering[2] = "memory"
  /\ disk' = IF options.list /\ options.writable
             THEN [disk EXCEPT !.clients = @ \cup {registering[1]}] ELSE disk
  /\ registering' = <<registering[1], "file">>
  /\ UNCHANGED <<options, paired, enrolled, counters, pc, frames, mac_address, registered_keys,
                 dnssd, raop, listening, raop_port, reset_loop, relaunch_video, cleaned, failed,
                 advertised>>

\* and the client gets its answer, which is the same when it is not listed.
Answer ==
  /\ Up /\ registering # None /\ registering[2] # "memory"
  /\ enrolled' = IF registering[2] = "file" THEN enrolled \cup {registering[1]} ELSE enrolled
  /\ paired' = [paired EXCEPT ![registering[1]] = raop[1].pk]
  /\ registering' = None
  /\ UNCHANGED <<options, disk, counters, pc, frames, mac_address, registered_keys,
                 dnssd, raop, listening, raop_port, reset_loop, relaunch_video, cleaned, failed,
                 advertised>>

\* The program is killed.
Kill == Up /\ Gone("off")

Next ==
  \/ Launch
  \/ start_dnssd \/ start_dnssdFails
  \/ raop_init2 \/ raop_initFails \/ raop_start \/ raop_set_dnssd \/ raop_set_dnssdFails
  \/ register_dnssd
  \/ main_loop \/ Quit \/ reconnectServer \/ restart \/ Stopping \/ Return
  \/ \E stops \in BOOLEAN : Reset(stops)
  \/ video_reset \/ InfoNull
  \/ \E c \in Clients : register_client(c)
  \/ AppendClient \/ Answer \/ Kill

Spec == Init /\ [][Next]_vars

-----------------------------------------------------------------------------
\* What is announced is there: both services are announced together and name
\* the port the server listens on, unless it could not be opened or the server
\* was stopped for a reset that is about to happen.  Their key and features
\* are those GET /info answers with, from an object that is still there.  No
\* announcement outlives the server, and the name is freed once.
AdvertisedIsServed ==
  /\ Serves /\ raop[1].dnssd => dnssd # None
  /\ \A s \in Services :
       advertised[s] # None =>
         LET a == advertised[s][1]
         IN  /\ raop # None /\ dnssd # None
             /\ a.port = raop[1].port
             /\ listening = a.port \/ "httpd" \in failed \/ reset_loop
             /\ InfoAnswer = [pk |-> a.pk, features |-> a.features, deviceid |-> a.deviceid]
             /\ (27 \in a.features) <=> raop[1].use_pin
  /\ pc = "loop" => (\A s \in Services : advertised[s] # None) \/ (raop = None /\ failed # {})
  /\ pc = "quit" /\ relaunch_video => reset_loop
  /\ pc \in {"return", "ended"} => advertised = Nothing
  /\ advertised # Nothing => Frees = 1

\* A client that has shown the pin and was answered need not do so again: the
\* server that is started the next time has the key it knows, as far as its
\* file can be written or its address is not random, and finds the client in
\* the list, as far as that was written.  Whether a client that shows the pin
\* is listed at all is up to a flag nothing sets (raop_handlers.h:576, lib/
\* pairing.c:450-452): one that is answered and not listed must show it again.
ClientsStayPaired ==
  \A c \in Clients :
    /\ paired[c] # None /\ raop # None /\ (IF options.keyfile THEN options.writable
                                           ELSE options.mac # "random") =>
         raop[1].pk = paired[c]
    /\ c \in enrolled /\ Up /\ options.writable => check_register(c)

\* The program comes to its end and does not die on the way, but when a step
\* of the start failed other than opening the port, when it ends after a
\* reset, and when a request comes before the server knows dnssd.
EndsInOrder ==
  [][pc' = "crashed" /\ pc # "crashed" =>
       \/ failed \ {"httpd"} # {}
       \/ pc = "return" /\ resets > 0
       \/ raop # None /\ ~raop[1].dnssd]_vars
=============================================================================
