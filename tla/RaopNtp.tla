------------------------------- MODULE RaopNtp -------------------------------
(***************************************************************************)
(* The timing service of one AirPlay session (lib/raop_ntp.c): a thread    *)
(* asks the client's clock every three seconds, keeps the last eight       *)
(* answers in a ring and publishes the offset of the one that was fastest; *)
(* after LIMIT requests without an answer it reports the client as gone.   *)
(* The RTSP side starts it, converts times with it and stops it.           *)
(*                                                                         *)
(* Times are in nanoseconds of the local clock, an answer's in those of    *)
(* the client's, which is THETA ahead.  Requests and answers are datagrams *)
(* that get lost, overtake each other and arrive late.                     *)
(***************************************************************************)
EXTENDS Integers, Sequences, FiniteSets

CONSTANTS
  RAOP_NTP_DATA_COUNT,  \* entries of the ring (8)
  RAOP_NTP_MAX_DISP,    \* the delay of an entry nothing has been put into
  LIMIT,                \* max_ntp_timeouts; 0 is never
  THETA,                \* the client's clock minus the local one
  Delays,               \* how long a datagram may be under way
  Holds,                \* how long the client may take to answer
  SendTimes,            \* local times at which requests leave
  INFLIGHT              \* answers under way at most

ASSUME NtpAssumption ==
  /\ RAOP_NTP_DATA_COUNT \in Nat \ {0}
  /\ RAOP_NTP_MAX_DISP \in Nat
  /\ LIMIT \in Nat /\ INFLIGHT \in Nat
  /\ THETA \in Int
  /\ Delays \subseteq Nat /\ Holds \subseteq Nat /\ SendTimes \subseteq Int
  /\ \A d, e \in Delays : d + e < RAOP_NTP_MAX_DISP

VARIABLES
  running, joined,      \* under run_mutex
  tsock,                \* "none", "open", or "closed": set to -1 by stop
  thread,               \* where the thread is
  timeout_counter,      \* its local variable
  data, data_index,     \* the ring
  sync_offset,          \* under sync_params_mutex
  client,               \* "answering", or "silent" for good
  wire,                 \* answers under way
  inbox,                \* answers in the socket's buffer
  caller                \* the RTSP side: "idle", "close", "join"

thread_vars == <<thread, timeout_counter>>
ring_vars == <<data, data_index, sync_offset>>
net_vars == <<client, wire, inbox>>
control_vars == <<running, joined, tsock, caller>>
vars == <<thread_vars, ring_vars, net_vars, control_vars>>

Slots == 0 .. (RAOP_NTP_DATA_COUNT - 1)
Filler == [offset |-> 0, delay |-> RAOP_NTP_MAX_DISP]

Init ==
  /\ running = FALSE /\ joined = TRUE
  /\ tsock = "none"
  /\ thread = "none"
  /\ timeout_counter = 0
  /\ data = [i \in Slots |-> Filler]
  /\ data_index = 0
  /\ sync_offset = 0
  /\ client = "answering"
  /\ wire = {} /\ inbox = {}
  /\ caller = "idle"

-----------------------------------------------------------------------------
\* The client and the network

\* An answer carries back when the request left, and the client's times of
\* its arrival and of the answer's departure.
Answer(t0, d, h) == [t0 |-> t0, t1 |-> t0 + THETA + d, t2 |-> t0 + THETA + d + h]

Arrive(m) ==
  /\ m \in wire
  /\ wire' = wire \ {m}
  /\ inbox' = IF tsock = "open" THEN inbox \cup {m} ELSE inbox
  /\ UNCHANGED <<client, thread_vars, ring_vars, control_vars>>

Lose(m) ==
  /\ m \in wire
  /\ wire' = wire \ {m}
  /\ UNCHANGED <<client, inbox, thread_vars, ring_vars, control_vars>>

\* The client goes away without a word.
FallSilent ==
  /\ client = "answering"
  /\ client' = "silent"
  /\ UNCHANGED <<wire, inbox, thread_vars, ring_vars, control_vars>>

-----------------------------------------------------------------------------
\* The thread

Thread(from, to) == thread = from /\ thread' = to

GoesOn == running

\* It goes on as long as running is set; before a request it throws away
\* whatever answers are in the socket.
Top ==
  /\ thread = "top"
  /\ thread' = IF GoesOn THEN "send" ELSE "clear"
  /\ inbox' = IF GoesOn THEN {} ELSE inbox
  /\ UNCHANGED <<timeout_counter, ring_vars, client, wire, control_vars>>

\* The client answers a request, or it or its answer is lost.
Send ==
  /\ tsock = "open"
  /\ Thread("send", "receive")
  /\ \/ UNCHANGED wire
     \/ /\ client = "answering" /\ Cardinality(wire) < INFLIGHT
        /\ \E t0 \in SendTimes, d \in Delays, h \in Holds : wire' = wire \cup {Answer(t0, d, h)}
  /\ UNCHANGED <<timeout_counter, ring_vars, client, inbox, control_vars>>

\* sendto fails, as it must on a closed socket and may on an open one whose
\* network is gone: the thread sleeps, and that is no timeout.
SendFails ==
  /\ Thread("send", "sleep")
  /\ UNCHANGED <<timeout_counter, ring_vars, net_vars, control_vars>>

\* C's division rounds towards zero.
Half(n) == IF n >= 0 THEN n \div 2 ELSE -((-n) \div 2)

Measured(m, t3) ==
  [offset |-> Half((m.t1 - m.t0) + (m.t2 - t3)),
   delay |-> (t3 - m.t0) - (m.t2 - m.t1)]

\* Slip: the slowest answer decides.
MutFastest(ring, i) == \A j \in Slots : ring[i].delay >= ring[j].delay

\* data_sorted[0] after qsort, which may put either of two equals first.
Fastest(ring, i) == \A j \in Slots : ring[i].delay <= ring[j].delay

\* Slip: the index runs off the ring.
MutNextIndex == data_index + 1

NextIndex == (data_index + 1) % RAOP_NTP_DATA_COUNT

\* An answer is read, d after the client sent it, and measured.
Receive(m, d) ==
  /\ m \in inbox
  /\ Thread("receive", "sleep")
  /\ timeout_counter' = 0
  /\ data_index' = NextIndex
  /\ data' = [data EXCEPT ![NextIndex] = Measured(m, m.t2 - THETA + d)]
  /\ \E i \in Slots : Fastest(data', i) /\ sync_offset' = data'[i].offset
  /\ inbox' = inbox \ {m}
  /\ UNCHANGED <<client, wire, control_vars>>

\* Slip: the count is not kept from one request to the next.
MutCounted == 1

Counted == timeout_counter + 1

\* recvfrom gives up after 300 ms, or at once on a closed socket.
Timeout ==
  /\ thread = "receive"
  /\ inbox = {}
  /\ timeout_counter' = Counted
  /\ thread' = IF Counted = LIMIT THEN "clear_reset" ELSE "sleep"
  /\ UNCHANGED <<ring_vars, net_vars, control_vars>>

\* Three seconds pass, or stop signals wait_cond.
Wake ==
  /\ Thread("sleep", "top")
  /\ UNCHANGED <<timeout_counter, ring_vars, net_vars, control_vars>>

\* The thread says that it runs no more, then calls conn_reset if it has to.
Clear ==
  /\ thread \in {"clear", "clear_reset"}
  /\ thread' = IF thread = "clear" THEN "returned" ELSE "reset"
  /\ running' = FALSE
  /\ UNCHANGED <<timeout_counter, ring_vars, net_vars, joined, tsock, caller>>

ConnReset ==
  /\ Thread("reset", "returned")
  /\ UNCHANGED <<timeout_counter, ring_vars, net_vars, control_vars>>

TimingThread ==
  \/ Top \/ Send \/ SendFails
  \/ \E m \in inbox, d \in Delays : Receive(m, d)
  \/ Timeout \/ Wake \/ Clear \/ ConnReset

-----------------------------------------------------------------------------
\* The RTSP side

\* raop_ntp_start: nothing happens while a thread runs, nor after one that
\* ended by itself, which nobody joined.
Start ==
  /\ caller = "idle"
  /\ ~running /\ joined
  /\ running' = TRUE /\ joined' = FALSE
  /\ tsock' = "open"
  /\ thread' = "top"
  /\ timeout_counter' = 0
  /\ UNCHANGED <<ring_vars, net_vars, caller>>

\* raop_ntp_stop: running is cleared and the sleeping thread signalled, the
\* socket closed under whatever the thread does, the thread joined.
Stop ==
  /\ caller = "idle"
  /\ running /\ ~joined
  /\ running' = FALSE
  /\ caller' = "close"
  /\ UNCHANGED <<joined, tsock, thread_vars, ring_vars, net_vars>>

StopClose ==
  /\ caller = "close"
  /\ caller' = "join"
  /\ tsock' = "closed"
  /\ inbox' = {}
  /\ UNCHANGED <<running, joined, thread_vars, ring_vars, client, wire>>

StopJoin ==
  /\ caller = "join"
  /\ thread = "returned"
  /\ thread' = "none"
  /\ caller' = "idle"
  /\ joined' = TRUE
  /\ UNCHANGED <<running, tsock, timeout_counter, ring_vars, net_vars>>

Next ==
  \/ TimingThread
  \/ \E m \in wire : Arrive(m) \/ Lose(m)
  \/ FallSilent
  \/ Start \/ Stop \/ StopClose \/ StopJoin

Spec ==
  /\ Init /\ [][Next]_vars
  /\ WF_vars(TimingThread) /\ WF_vars(StopClose) /\ WF_vars(StopJoin)
  /\ WF_vars(\E m \in wire : Arrive(m) \/ Lose(m))

-----------------------------------------------------------------------------
\* Conversions

\* raop_ntp_convert_remote_time and raop_ntp_convert_local_time.
ConvertRemote(remote) == remote - sync_offset
ConvertLocal(local) == local + sync_offset

-----------------------------------------------------------------------------
Within(error, delay) == -(delay + 1) <= 2 * error /\ 2 * error <= delay + 1

TypeOK ==
  /\ running \in BOOLEAN /\ joined \in BOOLEAN
  /\ tsock \in {"none", "open", "closed"}
  /\ thread \in {"none", "top", "send", "receive", "sleep", "clear", "clear_reset",
                 "reset", "returned"}
  /\ timeout_counter \in Nat
  /\ data \in [Slots -> [offset : Int, delay : Int]]
  /\ data_index \in Slots
  /\ sync_offset \in Int
  /\ client \in {"answering", "silent"}
  /\ \A m \in wire \cup inbox : m \in [t0 : Int, t1 : Int, t2 : Int]
  /\ caller \in {"idle", "close", "join"}

\* Once an answer has come, a time of the client's clock is converted to a
\* local one, and back, with an error of at most half of the smallest delay
\* in the ring (and one for the rounding), whatever was lost, late or out of
\* order (raop_ntp.c:342-369, 513-528).
ConvertedWithinDelay ==
  (\E i \in Slots : data[i] # Filler) =>
    \E i \in Slots :
      /\ \A j \in Slots : data[i].delay <= data[j].delay
      /\ \A t \in SendTimes :
           /\ Within(ConvertRemote(t + THETA) - t, data[i].delay)
           /\ Within(ConvertLocal(t) - (t + THETA), data[i].delay)

\* A client that answers no more is reported as gone: the thread gets as far
\* as conn_reset, unless raop_ntp_stop comes first (raop_ntp.c:306-316, 384-394).
\* This is promised only if requests do not fail to leave for ever: a sendto
\* that fails on the open socket is not counted (299-303), so without a network
\* the client that went with it is never reported.
SilentClientIsReported ==
  <>[][~(SendFails /\ tsock = "open")]_vars =>
    [](client = "silent" /\ running /\ LIMIT > 0
         => <>(thread = "reset" \/ caller = "close"))

\* A stop ends: the thread needs no signal to notice (raop_ntp.c:435-469).
StopReturns == [](caller # "idle" => <>(caller = "idle"))
=============================================================================
