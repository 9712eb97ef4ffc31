------------------------------ MODULE RaopRtp ------------------------------
(***************************************************************************)
(* The AirPlay audio receiver (lib/raop_rtp.c): a thread that receives     *)
(* audio and control packets, fills and empties the jitter buffer, and     *)
(* hands events posted by the RTSP side to the renderer; and the RTSP side *)
(* (the httpd thread) that posts events and starts, stops and destroys the *)
(* receiver.  A step of the thread is what it does between two accesses to *)
(* state the other side can see.                                           *)
(*                                                                         *)
(* The value of an event is the number of the post that carried it.        *)
(***************************************************************************)
EXTENDS Integers

CONSTANTS
  RAOP_BUFFER_LENGTH, SEQ_HALF, Packets,     \* see RaopBuffer
  MaxPosts                                   \* bound on the events posted

VARIABLES
  running, joined,             \* the flags guarded by run_mutex
  thread,                      \* where raop_rtp_thread_udp is
  rtsp,                        \* where the RTSP side is inside raop_rtp_stop
  destroying,                  \* raop_rtp_stop was called by raop_rtp_destroy
  sockets,                     \* csock and dsock are open
  freed,                       \* raop_rtp_destroy returned
  alac, no_resend,             \* ct == 2; control_rport == 0
  have_synced,                 \* a sync packet came in this session
  pending,                     \* events posted and not taken (0: none)
  taken,                       \* events taken by the thread, not delivered
  delivered,                   \* last event of each kind the renderer got
  posted,                      \* last event of each kind that was posted
  posts,                       \* number of events posted
  received,                    \* packets that arrived in this session
  is_empty, first_seqnum, last_seqnum, entries, base, top, out  \* the buffer

Buffer == INSTANCE RaopBuffer

ASSUME RtpAssumption == MaxPosts \in Nat /\ Buffer!Sizes

flags == <<running, joined, sockets, freed>>
stopping == <<rtsp, destroying>>
session == <<alac, no_resend, have_synced, received>>
events == <<pending, taken, delivered, posted, posts>>
buffer == <<is_empty, first_seqnum, last_seqnum, entries, base, top, out>>
vars == <<flags, thread, stopping, session, events, buffer>>

Kinds == {"volume", "flush", "metadata", "coverart", "remote_id", "progress"}

NoEvent == 0

NoEvents == [k \in Kinds |-> NoEvent]

Working == {"process_events", "callbacks", "select", "control", "data",
            "dequeue", "resends"}

\* The thread exists: also when it left its loop ("leaving") and when it
\* cleared `running' but has not returned ("returning").
Alive == thread \in Working \cup {"leaving", "returning"}

Init ==
  /\ running = FALSE /\ joined = TRUE
  /\ thread = "none" /\ rtsp = "idle" /\ destroying = FALSE
  /\ sockets = FALSE /\ freed = FALSE
  /\ alac = FALSE /\ no_resend = FALSE /\ have_synced = FALSE /\ received = {}
  /\ pending = NoEvents /\ taken = NoEvents /\ delivered = NoEvents
  /\ posted = NoEvents /\ posts = 0
  /\ Buffer!Init

-----------------------------------------------------------------------------
(* The RTSP side.                                                          *)

\* The RTSP thread is free to call into the receiver; a failed assertion has
\* ended the whole process.
Idle == rtsp = "idle" /\ ~freed /\ thread # "aborted"

\* An event overwrites the one of its kind that still waits.
Post(kind) ==
  /\ Idle
  /\ posts < MaxPosts
  /\ posts' = posts + 1
  /\ posted' = [posted EXCEPT ![kind] = posts']
  /\ pending' = [pending EXCEPT ![kind] = posts']
  /\ UNCHANGED <<flags, thread, stopping, session, taken, delivered, buffer>>

set_volume == Post("volume")
set_metadata == Post("metadata")
set_coverart == Post("coverart")
remote_control_id == Post("remote_id")
set_progress == Post("progress")
flush == Post("flush")

\* The sockets are opened and the thread created under run_mutex; when either
\* flag forbids it, or the sockets cannot be opened, nothing changes.
start_audio(ct_alac, no_rport) ==
  /\ Idle
  /\ ~running /\ joined
  /\ running' = TRUE /\ joined' = FALSE
  /\ sockets' = TRUE
  /\ thread' = "process_events"
  /\ alac' = ct_alac /\ no_resend' = no_rport
  /\ have_synced' = FALSE /\ received' = {}
  /\ UNCHANGED <<freed, stopping, events, buffer>>

\* raop_rtp_stop, which raop_rtp_destroy calls first: it clears `running',
\* joins the thread, closes the sockets, flushes the buffer and sets `joined',
\* unless the flags say that there is nothing to stop.
StopBegin(destroy) ==
  /\ Idle
  /\ running /\ ~joined
  /\ running' = FALSE
  /\ rtsp' = "join" /\ destroying' = destroy
  /\ UNCHANGED <<joined, sockets, freed, thread, session, events, buffer>>

\* Slip: the thread is not joined.
MutThreadReturned == TRUE

ThreadReturned == thread = "none"

StopJoin ==
  /\ rtsp = "join" /\ rtsp' = "flush"
  /\ ThreadReturned
  /\ sockets' = FALSE
  /\ UNCHANGED <<running, joined, freed, thread, destroying, session, events, buffer>>

\* Slip: the buffer keeps its packets.
MutStopFlush ==
  /\ rtsp = "flush" /\ rtsp' = "mark"
  /\ UNCHANGED <<flags, thread, destroying, session, events, buffer>>

StopFlush ==
  /\ rtsp = "flush" /\ rtsp' = "mark"
  /\ Buffer!FlushAll
  /\ UNCHANGED <<flags, thread, destroying, session, events>>

StopMark ==
  /\ rtsp = "mark" /\ rtsp' = "idle"
  /\ joined' = TRUE
  /\ freed' = destroying
  /\ UNCHANGED <<running, sockets, thread, destroying, session, events, buffer>>

\* raop_rtp_destroy of a receiver that by its flags is not running.
DestroyStopped ==
  /\ Idle
  /\ ~running \/ joined
  /\ freed' = TRUE
  /\ UNCHANGED <<running, joined, sockets, thread, stopping, session, events, buffer>>

Stopping == StopJoin \/ StopFlush \/ StopMark

RtspThread ==
  \/ set_volume \/ set_metadata \/ set_coverart
  \/ remote_control_id \/ set_progress \/ flush
  \/ \E ct_alac, no_rport \in BOOLEAN : start_audio(ct_alac, no_rport)
  \/ \E destroy \in BOOLEAN : StopBegin(destroy)
  \/ Stopping
  \/ DestroyStopped

-----------------------------------------------------------------------------
(* raop_rtp_thread_udp.                                                    *)

GoTo(from, to) == thread = from /\ thread' = to

\* Slip: `running' is not looked at.
Mutprocess_events ==
  /\ GoTo("process_events", "callbacks")
  /\ taken' = pending
  /\ pending' = NoEvents
  /\ UNCHANGED <<flags, stopping, session, delivered, posted, posts, buffer>>

\* The part of raop_rtp_process_events under run_mutex: every event is taken
\* and its place in the mailbox cleared.
process_events ==
  /\ thread = "process_events"
  /\ IF running
     THEN /\ thread' = "callbacks"
          /\ taken' = pending
          /\ pending' = NoEvents
     ELSE /\ thread' = "leaving"
          /\ UNCHANGED <<taken, pending>>
  /\ UNCHANGED <<flags, stopping, session, delivered, posted, posts, buffer>>

\* Slip: the mailbox is cleared after the callbacks, without the lock.
MutCallbacks ==
  /\ GoTo("callbacks", "select")
  /\ delivered' = [k \in Kinds |-> IF taken[k] = NoEvent THEN delivered[k] ELSE taken[k]]
  /\ taken' = NoEvents /\ pending' = NoEvents
  /\ UNCHANGED <<flags, stopping, session, posted, posts, buffer>>

\* The callbacks raop_rtp_process_events makes after unlocking.
Callbacks ==
  /\ GoTo("callbacks", "select")
  /\ delivered' = [k \in Kinds |-> IF taken[k] = NoEvent THEN delivered[k] ELSE taken[k]]
  /\ taken' = NoEvents
  /\ UNCHANGED <<flags, stopping, session, pending, posted, posts, buffer>>

\* select times out after 5 ms, fails, or finds one of the sockets readable.
Select ==
  /\ \E to \in {"process_events", "leaving", "control", "data"} : GoTo("select", to)
  /\ UNCHANGED <<flags, stopping, session, events, buffer>>

\* After the control socket the data socket may be readable too.
AfterControl == {"data", "process_events"}

\* A retransmitted packet (0x56) is stored; it is played once a data packet comes.
ControlResent(p) ==
  /\ \E to \in AfterControl : GoTo("control", to)
  /\ Buffer!Arrives(p)
  /\ Buffer!Enqueue(p)
  /\ received' = received \cup {p}
  /\ UNCHANGED <<flags, stopping, alac, no_resend, have_synced, events>>

\* A sync packet (0x54) relates the sender's clock to the local one.
ControlSync ==
  /\ \E to \in AfterControl : GoTo("control", to)
  /\ have_synced' = TRUE
  /\ UNCHANGED <<flags, stopping, alac, no_resend, received, events, buffer>>

\* Packets too short for their type, and those of another type, are ignored.
ControlIgnored ==
  /\ \E to \in AfterControl : GoTo("control", to)
  /\ UNCHANGED <<flags, stopping, session, events, buffer>>

\* Slip: the receiver waits for the next packet without looking at events.
MutDataIgnored ==
  /\ GoTo("data", "select")
  /\ UNCHANGED <<flags, stopping, session, events, buffer>>

\* Short packets, ALAC packets with format information only, and before the
\* first sync the packets that only carry the no-data marker.
DataIgnored ==
  /\ GoTo("data", "process_events")
  /\ UNCHANGED <<flags, stopping, session, events, buffer>>

\* ALAC is not played before the first sync.
AfterEnqueue == IF alac /\ ~have_synced THEN "process_events" ELSE "dequeue"

\* recvfrom's -1, held in an unsigned, passes for a long packet whose contents
\* are those of the one before it.  raop_buffer_enqueue rejects its length and
\* assert(result >= 0) fails; a Release build, which has no assertions, goes on.
ReceiveFails ==
  /\ \/ \E to \in {"aborted"} \cup AfterControl : GoTo("control", to)
     \/ \E to \in {"aborted", AfterEnqueue} : GoTo("data", to)
  /\ UNCHANGED <<flags, stopping, session, events, buffer>>

\* A packet with the no-data marker after the sync: raop_buffer_enqueue drops
\* it, and the buffer is emptied as after any other packet.
DataMarker ==
  /\ GoTo("data", "dequeue")
  /\ have_synced
  /\ UNCHANGED <<flags, stopping, session, events, buffer>>

DataAudio(p) ==
  /\ GoTo("data", AfterEnqueue)
  /\ Buffer!Arrives(p)
  /\ Buffer!Enqueue(p)
  /\ received' = received \cup {p}
  /\ UNCHANGED <<flags, stopping, alac, no_resend, have_synced, events>>

\* The loop hands payloads to audio_process until raop_buffer_dequeue returns
\* NULL: for a missing packet given up as for one still awaited.
DequeuePlay ==
  /\ GoTo("dequeue", "dequeue")
  /\ Buffer!DequeuePayload
  /\ UNCHANGED <<flags, stopping, session, events>>

DequeueNull ==
  /\ GoTo("dequeue", "resends")
  /\ Buffer!DequeueSkip(no_resend) \/ Buffer!DequeueNothing(no_resend)
  /\ UNCHANGED <<flags, stopping, session, events>>

\* A request for the missing packets goes out if ResendRequested.
HandleResends ==
  /\ GoTo("resends", "process_events")
  /\ UNCHANGED <<flags, stopping, session, events, buffer>>

ResendRequested == thread = "resends" /\ ~no_resend /\ Buffer!ResendNeeded

\* The thread clears `running' under run_mutex when it left its loop,
Leave ==
  /\ GoTo("leaving", "returning")
  /\ running' = FALSE
  /\ UNCHANGED <<joined, sockets, freed, stopping, session, events, buffer>>

\* writes to the receiver's log and returns.
Return ==
  /\ GoTo("returning", "none")
  /\ UNCHANGED <<flags, stopping, session, events, buffer>>

Thread ==
  \/ process_events \/ Callbacks \/ Select
  \/ \E p \in Packets : ControlResent(p) \/ DataAudio(p)
  \/ ControlSync \/ ControlIgnored \/ ReceiveFails
  \/ DataIgnored \/ DataMarker
  \/ DequeuePlay \/ DequeueNull \/ HandleResends
  \/ Leave \/ Return

Next == RtspThread \/ Thread

\* The thread is scheduled, and a stop that began goes on; nothing makes the
\* RTSP side call, or the sender send.
Spec == Init /\ [][Next]_vars /\ WF_vars(Thread) /\ WF_vars(Stopping)

-----------------------------------------------------------------------------
\* Every variable of the receiver holds a value its use gives it.
TypeOK ==
  /\ {running, joined, sockets, freed, destroying} \subseteq BOOLEAN
  /\ {alac, no_resend, have_synced} \subseteq BOOLEAN
  /\ thread \in Working \cup {"leaving", "returning", "none", "aborted"}
  /\ rtsp \in {"idle", "join", "flush", "mark"}
  /\ {pending, taken, delivered, posted} \subseteq [Kinds -> 0 .. MaxPosts]
  /\ posts \in 0 .. MaxPosts
  /\ received \subseteq Packets
  /\ Buffer!TypeOK

\* No event is lost between the two threads, none is delivered twice or after
\* a newer one: the last event of a kind waits in the mailbox, or is in the
\* thread's hands, or is the one the renderer has; only an event that a newer
\* one of its kind overtook may be missing.
LastPostSurvives ==
  \A k \in Kinds :
    /\ posted[k] = IF pending[k] # NoEvent THEN pending[k]
                   ELSE IF taken[k] # NoEvent THEN taken[k] ELSE delivered[k]
    /\ taken[k] # NoEvent => delivered[k] < taken[k]

\* While the thread works, its sockets are open, the receiver exists and
\* nobody else touches the buffer; there is never a second thread.
ThreadOwnsTheSession ==
  /\ Alive => ~joined
  /\ thread \in Working \cup {"leaving"} =>
       sockets /\ ~freed /\ rtsp \in {"idle", "join"}
  /\ running => thread \in Working \cup {"leaving", "aborted"}

\* What is played arrived in the session that plays it: no payload of one
\* session is left in the buffer for the next.
PlayedFromThisSession == [][DequeuePlay => out' \in received]_vars

\* raop_rtp_stop returns: the thread notices that it shall end although
\* packets keep coming, unless a failed assertion ends the process.
StopReturns == rtsp = "join" ~> rtsp = "idle" \/ thread = "aborted"

\* An event posted while the thread runs reaches the renderer, unless a newer
\* one of its kind overtakes it or the thread ends first.
EventsReachTheRenderer ==
  \A n \in 1 .. MaxPosts :
    posts >= n /\ Alive
      ~> ~Alive \/ \A k \in Kinds : posted[k] = n => delivered[k] = n

-----------------------------------------------------------------------------
(* What the code says of itself and does not keep.                         *)

\* raop_rtp_thread_udp asserts that the buffer accepts every packet.
EnqueueAccepts == thread # "aborted"

\* "Flush buffer into initial state": after raop_rtp_stop no trace of the old
\* session is left, so nothing is requested again before a packet is buffered.
NoResendBeforeAudio == ResendRequested => ~is_empty
=============================================================================
