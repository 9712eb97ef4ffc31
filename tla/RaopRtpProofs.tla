--------------------------- MODULE RaopRtpProofs ---------------------------
(***************************************************************************)
(* Proofs about the audio receiver for any number of events and packets:   *)
(* the thread owns what it works with, no event is lost on its way through *)
(* the mailbox, and what is played came in the session that plays it.      *)
(***************************************************************************)
EXTENDS RaopRtp, TLAPS

Loop == Working \cup {"leaving"}

\* ThreadOwnsTheSession and what makes it inductive: how far a stop has got,
\* and that a thread which works while no stop is under way has `running' set.
Lifecycle ==
  /\ running \in BOOLEAN /\ joined \in BOOLEAN
  /\ thread \in Loop \cup {"returning", "none", "aborted"}
  /\ rtsp \in {"idle", "join", "flush", "mark"}
  /\ ThreadOwnsTheSession
  /\ running => ~joined
  /\ thread \in Loop /\ rtsp = "idle" => running
  /\ rtsp # "idle" => ~running /\ ~joined /\ ~freed
  /\ rtsp \in {"flush", "mark"} => thread = "none"

\* A step inside the thread's loop, or out of it, that leaves the flags alone.
LEMMA LoopStep ==
  ASSUME Lifecycle, thread \in Working, thread' \in Loop \cup {"aborted"},
         UNCHANGED <<flags, stopping>>
  PROVE  Lifecycle'
  BY DEF Lifecycle, ThreadOwnsTheSession, Alive, Loop, Working, flags, stopping

\* Every step of raop_rtp_thread_udp keeps the lifecycle.
LEMMA ThreadLifecycle ==
  ASSUME Lifecycle, Thread
  PROVE  Lifecycle'
<1>1. CASE process_events
  BY <1>1, LoopStep DEF process_events, Working, Loop
<1>2. CASE Callbacks
  BY <1>2, LoopStep DEF Callbacks, GoTo, Working, Loop
<1>3. CASE Select
  BY <1>3, LoopStep DEF Select, GoTo, Working, Loop
<1>4. ASSUME NEW p \in Packets, ControlResent(p) \/ DataAudio(p)
      PROVE  Lifecycle'
  BY <1>4, LoopStep
     DEF ControlResent, DataAudio, AfterControl, AfterEnqueue, GoTo, Working, Loop
<1>5. CASE ControlSync \/ ControlIgnored \/ ReceiveFails
  BY <1>5, LoopStep
     DEF ControlSync, ControlIgnored, ReceiveFails, AfterControl, AfterEnqueue, session, GoTo, Working, Loop
<1>6. CASE DataIgnored \/ DataMarker
  BY <1>6, LoopStep DEF DataIgnored, DataMarker, GoTo, Working, Loop
<1>7. CASE DequeuePlay \/ DequeueNull \/ HandleResends
  BY <1>7, LoopStep DEF DequeuePlay, DequeueNull, HandleResends, GoTo, Working, Loop
<1>8. CASE Leave
  BY <1>8 DEF Leave, GoTo, Lifecycle, ThreadOwnsTheSession, Alive, Loop, Working, stopping
<1>9. CASE Return
  BY <1>9 DEF Return, GoTo, Lifecycle, ThreadOwnsTheSession, Alive, Loop, Working,
              flags, stopping
<1> QED BY <1>1, <1>2, <1>3, <1>4, <1>5, <1>6, <1>7, <1>8, <1>9 DEF Thread

\* Every call of the RTSP side keeps the lifecycle.
LEMMA RtspLifecycle ==
  ASSUME Lifecycle, RtspThread
  PROVE  Lifecycle'
<1> USE DEF Lifecycle, ThreadOwnsTheSession, Alive, Loop, Working
<1>1. ASSUME NEW k, Post(k)
      PROVE  Lifecycle'
  BY <1>1 DEF Post, flags, stopping
<1>2. ASSUME NEW ct_alac, NEW no_rport, start_audio(ct_alac, no_rport)
      PROVE  Lifecycle'
  BY <1>2 DEF start_audio, Idle, stopping
<1>3. ASSUME NEW destroy, StopBegin(destroy)
      PROVE  Lifecycle'
  BY <1>3 DEF StopBegin, Idle
<1>4. CASE StopJoin
  BY <1>4 DEF StopJoin, ThreadReturned
<1>5. CASE StopFlush
  BY <1>5 DEF StopFlush, flags
<1>6. CASE StopMark
  BY <1>6 DEF StopMark
<1>7. CASE DestroyStopped
  BY <1>7 DEF DestroyStopped, Idle, stopping
<1> QED BY <1>1, <1>2, <1>3, <1>4, <1>5, <1>6, <1>7
        DEF RtspThread, Stopping, set_volume, set_metadata, set_coverart,
            remote_control_id, set_progress, flush

\* The lifecycle holds in every reachable state.
LEMMA LifecycleAlways == Spec => []Lifecycle
<1>1. Init => Lifecycle
  BY DEF Init, Lifecycle, ThreadOwnsTheSession, Alive, Loop, Working
<1>2. Lifecycle /\ [Next]_vars => Lifecycle'
  <2>1. ASSUME Lifecycle, UNCHANGED vars
        PROVE  Lifecycle'
    BY <2>1 DEF vars, flags, stopping, Lifecycle, ThreadOwnsTheSession, Alive, Loop, Working
  <2> QED BY <2>1, ThreadLifecycle, RtspLifecycle DEF Next
<1> QED BY <1>1, <1>2, PTL DEF Spec

\* However the RTSP side starts, stops and destroys the receiver, the thread
\* never works without its sockets or after the receiver was freed, never with
\* a stop that already flushes the buffer, and never beside another one.
THEOREM OwnershipAlways == Spec => []ThreadOwnsTheSession
<1>1. Lifecycle => ThreadOwnsTheSession
  BY DEF Lifecycle
<1> QED BY <1>1, LifecycleAlways, PTL

-----------------------------------------------------------------------------
\* LastPostSurvives and what makes it inductive: posts are numbered upwards,
\* what waits is newer than what was taken or delivered, and the thread holds
\* events only between taking and delivering them.
Mailbox ==
  /\ posts \in Nat
  /\ pending \in [Kinds -> Nat] /\ taken \in [Kinds -> Nat]
  /\ delivered \in [Kinds -> Nat] /\ posted \in [Kinds -> Nat]
  /\ thread # "callbacks" => taken = NoEvents
  /\ \A k \in Kinds :
       /\ pending[k] <= posts /\ taken[k] <= posts /\ delivered[k] <= posts
       /\ pending[k] # NoEvent => taken[k] < pending[k] /\ delivered[k] < pending[k]
  /\ LastPostSurvives

\* Posting an event keeps the mailbox.
LEMMA PostKeeps ==
  ASSUME Mailbox, NEW kind \in Kinds, Post(kind)
  PROVE  Mailbox'
<1>1. /\ posts' = posts + 1 /\ posts \in Nat
      /\ pending' = [pending EXCEPT ![kind] = posts + 1]
      /\ posted' = [posted EXCEPT ![kind] = posts + 1]
      /\ taken' = taken /\ delivered' = delivered /\ thread' = thread
  BY DEF Post, Mailbox
<1> QED BY <1>1 DEF Mailbox, LastPostSurvives, NoEvent

\* Taking every pending event under the lock keeps the mailbox.
LEMMA TakeKeeps ==
  ASSUME Mailbox, process_events
  PROVE  Mailbox'
<1>1. CASE running
  <2>1. /\ taken = NoEvents /\ taken' = pending /\ pending' = NoEvents
        /\ thread' = "callbacks" /\ UNCHANGED <<delivered, posted, posts>>
    BY <1>1 DEF process_events, Mailbox
  <2> QED BY <2>1 DEF Mailbox, LastPostSurvives, NoEvents, NoEvent
<1>2. CASE ~running
  <2>1. thread' = "leaving" /\ taken = NoEvents
        /\ UNCHANGED <<taken, pending, delivered, posted, posts>>
    BY <1>2 DEF process_events, Mailbox
  <2> QED BY <2>1 DEF Mailbox, LastPostSurvives
<1> QED BY <1>1, <1>2

\* Delivering the taken events keeps the mailbox.
LEMMA DeliverKeeps ==
  ASSUME Mailbox, Callbacks
  PROVE  Mailbox'
<1>1. /\ delivered' = [k \in Kinds |-> IF taken[k] = NoEvent THEN delivered[k] ELSE taken[k]]
      /\ taken' = NoEvents /\ UNCHANGED <<pending, posted, posts>>
  BY DEF Callbacks
<1> QED BY <1>1 DEF Mailbox, LastPostSurvives, NoEvents, NoEvent

\* Every other step leaves the mailbox alone and does not begin a delivery.
LEMMA OtherKeeps ==
  ASSUME Mailbox, UNCHANGED events,
         thread' = thread \/ (thread # "callbacks" /\ thread' # "callbacks")
  PROVE  Mailbox'
  BY DEF Mailbox, LastPostSurvives, events

\* Through starts, stops and any interleaving with the thread, the last event
\* posted of every kind is waiting, in the thread's hands or delivered, and no
\* delivery is followed by an older one.
THEOREM NoEventLost == Spec => []LastPostSurvives
<1>1. Init => Mailbox
  BY DEF Init, Mailbox, LastPostSurvives, NoEvents, NoEvent
<1>2. Lifecycle /\ Mailbox /\ [Next]_vars => Mailbox'
  <2> SUFFICES ASSUME Lifecycle, Mailbox, [Next]_vars
               PROVE  Mailbox'
    OBVIOUS
  <2>1. CASE \E k \in Kinds : Post(k)
    BY <2>1, PostKeeps
  <2>2. ASSUME NEW ct_alac, NEW no_rport, start_audio(ct_alac, no_rport)
        PROVE  Mailbox'
    <3>1. thread # "callbacks"
      BY <2>2 DEF start_audio, Lifecycle, ThreadOwnsTheSession, Alive, Working
    <3> QED BY <2>2, <3>1, OtherKeeps DEF start_audio
  <2>3. ASSUME NEW destroy, StopBegin(destroy)
        PROVE  Mailbox'
    BY <2>3, OtherKeeps DEF StopBegin
  <2>4. CASE Stopping \/ DestroyStopped
    BY <2>4, OtherKeeps DEF Stopping, StopJoin, StopFlush, StopMark, DestroyStopped
  <2>5. CASE RtspThread
    BY <2>1, <2>2, <2>3, <2>4, <2>5
       DEF RtspThread, set_volume, set_metadata, set_coverart, remote_control_id,
           set_progress, flush, Kinds
  <2>6. CASE Thread
    <3>1. CASE process_events
      BY <3>1, TakeKeeps
    <3>2. CASE Callbacks
      BY <3>2, DeliverKeeps
    <3>3. CASE Select
      BY <3>3, OtherKeeps DEF Select, GoTo
    <3>4. ASSUME NEW p \in Packets, ControlResent(p) \/ DataAudio(p)
          PROVE  Mailbox'
      BY <3>4, OtherKeeps DEF ControlResent, DataAudio, AfterControl, AfterEnqueue, GoTo
    <3>5. CASE ControlSync \/ ControlIgnored \/ ReceiveFails
      BY <3>5, OtherKeeps DEF ControlSync, ControlIgnored, ReceiveFails, AfterControl, AfterEnqueue, GoTo
    <3>6. CASE DataIgnored \/ DataMarker \/ DequeuePlay \/ DequeueNull \/ HandleResends
      BY <3>6, OtherKeeps
         DEF DataIgnored, DataMarker, DequeuePlay, DequeueNull, HandleResends, GoTo
    <3>7. CASE Leave \/ Return
      BY <3>7, OtherKeeps DEF Leave, Return, GoTo
    <3> QED BY <2>6, <3>1, <3>2, <3>3, <3>4, <3>5, <3>6, <3>7 DEF Thread
  <2>7. CASE UNCHANGED vars
    BY <2>7, OtherKeeps DEF vars
  <2> QED BY <2>5, <2>6, <2>7 DEF Next
<1>3. Mailbox => LastPostSurvives
  BY DEF Mailbox
<1> QED BY <1>1, <1>2, <1>3, LifecycleAlways, PTL DEF Spec
-----------------------------------------------------------------------------
(* What is played.  The results about the buffer are those of              *)
(* RaopBufferProofs.                                                       *)
Proved == INSTANCE RaopBufferProofs

\* The two instances of the buffer are the same.
LEMMA SameOperators ==
  /\ \A s, t : Buffer!seqnum_cmp(s, t) = Proved!seqnum_cmp(s, t)
  /\ \A s : Buffer!Slot(s) = Proved!Slot(s)
  /\ Buffer!Slots = Proved!Slots /\ Buffer!SEQ_RANGE = Proved!SEQ_RANGE
  /\ Buffer!EmptyEntry = Proved!EmptyEntry
  BY Zenon DEF Buffer!seqnum_cmp, Proved!seqnum_cmp, Buffer!SEQ_RANGE, Proved!SEQ_RANGE,
         Buffer!Slot, Proved!Slot, Buffer!Slots, Proved!Slots, Buffer!EmptyEntry,
         Proved!EmptyEntry, Buffer!NoPacket, Proved!NoPacket

\* So are their tests on packets and on the head of the ring.
LEMMA SameTests ==
  /\ \A s : Buffer!TooLate(s) <=> Proved!TooLate(s)
  /\ \A s : Buffer!NoSpace(s) <=> Proved!NoSpace(s)
  /\ \A s : Buffer!AlreadyHeld(s) <=> Proved!AlreadyHeld(s)
  /\ Buffer!EntryCount = Proved!EntryCount /\ Buffer!First = Proved!First
  /\ (Buffer!Dequeueable <=> Proved!Dequeueable)
  /\ \A p : Buffer!Arrives(p) <=> Proved!Arrives(p)
  BY SameOperators, Zenon DEF Buffer!TooLate, Proved!TooLate, Buffer!NoSpace, Proved!NoSpace,
         Buffer!AlreadyHeld, Proved!AlreadyHeld, Buffer!EntryCount, Proved!EntryCount,
         Buffer!First, Proved!First, Buffer!Dequeueable, Proved!Dequeueable,
         Buffer!Arrives, Proved!Arrives

\* So are their operations.
LEMMA SameSteps ==
  /\ \A p : Buffer!Enqueue(p) => Proved!Enqueue(p)
  /\ Buffer!DequeuePayload => Proved!DequeuePayload
  /\ \A r : Buffer!DequeueSkip(r) => Proved!DequeueSkip(r)
  /\ \A r : Buffer!DequeueNothing(r) => Proved!DequeueNothing(r)
  /\ Buffer!FlushAll => Proved!FlushAll
<1>1. ASSUME NEW p, NEW e, NEW last, Buffer!Store(p, e, last)
      PROVE  Proved!Store(p, e, last)
  BY <1>1, SameOperators, Zenon DEF Buffer!Store, Proved!Store
<1>2. Buffer!vars = Proved!vars /\ (UNCHANGED Buffer!vars => UNCHANGED Proved!vars)
  BY DEF Buffer!vars, Proved!vars
<1>3. ASSUME NEW p, Buffer!EnqueueDropped(p)
      PROVE  Proved!EnqueueDropped(p)
  BY <1>2, <1>3, SameOperators, SameTests, Zenon DEF Buffer!EnqueueDropped, Proved!EnqueueDropped
<1>4. ASSUME NEW p, Buffer!EnqueueInSpace(p)
      PROVE  Proved!EnqueueInSpace(p)
  BY <1>1, <1>4, SameOperators, SameTests, Zenon DEF Buffer!EnqueueInSpace, Proved!EnqueueInSpace
<1>5. ASSUME NEW p, Buffer!EnqueueFlushing(p)
      PROVE  Proved!EnqueueFlushing(p)
  BY <1>1, <1>5, SameOperators, SameTests, Zenon DEF Buffer!EnqueueFlushing, Proved!EnqueueFlushing
<1>6. Buffer!Advance => Proved!Advance
  BY SameOperators, Zenon DEF Buffer!Advance, Proved!Advance
<1>7. Buffer!DequeuePayload => Proved!DequeuePayload
  BY <1>6, SameOperators, SameTests, Zenon DEF Buffer!DequeuePayload, Proved!DequeuePayload
<1>8. ASSUME NEW r, Buffer!DequeueSkip(r)
      PROVE  Proved!DequeueSkip(r)
  BY <1>6, <1>8, SameOperators, SameTests, Zenon DEF Buffer!DequeueSkip, Proved!DequeueSkip
<1>9. ASSUME NEW r, Buffer!DequeueNothing(r)
      PROVE  Proved!DequeueNothing(r)
  BY <1>2, <1>9, SameOperators, SameTests, Zenon DEF Buffer!DequeueNothing, Proved!DequeueNothing
<1>10. Buffer!FlushAll => Proved!FlushAll
  BY SameOperators, Zenon DEF Buffer!FlushAll, Proved!FlushAll
<1> QED
  BY <1>3, <1>4, <1>5, <1>7, <1>8, <1>9, <1>10, Zenon DEF Buffer!Enqueue, Proved!Enqueue

\* The constants are those the buffer is proved for.
LEMMA BufferSizes == Proved!Sizes
  BY RtpAssumption, SameOperators DEF Buffer!Sizes, Proved!Sizes

\* What a step of the receiver is to the buffer: one of its operations or none.
LEMMA BufferStep ==
  ASSUME no_resend \in BOOLEAN, [Next]_vars
  PROVE  [Proved!Next]_(Proved!vars)
<1>1. UNCHANGED buffer => UNCHANGED Proved!vars
  BY DEF buffer, Proved!vars
<1>2. CASE UNCHANGED buffer
  BY <1>1, <1>2
<1>3. ASSUME NEW p \in Packets, ControlResent(p) \/ DataAudio(p)
      PROVE  Proved!Next
  BY <1>3, SameTests, SameSteps, Zenon DEF ControlResent, DataAudio, Proved!Next
<1>4. CASE DequeuePlay
  BY <1>4, SameSteps, Zenon DEF DequeuePlay, Proved!Next
<1>5. CASE DequeueNull
  BY <1>5, SameSteps, Zenon DEF DequeueNull, Proved!Next
<1>6. CASE StopFlush
  BY <1>6, SameSteps, Zenon DEF StopFlush, Proved!Next
<1>7. CASE Thread
  <2>1. CASE process_events \/ Callbacks \/ Select \/ ControlSync \/ ControlIgnored
    BY <1>2, <2>1 DEF process_events, Callbacks, Select, ControlSync, ControlIgnored
  <2>2. CASE ReceiveFails \/ DataIgnored \/ DataMarker \/ HandleResends \/ Leave \/ Return
    BY <1>2, <2>2 DEF ReceiveFails, DataIgnored, DataMarker, HandleResends, Leave, Return
  <2> QED BY <1>3, <1>4, <1>5, <1>7, <2>1, <2>2 DEF Thread
<1>8. CASE RtspThread
  <2>1. ASSUME NEW k, Post(k)
        PROVE  UNCHANGED buffer
    BY <2>1 DEF Post
  <2>2. ASSUME NEW ct_alac, NEW no_rport, start_audio(ct_alac, no_rport)
        PROVE  UNCHANGED buffer
    BY <2>2 DEF start_audio
  <2>3. ASSUME NEW destroy, StopBegin(destroy)
        PROVE  UNCHANGED buffer
    BY <2>3 DEF StopBegin
  <2>4. CASE StopJoin \/ StopMark \/ DestroyStopped
    BY <1>2, <2>4 DEF StopJoin, StopMark, DestroyStopped
  <2> QED BY <1>2, <1>6, <1>8, <2>1, <2>2, <2>3, <2>4
        DEF RtspThread, Stopping, set_volume, set_metadata, set_coverart,
            remote_control_id, set_progress, flush
<1>9. CASE UNCHANGED vars
  BY <1>2, <1>9 DEF vars
<1> QED BY <1>7, <1>8, <1>9 DEF Next

\* What waits in a ring is among these packets.
HoldsOnly(ring, packets) ==
  \A i \in Proved!Slots : ring[i].filled => ring[i].payload \in packets

NothingHeld == \A i \in Proved!Slots : ~entries[i].filled

\* PlayedFromThisSession made inductive: between two sessions nothing is held.
PlayInv ==
  /\ Proved!IInv
  /\ no_resend \in BOOLEAN
  /\ HoldsOnly(entries, received)
  /\ joined \/ rtsp = "mark" => NothingHeld

\* What is in the ring, as TypeOK of the buffer says it.
LEMMA RingType ==
  ASSUME Proved!IInv
  PROVE  /\ entries \in [Proved!Slots -> [filled : BOOLEAN, payload : Nat \cup {-1}]]
         /\ Proved!Slot(first_seqnum) \in Proved!Slots
<1>1. /\ entries \in [Proved!Slots -> [filled : BOOLEAN, payload : Nat \cup {-1}]]
      /\ first_seqnum \in 0 .. Proved!SEQ_RANGE - 1 /\ Proved!SEQ_RANGE \in Nat
  BY BufferSizes
     DEF Proved!IInv, Proved!TypeOK, Proved!NoPacket, Proved!SeqNums, Proved!Sizes, Proved!SEQ_RANGE
<1>2. RAOP_BUFFER_LENGTH \in Nat \ {0}
  BY BufferSizes DEF Proved!Sizes
<1>3. first_seqnum \in Int
  BY <1>1
<1>4. first_seqnum % RAOP_BUFFER_LENGTH \in 0 .. RAOP_BUFFER_LENGTH - 1
  BY <1>2, <1>3
<1> QED BY <1>1, <1>4 DEF Proved!Slot, Proved!Slots

\* An operation brings no packet into the ring but the one that is enqueued.
LEMMA EnqueueBrings ==
  ASSUME Proved!IInv, NEW p \in Nat, Proved!Enqueue(p), NEW S, HoldsOnly(entries, S)
  PROVE  HoldsOnly(entries', S \cup {p})
<1> DEFINE E == [filled : BOOLEAN, payload : Nat \cup {-1}]
<1>1. entries \in [Proved!Slots -> E]
  BY RingType
<1>2. ASSUME NEW e \in [Proved!Slots -> E], NEW last, Proved!Store(p, e, last),
             \A i \in Proved!Slots : e[i].filled => e[i].payload \in S
      PROVE  HoldsOnly(entries', S \cup {p})
  <2> DEFINE s == Proved!Slot(p % Proved!SEQ_RANGE)
  <2>1. entries' = [e EXCEPT ![s] = [filled |-> TRUE, payload |-> p]]
    BY <1>2 DEF Proved!Store
  <2> HIDE DEF s
  <2> QED BY <1>2, <2>1 DEF HoldsOnly
<1>3. [i \in Proved!Slots |-> Proved!EmptyEntry] \in [Proved!Slots -> E]
  BY DEF Proved!EmptyEntry, Proved!NoPacket
<1>4. CASE Proved!EnqueueDropped(p)
  BY <1>4 DEF Proved!EnqueueDropped, Proved!vars, HoldsOnly
<1>5. CASE Proved!EnqueueInSpace(p)
  BY <1>1, <1>2, <1>5 DEF Proved!EnqueueInSpace, HoldsOnly
<1>6. CASE Proved!EnqueueFlushing(p)
  BY <1>2, <1>3, <1>6 DEF Proved!EnqueueFlushing, Proved!EmptyEntry
<1> QED BY <1>4, <1>5, <1>6 DEF Proved!Enqueue

\* What is handed to the renderer is one of the packets in the ring.
LEMMA DequeueTakes ==
  ASSUME Proved!IInv, NEW S, HoldsOnly(entries, S), Proved!DequeuePayload
  PROVE  out' \in S /\ HoldsOnly(entries', S)
<1>1. /\ entries \in [Proved!Slots -> [filled : BOOLEAN, payload : Nat \cup {-1}]]
      /\ Proved!Slot(first_seqnum) \in Proved!Slots
  BY RingType
<1>2. /\ entries[Proved!Slot(first_seqnum)].filled
      /\ out' = entries[Proved!Slot(first_seqnum)].payload
      /\ entries' = [entries EXCEPT ![Proved!Slot(first_seqnum)] = Proved!EmptyEntry]
  BY DEF Proved!DequeuePayload, Proved!First
<1> QED BY <1>1, <1>2 DEF HoldsOnly, Proved!EmptyEntry

\* A step that leaves the ring alone and forgets no packet that came.
LEMMA QuietPlay ==
  ASSUME PlayInv, Proved!IInv', UNCHANGED <<entries, no_resend>>, received \subseteq received',
         (joined \/ rtsp = "mark")' => joined \/ rtsp = "mark"
  PROVE  PlayInv'
  BY DEF PlayInv, HoldsOnly, NothingHeld

\* Every step of the thread, which works on the ring while it is not joined.
LEMMA ThreadPlays ==
  ASSUME Lifecycle, PlayInv, Proved!IInv', Thread
  PROVE  PlayInv' /\ (DequeuePlay => out' \in received)
<1>1. ASSUME NEW p \in Packets, ControlResent(p) \/ DataAudio(p)
      PROVE  PlayInv'
  <2>1. /\ Proved!Enqueue(p) /\ received' = received \cup {p}
        /\ UNCHANGED <<no_resend, joined, rtsp>> /\ thread \in Working
    BY <1>1, SameSteps DEF ControlResent, DataAudio, GoTo, Working, flags, stopping
  <2>2. p \in Nat
    BY BufferSizes DEF Proved!Sizes
  <2>3. HoldsOnly(entries', received \cup {p})
    BY <2>1, <2>2, EnqueueBrings DEF PlayInv
  <2>4. ~joined' /\ rtsp' # "mark"
    BY <2>1 DEF Lifecycle, ThreadOwnsTheSession, Alive, Working
  <2> QED BY <2>1, <2>3, <2>4 DEF PlayInv, HoldsOnly
<1>2. CASE DequeuePlay
  <2>1. /\ Proved!DequeuePayload
        /\ UNCHANGED <<received, no_resend, joined, rtsp>> /\ thread \in Working
    BY <1>2, SameSteps DEF DequeuePlay, GoTo, Working, flags, stopping, session
  <2>2. out' \in received /\ HoldsOnly(entries, received)'
    BY <2>1, DequeueTakes DEF PlayInv, HoldsOnly
  <2>3. ~joined' /\ rtsp' # "mark"
    BY <2>1 DEF Lifecycle, ThreadOwnsTheSession, Alive, Working
  <2> QED BY <2>1, <2>2, <2>3 DEF PlayInv
<1>3. ASSUME DequeueNull
      PROVE  PlayInv'
  <2>1. UNCHANGED entries
    BY <1>3 DEF DequeueNull, Buffer!DequeueSkip, Buffer!DequeueNothing, Buffer!vars
  <2> QED BY <1>3, <2>1, QuietPlay DEF DequeueNull, flags, stopping, session
<1>4. ASSUME process_events \/ Callbacks \/ Select \/ ControlSync \/ ControlIgnored
      PROVE  PlayInv'
  BY <1>4, QuietPlay
     DEF process_events, Callbacks, Select, ControlSync, ControlIgnored, flags, stopping,
         session, buffer
<1>5. ASSUME ReceiveFails \/ DataIgnored \/ DataMarker \/ HandleResends \/ Leave \/ Return
      PROVE  PlayInv'
  BY <1>5, QuietPlay
     DEF ReceiveFails, DataIgnored, DataMarker, HandleResends, Leave, Return, flags, stopping,
         session, buffer
<1>6. ASSUME DequeuePlay
      PROVE  out' \in received
  BY <1>2, <1>6, SameSteps, DequeueTakes DEF DequeuePlay, PlayInv
<1> QED BY <1>1, <1>2, <1>3, <1>4, <1>5, <1>6 DEF Thread

\* Every call of the RTSP side: a stop leaves nothing held, a start begins anew.
LEMMA RtspPlays ==
  ASSUME Lifecycle, PlayInv, Proved!IInv', RtspThread
  PROVE  PlayInv'
<1>1. ASSUME NEW k, Post(k)
      PROVE  PlayInv'
  BY <1>1, QuietPlay DEF Post, flags, stopping, session, buffer
<1>2. ASSUME NEW ct_alac \in BOOLEAN, NEW no_rport \in BOOLEAN, start_audio(ct_alac, no_rport)
      PROVE  PlayInv'
  <2>1. /\ joined /\ ~joined' /\ rtsp = "idle" /\ rtsp' = rtsp
        /\ entries' = entries /\ no_resend' = no_rport
    BY <1>2 DEF start_audio, Idle, stopping, buffer
  <2> QED BY <2>1 DEF PlayInv, HoldsOnly, NothingHeld
<1>3. ASSUME NEW destroy, StopBegin(destroy)
      PROVE  PlayInv'
  BY <1>3, QuietPlay DEF StopBegin, session, buffer
<1>4. CASE StopJoin
  BY <1>4, QuietPlay DEF StopJoin, session, buffer
<1>5. CASE StopFlush
  <2>1. entries' = [i \in Proved!Slots |-> Proved!EmptyEntry] /\ UNCHANGED <<received, no_resend>>
    BY <1>5, SameSteps DEF StopFlush, Proved!FlushAll, session
  <2>2. NothingHeld'
    BY <2>1 DEF NothingHeld, Proved!EmptyEntry
  <2> QED BY <2>1, <2>2 DEF PlayInv, HoldsOnly, NothingHeld
<1>6. CASE StopMark
  BY <1>6, QuietPlay DEF StopMark, session, buffer
<1>7. CASE DestroyStopped
  BY <1>7, QuietPlay DEF DestroyStopped, stopping, session, buffer
<1> QED BY <1>1, <1>2, <1>3, <1>4, <1>5, <1>6, <1>7
        DEF RtspThread, Stopping, set_volume, set_metadata, set_coverart,
            remote_control_id, set_progress, flush

\* Every step keeps the invariant and plays only what came in this session.
LEMMA PlayStep ==
  ASSUME Lifecycle, PlayInv, [Next]_vars
  PROVE  /\ PlayInv'
         /\ DequeuePlay => out' \in received
<1>1. [Proved!Next]_(Proved!vars)
  BY BufferStep DEF PlayInv
<1>2. Proved!IInv'
  BY <1>1, BufferSizes, Proved!StepRefines DEF PlayInv, Proved!StepRefines
<1>3. ASSUME UNCHANGED vars
      PROVE  PlayInv'
  BY <1>2, <1>3, QuietPlay DEF vars, flags, stopping, session, buffer
<1>4. DequeuePlay => out' \in received
  BY <1>2, ThreadPlays DEF Thread
<1> QED BY <1>2, <1>3, <1>4, ThreadPlays, RtspPlays DEF Next

\* The receiver begins with an empty buffer.
LEMMA PlayBegins == Init => PlayInv
<1> SUFFICES ASSUME Init PROVE PlayInv
  OBVIOUS
<1>1. Proved!Init
  BY SameOperators, Zenon DEF Init, Buffer!Init, Proved!Init, Buffer!NoPacket, Proved!NoPacket
<1>2. Proved!IInv
  BY <1>1, BufferSizes, Proved!InitRefines DEF Proved!InitRefines
<1>3. NothingHeld
  BY <1>1 DEF Proved!Init, NothingHeld, Proved!EmptyEntry
<1> QED BY <1>2, <1>3 DEF PlayInv, Init, HoldsOnly, NothingHeld

\* The invariant holds in every reachable state.
LEMMA PlayAlways == Spec => []PlayInv
<1>1. Lifecycle /\ PlayInv /\ [Next]_vars => PlayInv'
  BY PlayStep
<1> QED BY <1>1, PlayBegins, LifecycleAlways, PTL DEF Spec

\* For every ring length and stream, a payload that the renderer gets arrived
\* since the audio was started: stopping and starting the receiver, and the
\* steps of its thread in between, leave no packet of one session to the next.
THEOREM PlayedAlways == Spec => PlayedFromThisSession
<1>1. Lifecycle /\ PlayInv /\ [Next]_vars => [DequeuePlay => out' \in received]_vars
  BY PlayStep
<1> QED BY <1>1, PlayAlways, LifecycleAlways, PTL DEF Spec, PlayedFromThisSession

=============================================================================
