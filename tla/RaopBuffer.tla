----------------------------- MODULE RaopBuffer -----------------------------
(***************************************************************************)
(* The jitter buffer of the AirPlay audio stream (lib/raop_buffer.c): a    *)
(* ring of RAOP_BUFFER_LENGTH entries addressed by 16-bit RTP sequence     *)
(* numbers, filled in any order by data and retransmitted packets, emptied *)
(* in order by the audio thread.                                           *)
(*                                                                         *)
(* A packet is named by its place p in the sender's stream; on the wire it *)
(* carries only p % SEQ_RANGE, and that is all the operations look at.     *)
(* `base' and `top' are history variables: the places that first_seqnum    *)
(* and last_seqnum stand for.  Payloads are abstracted to the packet they  *)
(* came from; decryption (AES-CBC per packet) keeps no state in between.   *)
(***************************************************************************)
EXTENDS Integers

CONSTANTS
  RAOP_BUFFER_LENGTH,          \* entries in the ring (32 in the code)
  SEQ_HALF,                    \* half the sequence number range (2^15)
  Packets                      \* places in the sender's stream

SEQ_RANGE == 2 * SEQ_HALF      \* values of an unsigned short

\* Fewer entries than half the sequence numbers, which are a multiple of them:
\* what an unsigned short and 32 entries are to each other.
Sizes ==
  /\ RAOP_BUFFER_LENGTH \in Nat \ {0}
  /\ SEQ_HALF \in Nat
  /\ RAOP_BUFFER_LENGTH < SEQ_HALF
  /\ SEQ_RANGE % RAOP_BUFFER_LENGTH = 0
  /\ Packets \subseteq Nat

ASSUME BufferAssumption == Sizes

VARIABLES
  is_empty,                    \* no packet since the start or the last flush
  first_seqnum,                \* sequence number to be dequeued next
  last_seqnum,                 \* newest sequence number enqueued
  entries,                     \* the ring
  base, top,                   \* places of first_seqnum and last_seqnum
  out                          \* packet of the last payload dequeued

vars == <<is_empty, first_seqnum, last_seqnum, entries, base, top, out>>

NoPacket == -1                 \* a NULL payload

Slots == 0 .. RAOP_BUFFER_LENGTH - 1

SeqNums == 0 .. SEQ_RANGE - 1

Slot(seqnum) == seqnum % RAOP_BUFFER_LENGTH

\* (short) (s1 - s2): how far s1 is ahead of s2, across the wrap-around.
seqnum_cmp(s1, s2) ==
  LET d == (s1 - s2) % SEQ_RANGE
  IN  IF d < SEQ_HALF THEN d ELSE d - SEQ_RANGE

\* entry->seqnum is the sequence number of the packet whose payload the entry
\* holds, and is read only while the entry is filled.
EmptyEntry == [filled |-> FALSE, payload |-> NoPacket]

Init ==
  /\ is_empty = TRUE
  /\ first_seqnum = 0
  /\ last_seqnum = 0
  /\ entries = [i \in Slots |-> EmptyEntry]
  /\ base = 0
  /\ top = 0
  /\ out = NoPacket

-----------------------------------------------------------------------------
(* raop_buffer_enqueue.  Both of its callers pass use_seqnum = 1.          *)

\* Slip: the sequence numbers are compared without regard to the wrap-around.
MutTooLate(seqnum) == ~is_empty /\ seqnum < first_seqnum

\* The packet is older than everything still wanted.
TooLate(seqnum) == ~is_empty /\ seqnum_cmp(seqnum, first_seqnum) < 0

\* Slip: off by one.
MutNoSpace(seqnum) ==
  seqnum_cmp(seqnum, (first_seqnum + RAOP_BUFFER_LENGTH) % SEQ_RANGE) > 0

\* The packet lies beyond the ring: all entries are flushed to make room.
NoSpace(seqnum) ==
  seqnum_cmp(seqnum, (first_seqnum + RAOP_BUFFER_LENGTH) % SEQ_RANGE) >= 0

\* The slot already holds this very packet.
AlreadyHeld(seqnum) ==
  /\ entries[Slot(seqnum)].filled
  /\ seqnum_cmp(entries[Slot(seqnum)].payload % SEQ_RANGE, seqnum) = 0

\* Fill the slot of packet p in ring e, whose newest sequence number is last,
\* and advance the sequence numbers.
Store(p, e, last) ==
  LET seqnum == p % SEQ_RANGE
      newest == is_empty \/ seqnum_cmp(seqnum, last) > 0
  IN  /\ entries' = [e EXCEPT ![Slot(seqnum)] =
                       [filled |-> TRUE, payload |-> p]]
      /\ last_seqnum' = IF newest THEN seqnum ELSE last
      /\ top' = IF newest THEN p ELSE top
      /\ is_empty' = FALSE
      /\ UNCHANGED out

\* A packet that comes too late or again changes nothing, like one of a
\* malformed length and the markers sent before there is audio.
EnqueueDropped(p) ==
  LET seqnum == p % SEQ_RANGE
  IN  /\ TooLate(seqnum) \/ (~NoSpace(seqnum) /\ AlreadyHeld(seqnum))
      /\ UNCHANGED vars

EnqueueInSpace(p) ==
  LET seqnum == p % SEQ_RANGE
  IN  /\ ~TooLate(seqnum)
      /\ ~NoSpace(seqnum)
      /\ ~AlreadyHeld(seqnum)
      /\ Store(p, entries, last_seqnum)
      /\ first_seqnum' = IF is_empty THEN seqnum ELSE first_seqnum
      /\ base' = IF is_empty THEN p ELSE base

EnqueueFlushing(p) ==
  LET seqnum == p % SEQ_RANGE
  IN  /\ ~TooLate(seqnum)
      /\ NoSpace(seqnum)
      /\ Store(p, [i \in Slots |-> EmptyEntry], (seqnum - 1) % SEQ_RANGE)
      /\ first_seqnum' = seqnum
      /\ base' = p

Enqueue(p) == EnqueueDropped(p) \/ EnqueueInSpace(p) \/ EnqueueFlushing(p)

-----------------------------------------------------------------------------
(* raop_buffer_dequeue, raop_buffer_handle_resends and raop_buffer_flush.  *)

EntryCount == seqnum_cmp(last_seqnum, first_seqnum) + 1

First == entries[Slot(first_seqnum)]

Dequeueable == ~is_empty /\ EntryCount > 0

\* Slip: first_seqnum wider than an unsigned short.
MutAdvance ==
  /\ first_seqnum' = first_seqnum + 1
  /\ base' = base + 1
  /\ UNCHANGED <<is_empty, last_seqnum, top>>

Advance ==
  /\ first_seqnum' = (first_seqnum + 1) % SEQ_RANGE
  /\ base' = base + 1
  /\ UNCHANGED <<is_empty, last_seqnum, top>>

\* The payload at the head of the window is handed to the caller.
DequeuePayload ==
  /\ Dequeueable
  /\ First.filled
  /\ out' = First.payload
  /\ entries' = [entries EXCEPT ![Slot(first_seqnum)] = EmptyEntry]
  /\ Advance

\* The head is missing and given up: NULL is returned, but first_seqnum moves on.
DequeueSkip(no_resend) ==
  /\ Dequeueable
  /\ ~First.filled
  /\ no_resend \/ EntryCount >= RAOP_BUFFER_LENGTH
  /\ UNCHANGED <<entries, out>>
  /\ Advance

\* NULL is returned and nothing changes: the buffer is empty, or the head may
\* still arrive.
DequeueNothing(no_resend) ==
  /\ ~Dequeueable \/ (~First.filled /\ ~no_resend /\ EntryCount < RAOP_BUFFER_LENGTH)
  /\ UNCHANGED vars

\* Slip: everything up to the newest packet counts as missing.
MutGapLength == seqnum_cmp(last_seqnum, first_seqnum)

\* The distance from the head to the first packet held, or to the newest one.
GapLength ==
  LET n == seqnum_cmp(last_seqnum, first_seqnum)
      filled(k) == entries[Slot(first_seqnum + k)].filled
  IN  CHOOSE k \in 0 .. n :
        /\ k = n \/ filled(k)
        /\ \A j \in 0 .. k - 1 : ~filled(j)

\* raop_buffer_handle_resends asks the sender for the GapLength packets from
\* first_seqnum on; the buffer itself is left as it is.
ResendNeeded == seqnum_cmp(first_seqnum, last_seqnum) < 0 /\ GapLength > 0

\* raop_buffer_flush(-1), when the audio service stops.
FlushAll ==
  /\ is_empty' = TRUE
  /\ entries' = [i \in Slots |-> EmptyEntry]
  /\ UNCHANGED <<first_seqnum, last_seqnum, base, top, out>>

-----------------------------------------------------------------------------
\* The network may lose, repeat and reorder packets, but no packet arrives
\* half the sequence number range or more away from the one awaited.
Arrives(p) == is_empty \/ (p - base < SEQ_HALF /\ base - p <= SEQ_HALF)

Next ==
  \/ \E p \in Packets : Arrives(p) /\ Enqueue(p)
  \/ DequeuePayload
  \/ \E no_resend \in BOOLEAN : DequeueSkip(no_resend) \/ DequeueNothing(no_resend)
  \/ FlushAll

Spec == Init /\ [][Next]_vars

-----------------------------------------------------------------------------
\* Every variable stays in the range its C type and use give it.
TypeOK ==
  /\ is_empty \in BOOLEAN
  /\ first_seqnum \in SeqNums
  /\ last_seqnum \in SeqNums
  /\ entries \in [Slots -> [filled : BOOLEAN, payload : Nat \cup {NoPacket}]]
  /\ base \in Nat
  /\ top \in Nat
  /\ out \in Nat \cup {NoPacket}

\* The packets waiting in the ring.
Held == {entries[i].payload : i \in {j \in Slots : entries[j].filled}}

\* The 16-bit sequence numbers stand for places at most a ring apart.
SeqNumsTrackPlaces ==
  /\ first_seqnum = base % SEQ_RANGE
  /\ last_seqnum = top % SEQ_RANGE
  /\ base - 1 <= top
  /\ top < base + RAOP_BUFFER_LENGTH

\* A filled entry holds a packet of the window [first_seqnum, last_seqnum], in
\* the slot of its sequence number; any other entry holds no payload (one left
\* there would never be freed).
SlotsHoldWindow ==
  \A i \in Slots :
    IF entries[i].filled
    THEN /\ ~is_empty
         /\ base <= entries[i].payload
         /\ entries[i].payload <= top
         /\ entries[i].payload % RAOP_BUFFER_LENGTH = i
    ELSE entries[i].payload = NoPacket

\* While packets are awaited the newest one received is among those held: the
\* window never ends in a gap.
NewestIsHeld ==
  ~is_empty /\ base <= top => entries[Slot(last_seqnum)].filled

\* The ring, addressed by wrapped sequence numbers, always represents a window
\* of the stream: enqueue, dequeue, the skip of a lost packet, the flush on
\* overrun and the flush at the end of a session keep it so.
WindowInv == SeqNumsTrackPlaces /\ SlotsHoldWindow /\ NewestIsHeld

\* A retransmission request names exactly the packets missing in front of the
\* next one that can be played, none of them held and none beyond it.
ResendNamesTheGap ==
  ~is_empty /\ base < top =>
    /\ base + GapLength \in Held
    /\ \A k \in 0 .. GapLength - 1 : base + k \notin Held

Stream == INSTANCE OrderedStream
  WITH Window <- RAOP_BUFFER_LENGTH, started <- ~is_empty, next <- base,
       held <- Held, out <- out

\* The ring implements the ordered stream: whatever the network does, a payload
\* is handed out at most once, in the sender's order, and a gap is given up
\* only for a later packet that is already held.
ImplementsOrderedStream == Stream!Spec
=============================================================================
