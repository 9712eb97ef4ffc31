------------------------- MODULE RaopBufferProofs -------------------------
(***************************************************************************)
(* Proofs about the jitter buffer for every ring length, sequence number   *)
(* range and stream (RaopBuffer, BufferAssumption): the ring always holds  *)
(* a window of the stream, and it implements OrderedStream.                *)
(***************************************************************************)
EXTENDS RaopBuffer, Modular

\* The conjunction TypeOK /\ WindowInv is preserved by every operation.
IInv == TypeOK /\ WindowInv

\* What the proofs use of the constants.
LEMMA Constants ==
  /\ RAOP_BUFFER_LENGTH \in Nat \ {0}
  /\ SEQ_HALF \in Nat \ {0}
  /\ SEQ_RANGE \in Nat \ {0}
  /\ SEQ_RANGE = 2 * SEQ_HALF
  /\ RAOP_BUFFER_LENGTH < SEQ_HALF
  /\ SEQ_RANGE % RAOP_BUFFER_LENGTH = 0
  /\ Packets \subseteq Nat
  BY BufferAssumption DEF Sizes, SEQ_RANGE

\* Every place has a sequence number and a slot.
LEMMA Ranges ==
  ASSUME NEW a \in Int
  PROVE  /\ a % SEQ_RANGE \in SeqNums
         /\ a % RAOP_BUFFER_LENGTH \in Slots
         /\ Slot(a % SEQ_RANGE) = a % RAOP_BUFFER_LENGTH
<1>1. a % SEQ_RANGE \in 0 .. SEQ_RANGE - 1 /\ a % RAOP_BUFFER_LENGTH \in 0 .. RAOP_BUFFER_LENGTH - 1
  BY Constants, DivMod
<1>2. (a % SEQ_RANGE) % RAOP_BUFFER_LENGTH = a % RAOP_BUFFER_LENGTH
  BY Constants, ModOfMultiple
<1> QED BY <1>1, <1>2 DEF SeqNums, Slots, Slot

\* seqnum_cmp returns the distance of two places from their sequence numbers,
\* as long as they are less than half the range apart.
LEMMA CmpIsDistance ==
  ASSUME NEW a \in Int, NEW b \in Int, -SEQ_HALF <= a - b, a - b < SEQ_HALF
  PROVE  seqnum_cmp(a % SEQ_RANGE, b % SEQ_RANGE) = a - b
<1> DEFINE d == a - b
<1>1. ((a % SEQ_RANGE) - (b % SEQ_RANGE)) % SEQ_RANGE = d % SEQ_RANGE
  BY Constants, ModDiff
<1>2. CASE d >= 0
  <2>1. d % SEQ_RANGE = d
    BY <1>2, Constants, ModSmall
  <2> QED BY <1>1, <2>1, Constants DEF seqnum_cmp
<1>3. CASE d < 0
  <2>1. d + SEQ_RANGE \in 0 .. SEQ_RANGE - 1
    BY <1>3, Constants
  <2>2. (SEQ_RANGE * (-1) + (d + SEQ_RANGE)) % SEQ_RANGE = d + SEQ_RANGE
    BY <2>1, Constants, ModUnique
  <2>3. SEQ_RANGE * (-1) + (d + SEQ_RANGE) = d
    BY Constants
  <2> HIDE DEF d
  <2>4. d % SEQ_RANGE = d + SEQ_RANGE
    BY <2>2, <2>3
  <2>5. d + SEQ_RANGE >= SEQ_HALF /\ d \in Int
    BY Constants DEF d
  <2>6. seqnum_cmp(a % SEQ_RANGE, b % SEQ_RANGE) = (d + SEQ_RANGE) - SEQ_RANGE
    BY <1>1, <2>4, <2>5, Constants DEF seqnum_cmp
  <2>7. (d + SEQ_RANGE) - SEQ_RANGE = d
    BY <2>5, Constants
  <2> QED BY <2>6, <2>7 DEF d
<1>4. d \in Int
  OBVIOUS
<1> QED BY <1>2, <1>3, <1>4

\* Two packets of one window in one slot are the same packet.
LEMMA WindowSlots ==
  ASSUME NEW a \in Int, NEW b \in Int,
         a % RAOP_BUFFER_LENGTH = b % RAOP_BUFFER_LENGTH,
         -RAOP_BUFFER_LENGTH < a - b, a - b < RAOP_BUFFER_LENGTH
  PROVE  a = b
  BY Constants, SameSlot

-----------------------------------------------------------------------------
(* What the operations' tests say in a state of the invariant.             *)

\* Two places at most a ring apart compare as integers.
LEMMA CmpInWindow ==
  ASSUME TypeOK, SeqNumsTrackPlaces, NEW p \in Nat,
         p - base < SEQ_HALF, base - p <= SEQ_HALF
  PROVE  /\ seqnum_cmp(p % SEQ_RANGE, first_seqnum) = p - base
         /\ EntryCount = top - base + 1
         /\ base <= p => seqnum_cmp(p % SEQ_RANGE, (first_seqnum + RAOP_BUFFER_LENGTH) % SEQ_RANGE)
                          = p - (base + RAOP_BUFFER_LENGTH)
         /\ base <= p /\ p < base + RAOP_BUFFER_LENGTH
              => seqnum_cmp(p % SEQ_RANGE, last_seqnum) = p - top
<1>1. base \in Int /\ top \in Int /\ p \in Int /\ base - 1 <= top /\ top < base + RAOP_BUFFER_LENGTH
  BY DEF TypeOK, SeqNumsTrackPlaces
<1>2. first_seqnum = base % SEQ_RANGE /\ last_seqnum = top % SEQ_RANGE
  BY DEF SeqNumsTrackPlaces
<1>3. seqnum_cmp(p % SEQ_RANGE, first_seqnum) = p - base
  <2>1. -SEQ_HALF <= p - base
    BY <1>1, Constants
  <2> QED BY <1>1, <1>2, <2>1, CmpIsDistance
<1>4. EntryCount = top - base + 1
  <2>1. -SEQ_HALF <= top - base /\ top - base < SEQ_HALF
    BY <1>1, Constants
  <2> QED BY <1>1, <1>2, <2>1, CmpIsDistance DEF EntryCount
<1>5. ASSUME base <= p
      PROVE  seqnum_cmp(p % SEQ_RANGE, (first_seqnum + RAOP_BUFFER_LENGTH) % SEQ_RANGE)
               = p - (base + RAOP_BUFFER_LENGTH)
  <2>1. (first_seqnum + RAOP_BUFFER_LENGTH) % SEQ_RANGE = (base + RAOP_BUFFER_LENGTH) % SEQ_RANGE
    <3>1. RAOP_BUFFER_LENGTH \in Int /\ SEQ_RANGE \in Nat \ {0}
      BY Constants
    <3>2. ((base % SEQ_RANGE) + RAOP_BUFFER_LENGTH) % SEQ_RANGE = (base + RAOP_BUFFER_LENGTH) % SEQ_RANGE
      BY <1>1, <3>1, ModAdd
    <3> QED BY <1>2, <3>2
  <2>2. /\ base + RAOP_BUFFER_LENGTH \in Int
        /\ -SEQ_HALF <= p - (base + RAOP_BUFFER_LENGTH)
        /\ p - (base + RAOP_BUFFER_LENGTH) < SEQ_HALF
    BY <1>1, <1>5, Constants
  <2> QED BY <1>1, <2>1, <2>2, CmpIsDistance
<1>6. ASSUME base <= p, p < base + RAOP_BUFFER_LENGTH
      PROVE  seqnum_cmp(p % SEQ_RANGE, last_seqnum) = p - top
  <2>1. -SEQ_HALF <= p - top /\ p - top < SEQ_HALF
    BY <1>1, <1>6, Constants
  <2> QED BY <1>1, <1>2, <2>1, CmpIsDistance
<1> QED BY <1>3, <1>4, <1>5, <1>6

\* entry_count in raop_buffer_dequeue counts the places of the window.
LEMMA HeadCount ==
  ASSUME IInv
  PROVE  EntryCount = top - base + 1
<1>1. base \in Nat /\ base - base < SEQ_HALF /\ base - base <= SEQ_HALF
  BY Constants DEF IInv, TypeOK
<1> QED BY <1>1, CmpInWindow DEF IInv, WindowInv

\* first_seqnum, incremented as an unsigned short, stands for the next place.
LEMMA AdvancedHead ==
  ASSUME IInv
  PROVE  (first_seqnum + 1) % SEQ_RANGE = (base + 1) % SEQ_RANGE
<1>1. base \in Int /\ 1 \in Int /\ first_seqnum = base % SEQ_RANGE
  BY DEF IInv, TypeOK, WindowInv, SeqNumsTrackPlaces
<1>2. ((base % SEQ_RANGE) + 1) % SEQ_RANGE = (base + 1) % SEQ_RANGE
  BY <1>1, Constants, ModAdd
<1> QED BY <1>1, <1>2

\* A filled slot that a packet of the window maps to holds that very packet.
LEMMA FilledSlot ==
  ASSUME IInv, NEW p \in Int, base <= p, p < base + RAOP_BUFFER_LENGTH,
         entries[p % RAOP_BUFFER_LENGTH].filled
  PROVE  entries[p % RAOP_BUFFER_LENGTH].payload = p
<1> DEFINE i == p % RAOP_BUFFER_LENGTH
           q == entries[i].payload
<1>1. i \in Slots
  BY Ranges
<1>2. /\ base <= q /\ q <= top
      /\ q % RAOP_BUFFER_LENGTH = i
      /\ top < base + RAOP_BUFFER_LENGTH
  BY <1>1 DEF IInv, WindowInv, SlotsHoldWindow, SeqNumsTrackPlaces
<1>3. entries[i] \in [filled : BOOLEAN, payload : Nat \cup {NoPacket}]
  BY <1>1 DEF IInv, TypeOK
<1>4. q \in Int /\ base \in Int /\ top \in Int
  BY <1>3 DEF NoPacket, IInv, TypeOK
<1>5. -RAOP_BUFFER_LENGTH < q - p /\ q - p < RAOP_BUFFER_LENGTH
  <2> HIDE DEF q
  <2> QED BY <1>2, <1>4, Constants
<1> QED BY <1>2, <1>4, <1>5, WindowSlots

-----------------------------------------------------------------------------
(* Every operation preserves the invariant.                                *)

\* A packet stored in a ring without other entries begins a window of its own:
\* the first packet of a session and the one that overruns the ring.
LEMMA AloneInWindow ==
  ASSUME IInv, NEW p \in Nat, is_empty' = FALSE, out' = out,
         first_seqnum' = p % SEQ_RANGE, last_seqnum' = p % SEQ_RANGE,
         base' = p, top' = p,
         entries' = [[i \in Slots |-> EmptyEntry] EXCEPT ![p % RAOP_BUFFER_LENGTH] =
                       [filled |-> TRUE, payload |-> p]]
  PROVE  IInv' /\ Held' = {p}
<1>1. p % SEQ_RANGE \in SeqNums /\ p % RAOP_BUFFER_LENGTH \in Slots
  BY Ranges
<1>2. TypeOK'
  BY <1>1 DEF IInv, TypeOK, EmptyEntry, NoPacket
<1>3. SeqNumsTrackPlaces'
  BY Constants DEF SeqNumsTrackPlaces
<1>4. SlotsHoldWindow'
  BY <1>1 DEF SlotsHoldWindow, EmptyEntry
<1>5. NewestIsHeld'
  BY <1>1, Ranges DEF NewestIsHeld
<1>6. Held' = {p}
  BY <1>1 DEF Held, EmptyEntry
<1> QED BY <1>2, <1>3, <1>4, <1>5, <1>6 DEF IInv, WindowInv

\* An empty buffer holds no packet.
LEMMA EmptyHoldsNothing ==
  ASSUME IInv, is_empty
  PROVE  entries = [i \in Slots |-> EmptyEntry] /\ Held = {}
<1>1. ASSUME NEW i \in Slots
      PROVE  entries[i] = EmptyEntry
  <2>1. ~entries[i].filled /\ entries[i].payload = NoPacket
    BY DEF IInv, WindowInv, SlotsHoldWindow
  <2>2. entries[i] \in [filled : BOOLEAN, payload : Nat \cup {NoPacket}]
    BY DEF IInv, TypeOK
  <2> QED BY <2>1, <2>2 DEF EmptyEntry
<1>2. entries \in [Slots -> [filled : BOOLEAN, payload : Nat \cup {NoPacket}]]
  BY DEF IInv, TypeOK
<1>3. entries = [i \in Slots |-> EmptyEntry]
  BY <1>1, <1>2
<1>4. Held = {}
  BY <1>1 DEF Held, EmptyEntry
<1> QED BY <1>3, <1>4

\* raop_buffer_enqueue into a buffer that was flushed begins a stream.
LEMMA FirstPacket ==
  ASSUME IInv, NEW p \in Packets, is_empty, EnqueueInSpace(p) \/ EnqueueFlushing(p)
  PROVE  IInv' /\ Stream!Begin(p)
<1>1. p \in Nat /\ Slot(p % SEQ_RANGE) = p % RAOP_BUFFER_LENGTH
  BY Constants, Ranges
<1>2. entries = [i \in Slots |-> EmptyEntry] /\ Held = {}
  BY EmptyHoldsNothing
<1>3. IInv' /\ Held' = {p}
  <2>1. /\ is_empty' = FALSE /\ out' = out
        /\ first_seqnum' = p % SEQ_RANGE /\ last_seqnum' = p % SEQ_RANGE
        /\ base' = p /\ top' = p
        /\ entries' = [[i \in Slots |-> EmptyEntry] EXCEPT ![p % RAOP_BUFFER_LENGTH] =
                          [filled |-> TRUE, payload |-> p]]
    BY <1>1, <1>2 DEF EnqueueInSpace, EnqueueFlushing, Store
  <2> QED BY <1>1, <2>1, AloneInWindow
<1> QED BY <1>3 DEF Stream!Begin, EnqueueInSpace, EnqueueFlushing, Store

\* raop_buffer_enqueue of a packet beyond the ring: everything held is
\* abandoned and the packet begins the window.
LEMMA OverrunPacket ==
  ASSUME IInv, NEW p \in Packets, Arrives(p), ~is_empty, EnqueueFlushing(p)
  PROVE  IInv' /\ Stream!Jump(p)
<1>1. p \in Nat /\ Slot(p % SEQ_RANGE) = p % RAOP_BUFFER_LENGTH
  BY Constants, Ranges
<1>2. p - base < SEQ_HALF /\ base - p <= SEQ_HALF /\ base \in Nat /\ top \in Nat
  BY DEF Arrives, IInv, TypeOK
<1>3. p >= base + RAOP_BUFFER_LENGTH
  <2>1. seqnum_cmp(p % SEQ_RANGE, first_seqnum) = p - base
    BY <1>1, <1>2, CmpInWindow DEF IInv, WindowInv
  <2>2. base <= p
    BY <1>1, <1>2, <2>1 DEF EnqueueFlushing, TooLate
  <2>3. seqnum_cmp(p % SEQ_RANGE, (first_seqnum + RAOP_BUFFER_LENGTH) % SEQ_RANGE)
          = p - (base + RAOP_BUFFER_LENGTH)
    BY <1>1, <1>2, <2>2, CmpInWindow DEF IInv, WindowInv
  <2> QED BY <1>1, <1>2, <2>3, Constants DEF EnqueueFlushing, NoSpace
<1>4. seqnum_cmp(p % SEQ_RANGE, ((p % SEQ_RANGE) - 1) % SEQ_RANGE) = 1
  <2>3. ((p % SEQ_RANGE) - 1) % SEQ_RANGE = (p - 1) % SEQ_RANGE
    <3>1. p \in Int /\ SEQ_RANGE \in Nat \ {0}
      BY <1>1, Constants
    <3> QED BY <3>1, ModPred
  <2>4. p - 1 \in Int /\ p - (p - 1) = 1 /\ -SEQ_HALF <= 1 /\ 1 < SEQ_HALF
    BY <1>1, Constants
  <2>5. seqnum_cmp(p % SEQ_RANGE, (p - 1) % SEQ_RANGE) = p - (p - 1)
    BY <1>1, <2>4, CmpIsDistance
  <2> QED BY <2>3, <2>4, <2>5
<1>5. IInv' /\ Held' = {p}
  <2>1. /\ is_empty' = FALSE /\ out' = out
        /\ first_seqnum' = p % SEQ_RANGE /\ last_seqnum' = p % SEQ_RANGE
        /\ base' = p /\ top' = p
        /\ entries' = [[i \in Slots |-> EmptyEntry] EXCEPT ![p % RAOP_BUFFER_LENGTH] =
                          [filled |-> TRUE, payload |-> p]]
    <3>1. seqnum_cmp(p % SEQ_RANGE, ((p % SEQ_RANGE) - 1) % SEQ_RANGE) > 0
      BY <1>4
    <3> QED BY <1>1, <3>1 DEF EnqueueFlushing, Store
  <2> QED BY <1>1, <2>1, AloneInWindow
<1> QED BY <1>3, <1>5 DEF Stream!Jump, EnqueueFlushing, Store

\* raop_buffer_enqueue of a packet inside the window: it takes a free slot.
LEMMA WindowPacket ==
  ASSUME IInv, NEW p \in Packets, Arrives(p), ~is_empty, EnqueueInSpace(p)
  PROVE  IInv' /\ Stream!Accept(p)
<1> DEFINE i == p % RAOP_BUFFER_LENGTH
<1>1. p \in Nat /\ Slot(p % SEQ_RANGE) = i /\ i \in Slots /\ p % SEQ_RANGE \in SeqNums
  BY Constants, Ranges
<1>2. /\ p - base < SEQ_HALF /\ base - p <= SEQ_HALF /\ base \in Nat /\ top \in Nat
      /\ base - 1 <= top /\ top < base + RAOP_BUFFER_LENGTH
  BY DEF Arrives, IInv, TypeOK, WindowInv, SeqNumsTrackPlaces
<1>3. base <= p /\ p < base + RAOP_BUFFER_LENGTH
  <2>1. seqnum_cmp(p % SEQ_RANGE, first_seqnum) = p - base
    BY <1>1, <1>2, CmpInWindow DEF IInv, WindowInv
  <2>2. base <= p
    BY <1>1, <1>2, <2>1 DEF EnqueueInSpace, TooLate
  <2>3. seqnum_cmp(p % SEQ_RANGE, (first_seqnum + RAOP_BUFFER_LENGTH) % SEQ_RANGE)
          = p - (base + RAOP_BUFFER_LENGTH)
    BY <1>1, <1>2, <2>2, CmpInWindow DEF IInv, WindowInv
  <2> QED BY <1>1, <1>2, <2>2, <2>3, Constants DEF EnqueueInSpace, NoSpace
<1>4. ~entries[i].filled
  <2>1. SUFFICES ASSUME entries[i].filled
                 PROVE  FALSE
    OBVIOUS
  <2>2. entries[i].payload = p
    BY <1>1, <1>3, <2>1, FilledSlot
  <2>3. seqnum_cmp(p % SEQ_RANGE, p % SEQ_RANGE) = p - p
    BY <1>1, Constants, CmpIsDistance
  <2> QED BY <1>1, <2>1, <2>2, <2>3 DEF EnqueueInSpace, AlreadyHeld
<1>5. /\ entries' = [entries EXCEPT ![i] = [filled |-> TRUE, payload |-> p]]
      /\ IF p > top THEN last_seqnum' = p % SEQ_RANGE /\ top' = p
                    ELSE last_seqnum' = last_seqnum /\ top' = top
      /\ is_empty' = FALSE /\ out' = out /\ first_seqnum' = first_seqnum /\ base' = base
  <2>1. seqnum_cmp(p % SEQ_RANGE, last_seqnum) = p - top
    BY <1>1, <1>2, <1>3, CmpInWindow DEF IInv, WindowInv
  <2>2. p - top > 0 <=> p > top
    BY <1>1, <1>2
  <2> QED BY <1>1, <2>1, <2>2 DEF EnqueueInSpace, Store
<1> HIDE DEF i
<1>6. TypeOK'
  BY <1>1, <1>5 DEF IInv, TypeOK
<1>7. SeqNumsTrackPlaces'
  BY <1>1, <1>2, <1>3, <1>5 DEF IInv, WindowInv, SeqNumsTrackPlaces
<1>8. SlotsHoldWindow'
  <2>1. entries'[i] = [filled |-> TRUE, payload |-> p]
    BY <1>1, <1>5 DEF IInv, TypeOK
  <2>2. ASSUME NEW j \in Slots, j # i
        PROVE  entries'[j] = entries[j]
    BY <1>5, <2>2 DEF IInv, TypeOK
  <2>3. top <= top' /\ p <= top' /\ top' \in Nat
    BY <1>1, <1>2, <1>5
  <2>4. p % RAOP_BUFFER_LENGTH = i
    BY DEF i
  <2>5. ASSUME NEW j \in Slots, j # i, entries[j].filled
        PROVE  entries[j].payload <= top'
    <3>1. entries[j].payload \in Nat \cup {NoPacket} /\ entries[j].payload <= top
      BY <2>5 DEF IInv, TypeOK, WindowInv, SlotsHoldWindow
    <3> QED BY <1>2, <2>3, <3>1 DEF NoPacket
  <2> QED BY <1>3, <1>5, <2>1, <2>2, <2>3, <2>4, <2>5 DEF IInv, WindowInv, SlotsHoldWindow
<1>9. NewestIsHeld'
  <2>1. CASE p > top
    BY <1>1, <1>5, <2>1 DEF NewestIsHeld, IInv, TypeOK
  <2>2. CASE ~(p > top)
    <3>1. Slot(last_seqnum) \in Slots /\ entries[Slot(last_seqnum)].filled
      <4>1. base <= top
        BY <1>1, <1>2, <1>3, <2>2
      <4>2. Slot(last_seqnum) = top % RAOP_BUFFER_LENGTH /\ top % RAOP_BUFFER_LENGTH \in Slots
        BY <1>2, Ranges DEF IInv, WindowInv, SeqNumsTrackPlaces
      <4> QED BY <4>1, <4>2 DEF IInv, WindowInv, NewestIsHeld
    <3> QED BY <1>1, <1>5, <2>2, <3>1 DEF NewestIsHeld, IInv, TypeOK
  <2> QED BY <2>1, <2>2
<1>10. Held' = Held \cup {p} /\ p \notin Held
  <2>1. entries \in [Slots -> [filled : BOOLEAN, payload : Nat \cup {NoPacket}]]
    BY DEF IInv, TypeOK
  <2>2. Held' = Held \cup {p}
    BY <1>1, <1>4, <1>5, <2>1 DEF Held
  <2>3. ASSUME NEW j \in Slots, entries[j].filled, entries[j].payload = p
        PROVE  FALSE
    <3>1. j = i
      BY <2>3 DEF i, IInv, WindowInv, SlotsHoldWindow
    <3> QED BY <1>4, <2>3, <3>1
  <2> QED BY <2>2, <2>3 DEF Held
<1>11. Stream!Accept(p)
  BY <1>1, <1>2, <1>3, <1>5, <1>10, Constants DEF Stream!Accept
<1> QED BY <1>6, <1>7, <1>8, <1>9, <1>11 DEF IInv, WindowInv

\* raop_buffer_dequeue hands out the packet at the head of the window.
LEMMA PayloadDequeued ==
  ASSUME IInv, DequeuePayload
  PROVE  IInv' /\ Stream!Play
<1> DEFINE i == base % RAOP_BUFFER_LENGTH
<1>1. /\ base \in Nat /\ top \in Nat /\ i \in Slots /\ Slot(first_seqnum) = i
      /\ top < base + RAOP_BUFFER_LENGTH
  BY Ranges DEF IInv, TypeOK, WindowInv, SeqNumsTrackPlaces
<1>2. ~is_empty /\ base <= top /\ entries[i].filled
  <2>1. EntryCount = top - base + 1
    BY HeadCount
  <2> QED BY <1>1, <2>1 DEF DequeuePayload, Dequeueable, First
<1>3. entries[i].payload = base
  BY <1>1, <1>2, Constants, FilledSlot
<1>4. /\ entries' = [entries EXCEPT ![i] = EmptyEntry]
      /\ out' = base /\ base' = base + 1 /\ top' = top /\ is_empty' = is_empty
      /\ last_seqnum' = last_seqnum /\ first_seqnum' = (base + 1) % SEQ_RANGE
  BY <1>1, <1>3, AdvancedHead DEF DequeuePayload, First, Advance
<1>5. i = base % RAOP_BUFFER_LENGTH
  OBVIOUS
<1> HIDE DEF i
<1>6. TypeOK'
  <2>1. (base + 1) % SEQ_RANGE \in SeqNums
    BY <1>1, Ranges
  <2> QED BY <1>1, <1>4, <2>1 DEF IInv, TypeOK, EmptyEntry, NoPacket
<1>7. SeqNumsTrackPlaces'
  <2>1. (base + 1) - 1 <= top /\ top < (base + 1) + RAOP_BUFFER_LENGTH
    BY <1>1, <1>2, Constants
  <2>2. last_seqnum = top % SEQ_RANGE
    BY DEF IInv, WindowInv, SeqNumsTrackPlaces
  <2> QED BY <1>4, <2>1, <2>2, Constants DEF SeqNumsTrackPlaces, SEQ_RANGE
<1>8. SlotsHoldWindow'
  <2>1. entries'[i] = EmptyEntry
    BY <1>1, <1>4 DEF IInv, TypeOK
  <2>2. ASSUME NEW j \in Slots, j # i
        PROVE  entries'[j] = entries[j]
    BY <1>4, <2>2 DEF IInv, TypeOK
  <2>3. ASSUME NEW j \in Slots, j # i, entries[j].filled
        PROVE  base + 1 <= entries[j].payload
    <3>1. /\ entries[j].payload \in Nat \cup {NoPacket}
          /\ base <= entries[j].payload
          /\ entries[j].payload % RAOP_BUFFER_LENGTH = j
      BY <2>3 DEF IInv, TypeOK, WindowInv, SlotsHoldWindow
    <3>2. entries[j].payload # base
      BY <1>5, <2>3, <3>1
    <3> QED BY <1>1, <3>1, <3>2 DEF NoPacket
  <2> QED BY <1>4, <2>1, <2>2, <2>3 DEF IInv, WindowInv, SlotsHoldWindow, EmptyEntry
<1>9. NewestIsHeld'
  <2>1. SUFFICES ASSUME base + 1 <= top
                 PROVE  entries'[Slot(last_seqnum)].filled
    BY <1>1, <1>4 DEF NewestIsHeld
  <2>2. Slot(last_seqnum) = top % RAOP_BUFFER_LENGTH /\ top % RAOP_BUFFER_LENGTH \in Slots
    BY <1>1, Ranges DEF IInv, WindowInv, SeqNumsTrackPlaces
  <2>3. entries[Slot(last_seqnum)].filled
    BY <1>1, <1>2 DEF IInv, WindowInv, NewestIsHeld
  <2>4. top % RAOP_BUFFER_LENGTH # i
    <3>1. SUFFICES ASSUME top % RAOP_BUFFER_LENGTH = i
                   PROVE  FALSE
      OBVIOUS
    <3>2. -RAOP_BUFFER_LENGTH < top - base /\ top - base < RAOP_BUFFER_LENGTH
      BY <1>1, <2>1, Constants
    <3>3. top = base
      BY <1>1, <1>5, <3>1, <3>2, WindowSlots
    <3> QED BY <1>1, <2>1, <3>3
  <2> QED BY <1>4, <2>2, <2>3, <2>4 DEF IInv, TypeOK
<1>10. base \in Held /\ Held' = Held \ {base}
  <2>1. entries \in [Slots -> [filled : BOOLEAN, payload : Nat \cup {NoPacket}]]
    BY DEF IInv, TypeOK
  <2>2. \A j \in Slots : entries[j].filled /\ entries[j].payload = base => j = i
    BY <1>5 DEF IInv, WindowInv, SlotsHoldWindow
  <2> QED BY <1>1, <1>2, <1>3, <1>4, <2>1, <2>2 DEF Held, EmptyEntry
<1> QED BY <1>4, <1>6, <1>7, <1>8, <1>9, <1>10 DEF IInv, WindowInv, Stream!Play

\* raop_buffer_dequeue gives up the missing packet at the head.
LEMMA HeadSkipped ==
  ASSUME IInv, NEW no_resend \in BOOLEAN, DequeueSkip(no_resend)
  PROVE  IInv' /\ Stream!Skip(no_resend)
<1> DEFINE i == base % RAOP_BUFFER_LENGTH
           l == top % RAOP_BUFFER_LENGTH
<1>1. /\ base \in Nat /\ top \in Nat /\ Slot(first_seqnum) = i /\ i \in Slots
      /\ Slot(last_seqnum) = l /\ l \in Slots
      /\ top < base + RAOP_BUFFER_LENGTH
  BY Ranges DEF IInv, TypeOK, WindowInv, SeqNumsTrackPlaces
<1>2. /\ ~is_empty /\ base <= top /\ ~entries[i].filled
      /\ no_resend \/ top >= base + RAOP_BUFFER_LENGTH - 1
  <2>1. EntryCount = top - base + 1
    BY HeadCount
  <2> QED BY <1>1, <2>1, Constants DEF DequeueSkip, Dequeueable, First
<1>3. entries[l].filled
  BY <1>1, <1>2 DEF IInv, WindowInv, NewestIsHeld
<1>4. base < top
  BY <1>1, <1>2, <1>3
<1>5. entries[l].payload = top
  BY <1>1, <1>2, <1>3, FilledSlot
<1>6. /\ entries' = entries /\ out' = out
      /\ base' = base + 1 /\ top' = top /\ is_empty' = is_empty
      /\ last_seqnum' = last_seqnum /\ first_seqnum' = (base + 1) % SEQ_RANGE
  BY AdvancedHead DEF DequeueSkip, Advance
<1>7. i = base % RAOP_BUFFER_LENGTH
  OBVIOUS
<1> HIDE DEF i, l
<1>8. TypeOK'
  <2>1. (base + 1) % SEQ_RANGE \in SeqNums
    BY <1>1, Ranges
  <2> QED BY <1>1, <1>6, <2>1 DEF IInv, TypeOK
<1>9. SeqNumsTrackPlaces'
  <2>1. (base + 1) - 1 <= top /\ top < (base + 1) + RAOP_BUFFER_LENGTH
    BY <1>1, <1>2, Constants
  <2>2. last_seqnum = top % SEQ_RANGE
    BY DEF IInv, WindowInv, SeqNumsTrackPlaces
  <2> QED BY <1>6, <2>1, <2>2, Constants DEF SeqNumsTrackPlaces, SEQ_RANGE
<1>10. ASSUME NEW j \in Slots, entries[j].filled
       PROVE  base + 1 <= entries[j].payload
  <2>1. /\ entries[j].payload \in Nat \cup {NoPacket}
        /\ base <= entries[j].payload
        /\ entries[j].payload % RAOP_BUFFER_LENGTH = j
    BY <1>10 DEF IInv, TypeOK, WindowInv, SlotsHoldWindow
  <2>2. entries[j].payload # base
    BY <1>2, <1>7, <1>10, <2>1
  <2> QED BY <1>1, <2>1, <2>2 DEF NoPacket
<1>11. SlotsHoldWindow'
  BY <1>6, <1>10 DEF IInv, WindowInv, SlotsHoldWindow
<1>12. NewestIsHeld'
  BY <1>1, <1>3, <1>6 DEF NewestIsHeld
<1>13. base \notin Held /\ top \in Held /\ Held' = Held
  <2>1. \A j \in Slots : entries[j].filled => entries[j].payload # base
    BY <1>2, <1>7 DEF IInv, WindowInv, SlotsHoldWindow
  <2> QED BY <1>1, <1>3, <1>5, <1>6, <2>1 DEF Held
<1>14. no_resend \/ base + RAOP_BUFFER_LENGTH - 1 \in Held
  <2>1. CASE top >= base + RAOP_BUFFER_LENGTH - 1
    <3>1. top = base + RAOP_BUFFER_LENGTH - 1
      BY <1>1, <2>1, Constants
    <3> QED BY <1>13, <3>1
  <2> QED BY <1>2, <2>1
<1> QED BY <1>6, <1>8, <1>9, <1>11, <1>12, <1>13, <1>14 DEF IInv, WindowInv, Stream!Skip

\* raop_buffer_flush(-1) leaves no packet of the ended session behind.
LEMMA AllFlushed ==
  ASSUME IInv, FlushAll
  PROVE  IInv' /\ Stream!Reset
<1>1. TypeOK'
  BY DEF IInv, TypeOK, FlushAll, EmptyEntry, NoPacket
<1>2. WindowInv'
  BY DEF IInv, WindowInv, SeqNumsTrackPlaces, SlotsHoldWindow, NewestIsHeld,
         FlushAll, EmptyEntry
<1>3. Held' = {}
  BY DEF Held, FlushAll, EmptyEntry
<1> QED BY <1>1, <1>2, <1>3 DEF IInv, FlushAll, Stream!Reset

\* A step that leaves the buffer alone leaves the stream alone.
LEMMA BufferUnchanged ==
  ASSUME IInv, UNCHANGED vars
  PROVE  IInv' /\ UNCHANGED Stream!stream
<1>1. IInv'
  BY DEF IInv, TypeOK, WindowInv, SeqNumsTrackPlaces, SlotsHoldWindow, NewestIsHeld, vars
<1>2. Held' = Held
  BY DEF Held, vars
<1> QED BY <1>1, <1>2 DEF vars, Stream!stream

\* Every step of the buffer preserves the invariant and is a step, or a
\* stutter, of the ordered stream.
LEMMA StepRefines ==
  ASSUME IInv, [Next]_vars
  PROVE  IInv' /\ [Stream!Next]_(Stream!stream)
<1>1. ASSUME NEW p \in Packets, Arrives(p), EnqueueDropped(p)
      PROVE  IInv' /\ UNCHANGED Stream!stream
  BY <1>1, BufferUnchanged DEF EnqueueDropped
<1>2. ASSUME NEW p \in Packets, Arrives(p), EnqueueInSpace(p) \/ EnqueueFlushing(p)
      PROVE  IInv' /\ (Stream!Begin(p) \/ Stream!Accept(p) \/ Stream!Jump(p))
  BY <1>2, FirstPacket, WindowPacket, OverrunPacket
<1>3. CASE DequeuePayload
  BY <1>3, PayloadDequeued DEF Stream!Next
<1>4. ASSUME NEW no_resend \in BOOLEAN, DequeueSkip(no_resend)
      PROVE  IInv' /\ Stream!Next
  BY <1>4, HeadSkipped DEF Stream!Next
<1>9. ASSUME NEW no_resend \in BOOLEAN, DequeueNothing(no_resend)
      PROVE  IInv' /\ UNCHANGED Stream!stream
  BY <1>9, BufferUnchanged DEF DequeueNothing
<1>5. CASE FlushAll
  BY <1>5, AllFlushed DEF Stream!Next
<1>6. CASE UNCHANGED vars
  BY <1>6, BufferUnchanged
<1>7. ASSUME NEW p \in Packets, Arrives(p), Enqueue(p)
      PROVE  IInv' /\ [Stream!Next]_(Stream!stream)
  BY <1>1, <1>2, <1>7 DEF Enqueue, Stream!Next
<1> QED BY <1>3, <1>4, <1>5, <1>6, <1>7, <1>9 DEF Next

\* raop_buffer_init makes an empty window.
LEMMA InitRefines ==
  ASSUME Init
  PROVE  IInv /\ Stream!Init
<1>1. 0 \in SeqNums /\ 0 % SEQ_RANGE = 0
  <2>1. 0 \in 0 .. SEQ_RANGE - 1
    BY Constants
  <2> QED BY <2>1, Constants, ModSmall DEF SeqNums
<1>2. TypeOK
  BY <1>1 DEF Init, TypeOK, EmptyEntry, NoPacket
<1>3. WindowInv
  BY <1>1, Constants
     DEF Init, WindowInv, SeqNumsTrackPlaces, SlotsHoldWindow, NewestIsHeld, EmptyEntry
<1>4. Held = {}
  BY DEF Init, Held, EmptyEntry
<1> QED BY <1>2, <1>3, <1>4 DEF Init, IInv, Stream!Init, NoPacket

-----------------------------------------------------------------------------
\* The invariant holds in every reachable state.
LEMMA Invariant == Spec => []IInv
<1>1. Init => IInv
  BY InitRefines
<1>2. IInv /\ [Next]_vars => IInv'
  BY StepRefines
<1> QED BY <1>1, <1>2, PTL DEF Spec

\* Every variable of the buffer stays in the range its C type and use give it.
THEOREM TypeCorrect == Spec => []TypeOK
<1>1. IInv => TypeOK
  BY DEF IInv
<1> QED BY <1>1, Invariant, PTL

\* For every ring length and sequence number range, the ring always represents
\* a window of the stream: no slot is shared, mislaid, left behind by a flush or
\* misread across the wrap-around.
THEOREM WindowAlways == Spec => []WindowInv
<1>1. IInv => WindowInv
  BY DEF IInv
<1> QED BY <1>1, Invariant, PTL

\* For every ring length and sequence number range, the ring implements the
\* ordered stream: payloads reach the renderer at most once and in the sender's
\* order, and a gap is given up only for a later packet that is held.
THEOREM StreamImplemented == Spec => ImplementsOrderedStream
<1>1. Init => Stream!Init
  BY InitRefines
<1>2. IInv /\ [Next]_vars => [Stream!Next]_(Stream!stream)
  BY StepRefines
<1> QED BY <1>1, <1>2, Invariant, PTL DEF Spec, ImplementsOrderedStream, Stream!Spec
-----------------------------------------------------------------------------
(* What raop_buffer_handle_resends asks for.                               *)

\* The slot the scan looks at in its k-th step is that of the k-th place from
\* the head on, across the wrap-around.
LEMMA ScannedSlot ==
  ASSUME IInv, NEW k \in Int
  PROVE  Slot(first_seqnum + k) = (base + k) % RAOP_BUFFER_LENGTH
<1> DEFINE f == base % SEQ_RANGE
<1>1. base \in Int /\ f \in Int /\ first_seqnum = f
  BY Ranges DEF IInv, TypeOK, WindowInv, SeqNumsTrackPlaces, SeqNums
<1>2. f % RAOP_BUFFER_LENGTH = base % RAOP_BUFFER_LENGTH
  BY <1>1, Constants, ModOfMultiple
<1> HIDE DEF f
<1>3. ((f % RAOP_BUFFER_LENGTH) + k) % RAOP_BUFFER_LENGTH = (f + k) % RAOP_BUFFER_LENGTH
  BY <1>1, Constants, ModAdd
<1>4. ((base % RAOP_BUFFER_LENGTH) + k) % RAOP_BUFFER_LENGTH = (base + k) % RAOP_BUFFER_LENGTH
  BY <1>1, Constants, ModAdd
<1> QED BY <1>1, <1>2, <1>3, <1>4 DEF Slot

\* A slot of the window is filled exactly when the packet of its place is held.
LEMMA FilledMeansHeld ==
  ASSUME IInv, NEW p \in Int, base <= p, p < base + RAOP_BUFFER_LENGTH
  PROVE  entries[p % RAOP_BUFFER_LENGTH].filled <=> p \in Held
<1>1. p % RAOP_BUFFER_LENGTH \in Slots
  BY Ranges
<1>2. ASSUME entries[p % RAOP_BUFFER_LENGTH].filled
      PROVE  p \in Held
  BY <1>1, <1>2, FilledSlot DEF Held
<1>3. ASSUME p \in Held
      PROVE  entries[p % RAOP_BUFFER_LENGTH].filled
  <2>1. PICK j \in Slots : entries[j].filled /\ entries[j].payload = p
    BY <1>3 DEF Held
  <2> QED BY <2>1 DEF IInv, WindowInv, SlotsHoldWindow
<1> QED BY <1>2, <1>3

\* In a state of the invariant the scan stops at the first packet held.
LEMMA GapNamed == IInv => ResendNamesTheGap
<1> SUFFICES ASSUME IInv, ~is_empty, base < top
             PROVE  /\ base + GapLength \in Held
                    /\ \A k \in 0 .. GapLength - 1 : base + k \notin Held
  BY DEF ResendNamesTheGap
<1> DEFINE n == top - base
           T == {k \in 0 .. n : base + k \in Held}
           Stop(k) == /\ k = n \/ entries[Slot(first_seqnum + k)].filled
                      /\ \A j \in 0 .. k - 1 : ~entries[Slot(first_seqnum + j)].filled
<1>1. base \in Nat /\ top \in Nat /\ n \in Nat /\ n < RAOP_BUFFER_LENGTH
  BY Constants DEF IInv, TypeOK, WindowInv, SeqNumsTrackPlaces
<1>2. \A k \in 0 .. n : entries[Slot(first_seqnum + k)].filled <=> base + k \in Held
  <2>1. SUFFICES ASSUME NEW k \in 0 .. n
                 PROVE  entries[Slot(first_seqnum + k)].filled <=> base + k \in Held
    OBVIOUS
  <2>2. base + k \in Int /\ base <= base + k /\ base + k < base + RAOP_BUFFER_LENGTH
    BY <1>1, Constants
  <2> QED BY <2>2, ScannedSlot, FilledMeansHeld
<1>3. base + n \in Held
  <2>1. top % RAOP_BUFFER_LENGTH = Slot(last_seqnum)
    BY <1>1, Ranges DEF IInv, WindowInv, SeqNumsTrackPlaces
  <2>2. entries[Slot(last_seqnum)].filled
    BY <1>1 DEF IInv, WindowInv, NewestIsHeld
  <2>3. top \in Held
    BY <1>1, <2>1, <2>2, FilledMeansHeld, Constants
  <2> QED BY <1>1, <2>3
<1>4. GapLength = CHOOSE k \in 0 .. n : Stop(k)
  <2>1. seqnum_cmp(last_seqnum, first_seqnum) = n
    <3>1. EntryCount = n + 1
      BY <1>1, HeadCount
    <3>2. seqnum_cmp(last_seqnum, first_seqnum) \in Int
      BY Constants DEF seqnum_cmp, IInv, TypeOK, SeqNums
    <3> QED BY <1>1, <3>1, <3>2 DEF EntryCount
  <2> QED BY <2>1 DEF GapLength
<1>5. \E k \in 0 .. n : Stop(k)
  <2>1. T \subseteq 0 .. n /\ n \in T
    BY <1>1, <1>3
  <2>2. PICK k \in T : \A j \in T : k <= j
    BY <1>1, <2>1, LeastNumber
  <2>3. \A j \in 0 .. k - 1 : j \in 0 .. n /\ j \notin T
    BY <1>1, <2>2
  <2> QED BY <1>2, <2>2, <2>3
<1> HIDE DEF n, Stop
<1>6. GapLength \in 0 .. n /\ Stop(GapLength)
  BY <1>4, <1>5
<1>7. \A j \in 0 .. GapLength - 1 : j \in 0 .. n
  BY <1>1, <1>6
<1> QED BY <1>2, <1>3, <1>6, <1>7 DEF Stop

\* For every ring length and sequence number range, a request for
\* retransmission names exactly the packets that are missing in front of the
\* next one that can be played, also when the numbers wrap within the gap.
THEOREM ResendsAlways == Spec => []ResendNamesTheGap
  BY GapNamed, Invariant, PTL
=============================================================================
