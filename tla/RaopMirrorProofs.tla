-------------------------- MODULE RaopMirrorProofs --------------------------
(***************************************************************************)
(* What holds of the mirroring receiver for every size of header, block    *)
(* and packet and any number of streams: the thread owns its stream, what  *)
(* it takes for a packet is one, it decrypts frames where the client       *)
(* encrypted them and shows them behind the parameter sets meant for them. *)
(***************************************************************************)
EXTENDS RaopMirror, Modular

\* The steps of the thread that leave its connection and the flags alone.
LEMMA QuietStep ==
  ASSUME ThreadOwnsTheStream, Alive, thread' \in Working \cup {"leaving", "aborted"},
         UNCHANGED <<flags, rtsp, stream_fd, conn>>,
         thread' \in Working => thread \in Working
  PROVE  ThreadOwnsTheStream'
  BY DEF ThreadOwnsTheStream, Alive, Working, flags

\* Dispatching a packet is such a step.
LEMMA DispatchOwns ==
  ASSUME ThreadOwnsTheStream, Dispatch
  PROVE  ThreadOwnsTheStream'
<1>1. CASE FrameAborts
  BY <1>1, QuietStep DEF FrameAborts, GoTo, network, Alive, Working
<1>2. CASE DispatchOther \/ DispatchSets \/ FrameDropped \/ FrameShown
  <2>1. EndOfPacket
    BY <1>2 DEF DispatchOther, DispatchSets, FrameDropped, FrameShown
  <2> QED BY <2>1, QuietStep DEF EndOfPacket, GoTo, network, Alive, Working
<1> QED BY <1>1, <1>2 DEF Dispatch

\* Receiving a piece, or learning that the connection ended.
LEMMA ReceivingOwns ==
  ASSUME ThreadOwnsTheStream, Receiving
  PROVE  ThreadOwnsTheStream'
<1>1. ASSUME NEW n \in 1 .. HEADER, RecvHeaderPart(n)
      PROVE  ThreadOwnsTheStream'
  BY <1>1, QuietStep DEF RecvHeaderPart, Alive, Working
<1>2. ASSUME NEW n \in 1 .. Len(wire), RecvPayload(n)
      PROVE  ThreadOwnsTheStream'
  BY <1>2, QuietStep DEF RecvPayload, GoTo, Alive, Working
<1>3. CASE RecvHeaderRest
  BY <1>3, QuietStep DEF RecvHeaderRest, Alive, Working
<1>4. CASE RecvClosedInHeader
  BY <1>4 DEF RecvClosedInHeader, GoTo, ThreadOwnsTheStream, Alive, Working, flags
<1>5. CASE RecvClosedInPayload \/ RecvFails
  BY <1>5, QuietStep DEF RecvClosedInPayload, RecvFails, GoTo, network, Alive, Working
<1> QED BY <1>1, <1>2, <1>3, <1>4, <1>5 DEF Receiving

\* Every step of raop_rtp_mirror_thread.
LEMMA ThreadOwns ==
  ASSUME ThreadOwnsTheStream, Thread
  PROVE  ThreadOwnsTheStream'
<1>1. CASE Check \/ SelectNothing \/ SelectClosed \/ Readable \/ RecvTimeout
  BY <1>1, QuietStep
     DEF Check, SelectNothing, SelectClosed, Readable, RecvTimeout, GoTo, network,
         Alive, Working
<1>2. CASE Accept
  BY <1>2 DEF Accept, GoTo, ThreadOwnsTheStream, Alive, Working, flags, network
<1>3. CASE Leave
  BY <1>3 DEF Leave, GoTo, ThreadOwnsTheStream, Alive, Working
<1>4. CASE ReportReset
  BY <1>4 DEF ReportReset, GoTo, ThreadOwnsTheStream, Alive, Working, flags, network
<1> QED BY <1>1, <1>2, <1>3, <1>4, ReceivingOwns, DispatchOwns DEF Thread

\* Every call of the RTSP side.
LEMMA RtspOwns ==
  ASSUME ThreadOwnsTheStream, RtspThread
  PROVE  ThreadOwnsTheStream'
<1> USE DEF ThreadOwnsTheStream, Alive, Working
<1>1. CASE SetUp
  <2>1. CASE joined /\ start
    BY <1>1, <2>1 DEF SetUp, start, network
  <2>2. CASE UNCHANGED <<flags, thread, stream_fd>>
    BY <1>1, <2>2 DEF SetUp, flags, network
  <2> QED BY <1>1, <2>1, <2>2 DEF SetUp
<1>2. CASE StopBegin
  BY <1>2 DEF StopBegin, Idle, network
<1>3. CASE StopClose
  BY <1>3 DEF StopClose, Disconnected, network
<1>4. CASE StopJoin
  BY <1>4 DEF StopJoin, network
<1> QED BY <1>1, <1>2, <1>3, <1>4 DEF RtspThread

\* The client changes its end of the connection only.
LEMMA ClientOwns ==
  ASSUME ThreadOwnsTheStream, Client
  PROVE  ThreadOwnsTheStream'
<1>1. UNCHANGED <<flags, rtsp, thread, stream_fd>>
  BY ZenonT(60) DEF Client, Connect, Send, End, clientless
<1>2. conn' = "none" => conn = "none"
  BY ZenonT(60) DEF Client, Connect, Send, End
<1> QED BY <1>1, <1>2, SMTT(40) DEF ThreadOwnsTheStream, Alive, Working, flags

\* While the mirroring thread exists it is not joined and its socket is closed
\* by nobody but raop_rtp_mirror_stop, for any sizes and any number of streams.
THEOREM StreamOwnedAlways == Spec => []ThreadOwnsTheStream
<1>1. Init => ThreadOwnsTheStream
  BY DEF Init, ThreadOwnsTheStream, Alive, Working
<1>2. ThreadOwnsTheStream /\ [Next]_vars => ThreadOwnsTheStream'
  <2> SUFFICES ASSUME ThreadOwnsTheStream, [Next]_vars
               PROVE  ThreadOwnsTheStream'
    OBVIOUS
  <2>1. CASE UNCHANGED vars
    BY <2>1 DEF vars, flags, network, ThreadOwnsTheStream, Alive, Working
  <2> QED BY <2>1, ThreadOwns, RtspOwns, ClientOwns DEF Next
<1> QED BY <1>1, <1>2, PTL DEF Spec

-----------------------------------------------------------------------------
(* The framing.                                                            *)

Packets == [id : 0 .. IDS - 1, type : Types \cup {"none"}, size : Nat, time : Int,
            start : Int, sets : Int, sets_time : Int]

AllUnits == [of : Packets, at : Nat]

Clients == [id : 0 .. IDS - 1, clock : Int, sent : Int, sets : Int, sets_time : Int]

Following(n) == (n + 1) % IDS

\* Units of the packet of wire[i] that come with it and behind it.
Left(i) == HEADER + wire[i].of.size - wire[i].at

\* What is under way is packets one behind the other, of which only the first
\* may lack its begin, and only the last, on a connection that ended, its end.
WireInv ==
  /\ wire \in Seq(AllUnits) /\ client \in Clients
  /\ \A i \in 1 .. Len(wire) : Left(i) > 0
  /\ \A i, j \in 1 .. Len(wire) :
       /\ i <= j /\ j < i + Left(i) => wire[j] = Unit(wire[i].of, wire[i].at + (j - i))
       /\ j = i + Left(i) => wire[j].at = 0 /\ wire[j].of.id = Following(wire[i].of.id)
  /\ conn = "open" =>
       \A i \in 1 .. Len(wire) :
         /\ i + Left(i) <= Len(wire) + 1
         /\ i + Left(i) = Len(wire) + 1 => client.id = Following(wire[i].of.id)
  /\ conn = "none" => wire = <<>>

\* How much of a packet the thread holds.
Held == IF allocated THEN HEADER + readstart ELSE readstart

Places == Working \cup {"leaving", "conn_reset", "none", "aborted"}

Serving == thread \in Working /\ stream_fd

\* What it holds is the begin of one packet, the one that is due.
HeldInv ==
  /\ packet \in [0 .. HEADER - 1 -> AllUnits] /\ readstart \in Nat /\ due \in 0 .. IDS - 1
  /\ allocated \in BOOLEAN /\ thread \in Places
  /\ thread \in {"header", "payload", "dispatch"} => stream_fd
  /\ thread \in {"conn_reset", "none"} => ~stream_fd
  /\ thread \in Working /\ ~stream_fd => ~allocated
  /\ Serving /\ Held > 0 => Current.id = due
  /\ Serving /\ ~allocated =>
       /\ readstart < HEADER /\ thread \notin {"payload", "dispatch"}
       /\ \A i \in 0 .. readstart - 1 : packet[i] = Unit(Current, i)
  /\ Serving /\ allocated =>
       /\ thread # "header"
       /\ IF thread = "dispatch" THEN readstart = Current.size ELSE readstart < Current.size
       /\ packet = [i \in 0 .. HEADER - 1 |-> Unit(Current, i)]
       /\ payload \in [0 .. Current.size - 1 -> AllUnits]
       /\ \A i \in 0 .. readstart - 1 : payload[i] = Unit(Current, HEADER + i)

\* What comes next begins with packet id, and so does the client if nothing is
\* under way.
Begins(id) ==
  /\ wire # <<>> => wire[1].at = 0 /\ wire[1].of.id = id
  /\ wire = <<>> /\ conn = "open" => client.id = id

\* What is under way goes on where the thread is.
GoesOn ==
  /\ ~stream_fd \/ (Serving /\ Held = 0) => Begins(due)
  /\ Serving /\ Held > 0 =>
       IF thread = "dispatch" THEN Begins(Following(due))
       ELSE /\ wire # <<>> => wire[1] = Unit(Current, Held)
            /\ wire = <<>> => conn # "open"

\* PacketsAreWhole made inductive.
Whole == WireInv /\ HeldInv /\ GoesOn

\* Packets are numbered modulo IDS.
LEMMA FollowingType == \A n \in 0 .. IDS - 1 : Following(n) \in 0 .. IDS - 1
  BY DEF Following, IDS

\* A unit under way is what it says, of a packet with a size.
LEMMA UnitType ==
  ASSUME WireInv, NEW i \in 1 .. Len(wire)
  PROVE  /\ wire[i] \in AllUnits /\ wire[i].of \in Packets
         /\ wire[i].of.size \in Nat /\ wire[i].at \in Nat /\ Left(i) \in Int
         /\ wire[i].of.id \in 0 .. IDS - 1
         /\ wire[i] = Unit(wire[i].of, wire[i].at)
<1>1. wire[i] \in AllUnits
  BY DEF WireInv
<1>2. wire[i].of \in Packets /\ wire[i].at \in Nat /\ wire[i].of.size \in Nat
  BY <1>1 DEF AllUnits, Packets
<1>3. wire[i].of.id \in 0 .. IDS - 1
  BY <1>2 DEF Packets
<1>4. Left(i) \in Int
  BY <1>2, MirrorAssumption DEF Left
<1>5. wire[i] = Unit(wire[i].of, wire[i].at)
  BY <1>1 DEF AllUnits, Unit
<1> QED BY <1>1, <1>2, <1>3, <1>4, <1>5

\* What is left when the first units are taken is under way as before.
LEMMA TakeWire ==
  ASSUME WireInv, NEW n \in 0 .. Len(wire), wire' = SubSeq(wire, n + 1, Len(wire)),
         UNCHANGED <<client, conn>>
  PROVE  /\ WireInv'
         /\ Len(wire') = Len(wire) - n
         /\ \A i \in 1 .. Len(wire') : i + n \in 1 .. Len(wire) /\ wire'[i] = wire[i + n]
<1>1. wire \in Seq(AllUnits)
  BY DEF WireInv
<1>2. /\ wire' \in Seq(AllUnits)
      /\ Len(wire') = Len(wire) - n
      /\ \A i \in 1 .. Len(wire') : i + n \in 1 .. Len(wire) /\ wire'[i] = wire[i + n]
  BY <1>1
<1>3. Len(wire) \in Nat /\ Len(wire') \in Nat /\ n \in Nat /\ Len(wire') = Len(wire) - n
  BY <1>1, <1>2
<1>4. \A i \in 1 .. Len(wire') : Left(i)' = Left(i + n) /\ Left(i + n) \in Int
  BY <1>2, UnitType DEF Left
<1>5. \A i \in 1 .. Len(wire') : Left(i)' > 0
  BY <1>2, <1>4 DEF WireInv
<1>6. ASSUME NEW i \in 1 .. Len(wire'), NEW j \in 1 .. Len(wire')
      PROVE  /\ i <= j /\ j < i + Left(i)' =>
                  wire'[j] = Unit(wire'[i].of, wire'[i].at + (j - i))
             /\ j = i + Left(i)' => wire'[j].at = 0 /\ wire'[j].of.id = Following(wire'[i].of.id)
  <2> DEFINE a == i + n
             b == j + n
             l == Left(a)
  <2>1. /\ a = i + n /\ b = j + n /\ l \in Int /\ Left(i)' = l
        /\ a \in 1 .. Len(wire) /\ b \in 1 .. Len(wire)
        /\ wire'[i] = wire[a] /\ wire'[j] = wire[b]
    BY <1>2, <1>4
  <2>2. /\ a <= b /\ b < a + l => wire[b] = Unit(wire[a].of, wire[a].at + (b - a))
        /\ b = a + l => wire[b].at = 0 /\ wire[b].of.id = Following(wire[a].of.id)
    BY <2>1 DEF WireInv
  <2> HIDE DEF a, b, l
  <2>3. i \in Int /\ j \in Int /\ n \in Nat /\ l \in Int /\ a = i + n /\ b = j + n
    BY <1>3, <2>1
  <2>4. /\ i <= j /\ j < i + l => a <= b /\ b < a + l
        /\ j = i + l => b = a + l
        /\ b - a = j - i
    BY <2>3
  <2> QED BY <2>1, <2>2, <2>4
<1>7. ASSUME conn' = "open", NEW i \in 1 .. Len(wire')
      PROVE  /\ i + Left(i)' <= Len(wire') + 1
             /\ i + Left(i)' = Len(wire') + 1 => client'.id = Following(wire'[i].of.id)
  <2> DEFINE a == i + n
             l == Left(a)
  <2>1. /\ a = i + n /\ l \in Int /\ Left(i)' = l
        /\ a \in 1 .. Len(wire) /\ wire'[i] = wire[a]
    BY <1>2, <1>4
  <2>2. /\ a + l <= Len(wire) + 1
        /\ a + l = Len(wire) + 1 => client.id = Following(wire[a].of.id)
    BY <1>7, <2>1 DEF WireInv
  <2> HIDE DEF a, l
  <2>3. /\ i \in Int /\ l \in Int /\ n \in Int /\ a = i + n /\ a + l <= Len(wire) + 1
        /\ Len(wire) \in Int /\ Len(wire') = Len(wire) - n
    BY <1>3, <2>1, <2>2
  <2>4. /\ i + l <= Len(wire') + 1
        /\ i + l = Len(wire') + 1 => a + l = Len(wire) + 1
    BY <2>3, SMTT(40)
  <2> QED BY <2>1, <2>2, <2>4
<1>8. client' \in Clients
  BY DEF WireInv
<1>9. conn' = "none" => wire' = <<>>
  BY <1>1, <1>2 DEF WireInv
<1> QED BY <1>2, <1>5, <1>6, <1>7, <1>8, <1>9 DEF WireInv

\* The packet the thread is in, of which it holds a part or is to read the first.
InHand == IF Held = 0 THEN wire[1].of ELSE Current

\* What is under way goes on with that packet, and on an open connection has the
\* rest of it; behind it is the next one, or the client is about to send it.
LEMMA Ahead ==
  ASSUME Whole, Serving, thread # "dispatch", wire # <<>>
  PROVE  /\ Held \in Nat /\ InHand \in Packets /\ InHand.size \in Nat /\ InHand.id = due
         /\ Held < HEADER + InHand.size
         /\ \A j \in 1 .. Len(wire) :
              /\ Held + j - 1 < HEADER + InHand.size => wire[j] = Unit(InHand, Held + j - 1)
              /\ Held + j - 1 = HEADER + InHand.size =>
                   wire[j].at = 0 /\ wire[j].of.id = Following(due)
         /\ conn = "open" =>
              /\ Held + Len(wire) >= HEADER + InHand.size
              /\ Held + Len(wire) = HEADER + InHand.size => client.id = Following(due)
<1> USE DEF Whole
<1>1. Held \in Nat
  BY MirrorAssumption DEF HeldInv, Held
<1>2. wire \in Seq(AllUnits) /\ Len(wire) \in Nat /\ 1 \in 1 .. Len(wire)
  BY DEF WireInv
<1>3. wire[1] = Unit(InHand, Held) /\ InHand = wire[1].of /\ Held = wire[1].at
  <2>1. CASE Held = 0
    <3>1. wire[1].at = 0
      BY <2>1 DEF GoesOn, Begins
    <3> QED BY <1>2, <2>1, <3>1, UnitType DEF InHand
  <2>2. CASE Held # 0
    <3>1. wire[1] = Unit(Current, Held)
      BY <1>1, <2>2 DEF GoesOn
    <3> QED BY <2>2, <3>1 DEF InHand, Unit
  <2> QED BY <2>1, <2>2
<1>4. InHand.id = due
  <2>1. CASE Held = 0
    BY <2>1 DEF GoesOn, Begins, InHand
  <2>2. CASE Held # 0
    BY <1>1, <2>2 DEF HeldInv, InHand
  <2> QED BY <2>1, <2>2
<1>5. InHand \in Packets /\ InHand.size \in Nat /\ Left(1) \in Int
  BY <1>2, <1>3, UnitType
<1>6. Left(1) = HEADER + InHand.size - Held /\ HEADER \in Nat
  BY <1>3, MirrorAssumption DEF Left
<1>7. Left(1) > 0
  BY <1>2 DEF WireInv
<1>8. ASSUME NEW j \in 1 .. Len(wire)
      PROVE  /\ Held + j - 1 < HEADER + InHand.size => wire[j] = Unit(InHand, Held + j - 1)
             /\ Held + j - 1 = HEADER + InHand.size =>
                  wire[j].at = 0 /\ wire[j].of.id = Following(due)
  <2>1. /\ 1 <= j /\ j < 1 + Left(1) => wire[j] = Unit(wire[1].of, wire[1].at + (j - 1))
        /\ j = 1 + Left(1) => wire[j].at = 0 /\ wire[j].of.id = Following(wire[1].of.id)
    BY <1>2 DEF WireInv
  <2>2. /\ Held + j - 1 < HEADER + InHand.size <=> j < 1 + Left(1)
        /\ Held + j - 1 = HEADER + InHand.size <=> j = 1 + Left(1)
        /\ Held + (j - 1) = Held + j - 1
    BY <1>1, <1>5, <1>6, SMTT(40)
  <2> QED BY <1>3, <1>4, <2>1, <2>2
<1>9. ASSUME conn = "open"
      PROVE  /\ Held + Len(wire) >= HEADER + InHand.size
             /\ Held + Len(wire) = HEADER + InHand.size => client.id = Following(due)
  <2>1. /\ 1 + Left(1) <= Len(wire) + 1
        /\ 1 + Left(1) = Len(wire) + 1 => client.id = Following(wire[1].of.id)
    BY <1>2, <1>9 DEF WireInv
  <2>2. Len(wire) \in Nat
    BY <1>2
  <2>3. Left(1) <= Len(wire)
    BY <1>5, <2>1, <2>2
  <2>4. Held + Len(wire) >= HEADER + InHand.size
    BY <1>1, <1>5, <1>6, <2>2, <2>3
  <2>5. Held + Len(wire) = HEADER + InHand.size => 1 + Left(1) = Len(wire) + 1
    BY <1>1, <1>5, <1>6, <2>2, <2>3, SMTT(40)
  <2> QED BY <1>3, <1>4, <2>1, <2>4, <2>5
<1>10. Held < HEADER + InHand.size
  BY <1>1, <1>5, <1>6, <1>7
<1> QED BY <1>1, <1>4, <1>5, <1>8, <1>9, <1>10

\* A step that moves nothing, between places that mean the same to the packet.
LEMMA QuietWhole ==
  ASSUME Whole, UNCHANGED <<stream_fd, buffers, wire, conn, client, due>>, thread' \in Places,
         thread' \in {"header", "payload", "dispatch"} => stream_fd,
         thread' \in {"conn_reset", "none"} => ~stream_fd,
         thread' \in Working =>
           /\ thread \in Working /\ thread # "dispatch" /\ thread' # "dispatch"
           /\ thread' = "header" => ~allocated
           /\ thread' = "payload" => allocated
  PROVE  Whole'
<1>1. /\ UNCHANGED <<stream_fd, packet, payload, allocated, readstart, wire, conn, client, due>>
      /\ Held' = Held /\ Current' = Current
  BY DEF buffers, Held, Current
<1>2. WireInv'
  BY <1>1 DEF Whole, WireInv, Left
<1>3. HeldInv'
  BY <1>1 DEF Whole, HeldInv, Serving, Working
<1>4. GoesOn'
  BY <1>1 DEF Whole, GoesOn, Begins, Serving, Working
<1> QED BY <1>2, <1>3, <1>4 DEF Whole

\* A step of a stream without client, or that ends it, before a packet is begun.
LEMMA ClientlessWhole ==
  ASSUME HeldInv, WireInv', Begins(due)', ~stream_fd',
         UNCHANGED <<packet, readstart, due, allocated>>, thread' \in Places, thread' \notin {"header", "payload", "dispatch"},
         thread' \in Working => ~allocated
  PROVE  Whole'
<1>1. HeldInv'
  BY DEF HeldInv, Serving
<1>2. GoesOn'
  BY DEF GoesOn, Serving
<1> QED BY <1>1, <1>2 DEF Whole

\* Where a connection is lost nothing is under way.
LEMMA NoWire ==
  ASSUME WireInv, Disconnected, client' = client
  PROVE  WireInv' /\ Begins(due)'
  BY DEF WireInv, Disconnected, Begins

-----------------------------------------------------------------------------
LEMMA RecvHeaderPartWhole ==
  ASSUME Whole, NEW n \in 1 .. HEADER, RecvHeaderPart(n)
  PROVE  Whole'
<1>1. /\ thread = "header" /\ thread' = thread /\ Serving /\ Serving'
      /\ ~allocated /\ ~allocated' /\ allocated' = allocated
      /\ n <= Len(wire) /\ wire' = SubSeq(wire, n + 1, Len(wire))
      /\ readstart + n < HEADER /\ readstart' = readstart + n
      /\ packet' = Fill(packet, n)
      /\ UNCHANGED <<stream_fd, payload, conn, client, due>>
  BY DEF RecvHeaderPart, Receive, Whole, HeldInv, Serving, Working, history
<1>2. /\ readstart \in Nat /\ wire \in Seq(AllUnits) /\ packet \in [0 .. HEADER - 1 -> AllUnits]
      /\ HEADER \in Nat \ {0} /\ Len(wire) \in Nat /\ n \in Nat \ {0} /\ wire # <<>>
  <2>1. wire \in Seq(AllUnits)
    BY DEF Whole, WireInv
  <2>2. Len(wire) \in Nat /\ wire # <<>> /\ n \in Nat \ {0}
    BY <1>1, <2>1
  <2> QED BY <2>1, <2>2, MirrorAssumption DEF Whole, HeldInv
<1>3. Held = readstart /\ Held' = readstart + n
  BY <1>1 DEF Held
<1>4. /\ InHand \in Packets /\ InHand.size \in Nat /\ InHand.id = due
      /\ \A j \in 1 .. Len(wire) :
           readstart + j - 1 < HEADER + InHand.size => wire[j] = Unit(InHand, readstart + j - 1)
      /\ conn = "open" => readstart + Len(wire) >= HEADER + InHand.size
  BY <1>1, <1>2, <1>3, Ahead
<1>5. /\ WireInv' /\ Len(wire') = Len(wire) - n
      /\ \A i \in 1 .. Len(wire') : i + n \in 1 .. Len(wire) /\ wire'[i] = wire[i + n]
  <2>1. n \in 0 .. Len(wire)
    BY <1>1, <1>2
  <2> QED BY <1>1, <2>1, TakeWire DEF Whole
<1>6. \A i \in 0 .. readstart + n - 1 : packet'[i] = Unit(InHand, i)
  <2> SUFFICES ASSUME NEW i \in 0 .. readstart + n - 1 PROVE packet'[i] = Unit(InHand, i)
    OBVIOUS
  <2>1. i \in 0 .. HEADER - 1
    BY <1>1, <1>2
  <2>2. CASE i < readstart
    <3>1. packet'[i] = packet[i]
      BY <1>1, <1>2, <2>1, <2>2 DEF Fill
    <3>2. packet[i] = Unit(Current, i) /\ readstart # 0
      BY <1>1, <1>2, <2>1, <2>2 DEF Whole, HeldInv
    <3> QED BY <1>3, <3>1, <3>2 DEF InHand
  <2>3. CASE i >= readstart
    <3>1. packet'[i] = wire[i - readstart + 1]
      BY <1>1, <1>2, <2>1, <2>3 DEF Fill
    <3> DEFINE j == i - readstart + 1
    <3>2. j \in 1 .. Len(wire) /\ readstart + j - 1 = i /\ i < HEADER + InHand.size
      BY <1>1, <1>2, <1>4, <2>1, <2>3
    <3> QED BY <1>4, <3>1, <3>2
  <2> QED BY <1>2, <2>1, <2>2, <2>3
<1>7. Current' = InHand
  <2>1. 0 \in 0 .. readstart + n - 1
    BY <1>2
  <2>2. packet'[0] = Unit(InHand, 0)
    BY <1>6, <2>1
  <2> QED BY <2>2 DEF Current, Unit
<1>8. packet' \in [0 .. HEADER - 1 -> AllUnits] /\ readstart' \in Nat
  <2>1. \A i \in 0 .. HEADER - 1 :
          i \in readstart .. readstart + n - 1 => i - readstart + 1 \in 1 .. Len(wire)
    BY <1>1, <1>2
  <2>2. \A j \in 1 .. Len(wire) : wire[j] \in AllUnits
    BY <1>2
  <2> QED BY <1>1, <1>2, <2>1, <2>2 DEF Fill
<1>9. HeldInv'
  BY <1>1, <1>3, <1>4, <1>6, <1>7, <1>8, SMTT(40) DEF Whole, HeldInv, Serving
<1>10. GoesOn'
  <2>1. Held' # 0 /\ Held' > 0 /\ thread' # "dispatch" /\ stream_fd'
    BY <1>1, <1>2, <1>3 DEF Serving
  <2>2. ASSUME wire' # <<>>
        PROVE  wire'[1] = Unit(Current, Held)'
    <3>1. 1 + n \in 1 .. Len(wire) /\ wire'[1] = wire[1 + n]
      <4>1. wire' \in Seq(AllUnits)
        BY <1>5 DEF WireInv
      <4>2. 1 \in 1 .. Len(wire')
        BY <2>2, <4>1
      <4> QED BY <1>5, <4>2
    <3>2. readstart + (1 + n) - 1 = readstart + n /\ readstart + n < HEADER + InHand.size
      BY <1>1, <1>2, <1>4
    <3>3. wire[1 + n] = Unit(InHand, readstart + n)
      BY <1>4, <3>1, <3>2
    <3> QED BY <1>3, <1>7, <3>1, <3>3 DEF Unit
  <2>3. wire' = <<>> => conn' # "open"
    <3> SUFFICES ASSUME wire' = <<>>, conn = "open" PROVE FALSE
      BY <1>1
    <3>1. Len(wire') = 0
      OBVIOUS
    <3> QED BY <1>1, <1>2, <1>4, <1>5, <3>1
  <2> QED BY <2>1, <2>2, <2>3 DEF GoesOn
<1> QED BY <1>5, <1>9, <1>10 DEF Whole

LEMMA RecvHeaderRestWhole ==
  ASSUME Whole, RecvHeaderRest
  PROVE  Whole'
<1> DEFINE n == HEADER - readstart
<1>1. /\ thread = "header" /\ Serving /\ Serving' /\ ~allocated /\ allocated' = TRUE
      /\ n <= Len(wire) /\ wire' = SubSeq(wire, n + 1, Len(wire))
      /\ readstart < HEADER /\ readstart' = 0
      /\ packet' = Fill(packet, n)
      /\ payload' = [i \in 0 .. packet'[0].of.size - 1 |-> NoUnit]
      /\ thread' = IF payload' = NoPayload THEN "dispatch" ELSE "payload"
      /\ UNCHANGED <<stream_fd, conn, client, due>>
  BY DEF RecvHeaderRest, Receive, Whole, HeldInv, Serving, Working, history
<1>2. /\ readstart \in Nat /\ wire \in Seq(AllUnits) /\ packet \in [0 .. HEADER - 1 -> AllUnits]
      /\ HEADER \in Nat \ {0} /\ Len(wire) \in Nat /\ n \in Nat \ {0} /\ wire # <<>>
  <2>1. wire \in Seq(AllUnits) /\ HEADER \in Nat \ {0} /\ readstart \in Nat
    BY MirrorAssumption DEF Whole, WireInv, HeldInv
  <2>2. n \in Nat \ {0}
    BY <1>1, <2>1
  <2>3. Len(wire) \in Nat /\ wire # <<>>
    BY <1>1, <2>1, <2>2
  <2> QED BY <2>1, <2>2, <2>3 DEF Whole, HeldInv
<1>3. Held = readstart
  BY <1>1 DEF Held
<1>4. /\ InHand \in Packets /\ InHand.size \in Nat /\ InHand.id = due
      /\ \A j \in 1 .. Len(wire) :
           /\ readstart + j - 1 < HEADER + InHand.size => wire[j] = Unit(InHand, readstart + j - 1)
           /\ readstart + j - 1 = HEADER + InHand.size =>
                wire[j].at = 0 /\ wire[j].of.id = Following(due)
      /\ conn = "open" =>
           /\ readstart + Len(wire) >= HEADER + InHand.size
           /\ readstart + Len(wire) = HEADER + InHand.size => client.id = Following(due)
  BY <1>1, <1>2, <1>3, Ahead
<1>5. /\ WireInv' /\ Len(wire') = Len(wire) - n
      /\ \A i \in 1 .. Len(wire') : i + n \in 1 .. Len(wire) /\ wire'[i] = wire[i + n]
  <2>1. n \in 0 .. Len(wire)
    BY <1>1, <1>2
  <2> QED BY <1>1, <2>1, TakeWire DEF Whole
<1>6. \A i \in 0 .. HEADER - 1 : packet'[i] = Unit(InHand, i)
  <2> SUFFICES ASSUME NEW i \in 0 .. HEADER - 1 PROVE packet'[i] = Unit(InHand, i)
    OBVIOUS
  <2>1. readstart + n - 1 = HEADER - 1
    BY <1>2
  <2>2. CASE i < readstart
    <3>1. packet'[i] = packet[i]
      BY <1>1, <1>2, <2>1, <2>2 DEF Fill
    <3>2. packet[i] = Unit(Current, i) /\ readstart # 0
      BY <1>1, <1>2, <2>2 DEF Whole, HeldInv
    <3> QED BY <1>3, <3>1, <3>2 DEF InHand
  <2>3. CASE i >= readstart
    <3>1. packet'[i] = wire[i - readstart + 1]
      <4>1. i \in readstart .. readstart + n - 1
        BY <1>2, <2>1, <2>3
      <4> QED BY <1>1, <1>2, <4>1 DEF Fill
    <3> DEFINE j == i - readstart + 1
    <3>2. j \in 1 .. Len(wire) /\ readstart + j - 1 = i /\ i < HEADER + InHand.size
      <4> DEFINE size == InHand.size
                 l == Len(wire)
      <4>1. /\ size \in Nat /\ l \in Nat /\ readstart \in Nat /\ n \in Int /\ HEADER \in Nat
            /\ readstart + n = HEADER /\ n <= l /\ i \in Int /\ i < HEADER
        BY <1>1, <1>2, <1>4
      <4> HIDE DEF size, l
      <4>2. j \in 1 .. l /\ readstart + j - 1 = i /\ i < HEADER + size
        BY <2>3, <4>1
      <4> QED BY <4>2 DEF size, l
    <3> QED BY <1>4, <3>1, <3>2
  <2> QED BY <1>2, <2>2, <2>3
<1>7. Current' = InHand
  <2>1. packet'[0] = Unit(InHand, 0)
    BY <1>2, <1>6
  <2> QED BY <2>1 DEF Current, Unit
<1>8. packet' = [i \in 0 .. HEADER - 1 |-> Unit(InHand, i)]
  BY <1>1, <1>2, <1>6 DEF Fill
<1>9. packet' \in [0 .. HEADER - 1 -> AllUnits]
  BY <1>2, <1>4, <1>8 DEF Unit, AllUnits
<1>10. /\ payload' = [i \in 0 .. InHand.size - 1 |-> NoUnit]
       /\ payload' \in [0 .. InHand.size - 1 -> AllUnits]
  <2>1. NoUnit \in AllUnits
    BY DEF NoUnit, Unit, AllUnits, NoPacket, Packets, NoTime, NoSets, IDS
  <2>2. payload' = [i \in 0 .. InHand.size - 1 |-> NoUnit]
    BY <1>1, <1>7 DEF Current
  <2> QED BY <2>1, <2>2
<1>11. thread' = IF InHand.size = 0 THEN "dispatch" ELSE "payload"
  <2>1. InHand.size = 0 => payload' = NoPayload
    BY <1>10 DEF NoPayload
  <2>2. ASSUME InHand.size # 0 PROVE payload' # NoPayload
    <3>1. 0 \in DOMAIN payload'
      BY <1>4, <1>10, <2>2
    <3>2. 0 \notin DOMAIN NoPayload
      BY DEF NoPayload
    <3> QED BY <3>1, <3>2
  <2> QED BY <1>1, <2>1, <2>2
<1>12. Held' = HEADER
  BY <1>1, <1>2 DEF Held
<1>13. HeldInv'
  <2>1. readstart' \in Nat /\ due' \in 0 .. IDS - 1 /\ allocated' \in BOOLEAN
    BY <1>1 DEF Whole, HeldInv
  <2>2. thread' \in {"dispatch", "payload"} /\ stream_fd'
    BY <1>1, <1>11 DEF Serving
  <2>3. Current'.id = due'
    BY <1>1, <1>4, <1>7
  <2>4. IF thread' = "dispatch" THEN readstart' = Current'.size ELSE readstart' < Current'.size
    BY <1>1, <1>4, <1>7, <1>11
  <2>5. /\ packet' = [i \in 0 .. HEADER - 1 |-> Unit(Current', i)]
        /\ payload' \in [0 .. Current'.size - 1 -> AllUnits]
    BY <1>7, <1>8, <1>10
  <2>6. \A i \in 0 .. readstart' - 1 : payload'[i] = Unit(Current', HEADER + i)
    BY <1>1
  <2> QED BY <1>1, <1>9, <2>1, <2>2, <2>3, <2>4, <2>5, <2>6 DEF HeldInv, Unit, Places, Working
<1>14. GoesOn'
  <2>1. Held' > 0 /\ Held' # 0 /\ stream_fd'
    BY <1>1, <1>2, <1>12 DEF Serving
  <2>2. ASSUME wire' # <<>>
        PROVE  1 + n \in 1 .. Len(wire) /\ wire'[1] = wire[1 + n]
    <3>1. wire' \in Seq(AllUnits)
      BY <1>5 DEF WireInv
    <3>2. 1 \in 1 .. Len(wire')
      BY <2>2, <3>1
    <3> QED BY <1>5, <3>2
  <2>3. readstart + (1 + n) - 1 = HEADER
    BY <1>2
  <2>4. ASSUME wire' = <<>> PROVE Len(wire) = n
    <3>1. Len(wire') = 0
      BY <2>4
    <3> QED BY <1>2, <1>5, <3>1
  <2>5. CASE InHand.size = 0
    <3>1. thread' = "dispatch"
      BY <1>11, <2>5
    <3>2. Begins(Following(due))'
      <4>1. wire' # <<>> => wire'[1].at = 0 /\ wire'[1].of.id = Following(due)
        BY <1>2, <1>4, <2>2, <2>3, <2>5
      <4>2. wire' = <<>> /\ conn = "open" => client.id = Following(due)
        BY <1>2, <1>4, <2>4, <2>5
      <4> QED BY <1>1, <4>1, <4>2 DEF Begins, Following
    <3> QED BY <2>1, <3>1, <3>2 DEF GoesOn
  <2>6. CASE InHand.size # 0
    <3>1. thread' = "payload"
      BY <1>11, <2>6
    <3>2. HEADER < HEADER + InHand.size /\ readstart + n = HEADER
      <4>1. InHand.size \in Nat \ {0} /\ HEADER \in Nat /\ readstart \in Nat
        BY <1>2, <1>4, <2>6
      <4> QED BY <4>1
    <3>3. wire' # <<>> => wire'[1] = Unit(InHand, HEADER)
      BY <1>4, <2>2, <2>3, <3>2
    <3>4. wire' = <<>> => conn # "open"
      <4> SUFFICES ASSUME wire' = <<>>, conn = "open" PROVE FALSE
        OBVIOUS
      <4>1. HEADER >= HEADER + InHand.size
        BY <1>4, <2>4, <3>2
      <4>2. HEADER \in Int /\ HEADER + InHand.size \in Int
        BY <1>2, <1>4
      <4> QED BY <3>2, <4>1, <4>2
    <3> QED BY <1>1, <1>7, <1>12, <2>1, <3>1, <3>3, <3>4 DEF GoesOn, Unit
  <2> QED BY <2>5, <2>6
<1> QED BY <1>5, <1>13, <1>14 DEF Whole

LEMMA RecvPayloadWhole ==
  ASSUME Whole, NEW n \in 1 .. Len(wire), RecvPayload(n)
  PROVE  Whole'
<1>1. /\ thread = "payload" /\ Serving /\ allocated /\ allocated' = allocated
      /\ readstart + n <= Current.size /\ readstart' = readstart + n
      /\ thread' = IF readstart + n = Current.size THEN "dispatch" ELSE "payload"
      /\ wire' = SubSeq(wire, n + 1, Len(wire))
      /\ payload' = Fill(payload, n)
      /\ UNCHANGED <<stream_fd, packet, conn, client, due>>
  <2>1. thread = "payload" /\ stream_fd
    BY DEF RecvPayload, GoTo, Whole, HeldInv
  <2>2. Serving
    BY <2>1 DEF Serving, Working
  <2>3. allocated
    BY <2>1, <2>2 DEF Whole, HeldInv
  <2> QED BY <2>1, <2>2, <2>3 DEF RecvPayload, Receive, GoTo, history
<1>2. /\ readstart \in Nat /\ wire \in Seq(AllUnits) /\ HEADER \in Nat \ {0}
      /\ Len(wire) \in Nat /\ n \in Nat \ {0} /\ wire # <<>>
  <2>1. wire \in Seq(AllUnits)
    BY DEF Whole, WireInv
  <2> QED BY <2>1, MirrorAssumption DEF Whole, HeldInv
<1>3. /\ Held = HEADER + readstart /\ Held # 0 /\ InHand = Current
  BY <1>1, <1>2 DEF Held, InHand
<1>4. /\ Current.size \in Nat /\ Current.id = due
      /\ \A j \in 1 .. Len(wire) :
           /\ Held + j - 1 < HEADER + Current.size => wire[j] = Unit(Current, Held + j - 1)
           /\ Held + j - 1 = HEADER + Current.size =>
                wire[j].at = 0 /\ wire[j].of.id = Following(due)
      /\ conn = "open" =>
           /\ Held + Len(wire) >= HEADER + Current.size
           /\ Held + Len(wire) = HEADER + Current.size => client.id = Following(due)
  <2>1. thread # "dispatch"
    BY <1>1
  <2> HIDE DEF InHand
  <2> QED BY <1>1, <1>2, <1>3, <2>1, Ahead
<1>5. /\ WireInv' /\ Len(wire') = Len(wire) - n
      /\ \A i \in 1 .. Len(wire') : i + n \in 1 .. Len(wire) /\ wire'[i] = wire[i + n]
  <2>1. n \in 0 .. Len(wire)
    BY <1>2
  <2> QED BY <1>1, <2>1, TakeWire DEF Whole
<1>6. /\ payload \in [0 .. Current.size - 1 -> AllUnits]
      /\ packet = [i \in 0 .. HEADER - 1 |-> Unit(Current, i)]
      /\ \A i \in 0 .. readstart - 1 : payload[i] = Unit(Current, HEADER + i)
  BY <1>1 DEF Whole, HeldInv
<1>7. Current' = Current
  BY <1>1 DEF Current
<1>8. payload' \in [0 .. Current.size - 1 -> AllUnits]
  <2>1. \A i \in 0 .. Current.size - 1 :
          i \in readstart .. readstart + n - 1 => i - readstart + 1 \in 1 .. Len(wire)
    BY <1>2, <1>4
  <2>2. \A j \in 1 .. Len(wire) : wire[j] \in AllUnits
    BY <1>2
  <2> QED BY <1>1, <1>6, <2>1, <2>2 DEF Fill
<1>9. \A i \in 0 .. readstart + n - 1 : payload'[i] = Unit(Current, HEADER + i)
  <2> SUFFICES ASSUME NEW i \in 0 .. readstart + n - 1
               PROVE  payload'[i] = Unit(Current, HEADER + i)
    OBVIOUS
  <2>1. i \in 0 .. Current.size - 1 /\ i \in Nat
    BY <1>1, <1>2, <1>4
  <2>2. CASE i < readstart
    <3>1. i \in 0 .. readstart - 1 /\ i \notin readstart .. readstart + n - 1
      BY <1>2, <2>1, <2>2
    <3> QED BY <1>1, <1>6, <2>1, <3>1 DEF Fill
  <2>3. CASE i >= readstart
    <3> DEFINE j == i - readstart + 1
    <3>1. i \in readstart .. readstart + n - 1
      BY <1>2, <2>1, <2>3
    <3>2. payload'[i] = wire[j]
      BY <1>1, <1>6, <2>1, <3>1 DEF Fill
    <3>3. /\ i \in Int /\ i < Current.size /\ readstart <= i /\ i <= readstart + n - 1
          /\ readstart \in Int /\ n \in Int /\ n <= Len(wire) /\ Len(wire) \in Int
          /\ HEADER \in Int /\ Held = HEADER + readstart /\ Current.size \in Int
      BY <1>2, <1>3, <1>4, <2>1, <3>1
    <3>4. j \in 1 .. Len(wire) /\ Held + j - 1 = HEADER + i /\ HEADER + i < HEADER + Current.size
      BY <3>3
    <3> HIDE DEF j
    <3> QED BY <1>4, <3>2, <3>4
  <2> QED BY <1>2, <2>1, <2>2, <2>3
<1>10. Held' = HEADER + (readstart + n) /\ Held' > 0 /\ Held' # 0 /\ Held' = Held + n
  BY <1>1, <1>2, <1>3 DEF Held
<1>11. thread' \in {"dispatch", "payload"} /\ stream_fd'
  BY <1>1 DEF Serving
<1>12. HeldInv'
  <2>1. /\ packet' \in [0 .. HEADER - 1 -> AllUnits] /\ readstart' \in Nat
        /\ due' \in 0 .. IDS - 1 /\ allocated' \in BOOLEAN
    BY <1>1, <1>2 DEF Whole, HeldInv
  <2>2. IF thread' = "dispatch" THEN readstart' = Current'.size ELSE readstart' < Current'.size
    <3>1. readstart + n <= Current.size /\ readstart + n \in Nat /\ Current.size \in Nat
      BY <1>1, <1>2, <1>4
    <3>2. readstart + n # Current.size => readstart + n < Current.size
      BY <3>1
    <3> QED BY <1>1, <1>7, <3>2
  <2>3. Current'.id = due'
    BY <1>1, <1>4, <1>7
  <2>4. /\ packet' = [i \in 0 .. HEADER - 1 |-> Unit(Current', i)]
        /\ payload' \in [0 .. Current'.size - 1 -> AllUnits]
    BY <1>1, <1>6, <1>7, <1>8
  <2>5. \A i \in 0 .. readstart' - 1 : payload'[i] = Unit(Current', HEADER + i)
    <3>1. readstart' = readstart + n /\ readstart \in Nat
      BY <1>1, <1>2
    <3>2. 0 .. readstart' - 1 = 0 .. readstart + n - 1
      BY <3>1
    <3> QED BY <1>7, <1>9, <3>2
  <2> QED BY <1>1, <1>11, <2>1, <2>2, <2>3, <2>4, <2>5 DEF HeldInv, Unit, Places, Working
<1>13. GoesOn'
  <2>1. ASSUME wire' # <<>>
        PROVE  1 + n \in 1 .. Len(wire) /\ wire'[1] = wire[1 + n]
    <3>1. wire' \in Seq(AllUnits)
      BY <1>5 DEF WireInv
    <3>2. 1 \in 1 .. Len(wire')
      BY <2>1, <3>1
    <3> QED BY <1>5, <3>2
  <2>2. Held + (1 + n) - 1 = Held' /\ Held \in Nat
    BY <1>2, <1>3, <1>10
  <2>3. ASSUME wire' = <<>> PROVE Len(wire) = n
    <3>1. Len(wire') = 0
      BY <2>3
    <3> QED BY <1>2, <1>5, <3>1
  <2>4. CASE readstart + n = Current.size
    <3>1. thread' = "dispatch" /\ Held + n = HEADER + Current.size
      BY <1>1, <1>2, <1>3, <2>4
    <3>2. Begins(Following(due))'
      <4>1. wire' # <<>> => wire'[1].at = 0 /\ wire'[1].of.id = Following(due)
        BY <1>4, <1>10, <2>1, <2>2, <3>1
      <4>2. wire' = <<>> /\ conn = "open" => client.id = Following(due)
        BY <1>4, <2>3, <3>1
      <4> QED BY <1>1, <4>1, <4>2 DEF Begins, Following
    <3> QED BY <1>10, <1>11, <3>1, <3>2 DEF GoesOn
  <2>5. CASE readstart + n # Current.size
    <3>1. thread' = "payload"
      BY <1>1, <2>5
    <3>2. Held + n < HEADER + Current.size
      <4>1. readstart + n <= Current.size /\ readstart + n \in Nat /\ Current.size \in Nat
        BY <1>1, <1>2, <1>4
      <4>2. readstart + n < Current.size
        BY <2>5, <4>1
      <4> QED BY <1>2, <1>3, <4>1, <4>2
    <3>3. wire' # <<>> => wire'[1] = Unit(Current, Held')
      BY <1>4, <1>10, <2>1, <2>2, <3>2
    <3>4. wire' = <<>> => conn # "open"
      <4> SUFFICES ASSUME wire' = <<>>, conn = "open" PROVE FALSE
        OBVIOUS
      <4>1. Held + n >= HEADER + Current.size
        BY <1>4, <2>3
      <4> QED BY <1>2, <1>4, <2>2, <3>2, <4>1
    <3> QED BY <1>1, <1>7, <1>10, <1>11, <3>1, <3>3, <3>4 DEF GoesOn, Unit
  <2> QED BY <2>4, <2>5
<1> QED BY <1>5, <1>12, <1>13 DEF Whole

\* Receiving a piece, or learning that the connection ended.
LEMMA ReceivingWhole ==
  ASSUME Whole, Receiving
  PROVE  Whole'
<1>1. CASE RecvClosedInHeader
  <2>1. /\ thread' = "check" /\ ~stream_fd' /\ ~allocated
        /\ Disconnected /\ UNCHANGED <<packet, readstart, allocated, due, client>>
    BY <1>1 DEF RecvClosedInHeader, GoTo, buffers, history, Whole, HeldInv, Serving, Working
  <2>2. WireInv' /\ Begins(due)'
    BY <2>1, NoWire DEF Whole
  <2> QED BY <2>1, <2>2, ClientlessWhole DEF Whole, Places, Working
<1>2. CASE RecvClosedInPayload \/ RecvFails
  BY <1>2, QuietWhole
     DEF RecvClosedInPayload, RecvFails, GoTo, network, buffers, history, Working, Places
<1> QED BY <1>1, <1>2, RecvHeaderPartWhole, RecvHeaderRestWhole, RecvPayloadWhole DEF Receiving

\* A packet is done with: the next one is due.
LEMMA DispatchWhole ==
  ASSUME Whole, Dispatch
  PROVE  Whole'
<1>1. CASE FrameAborts
  BY <1>1, QuietWhole DEF FrameAborts, GoTo, network, buffers, history, Working, Places
<1>2. CASE DispatchOther \/ DispatchSets \/ FrameDropped \/ FrameShown
  <2>1. EndOfPacket
    BY <1>2 DEF DispatchOther, DispatchSets, FrameDropped, FrameShown
  <2>2. /\ thread = "dispatch" /\ Serving /\ allocated /\ thread' = "check"
        /\ packet' = NoHeader /\ allocated' = FALSE /\ readstart' = 0
        /\ due' = Following(due)
        /\ UNCHANGED <<stream_fd, wire, conn, client>>
    BY <2>1 DEF EndOfPacket, GoTo, network, Following, Whole, HeldInv, Serving, Working
  <2>3. WireInv'
    BY <2>2 DEF Whole, WireInv, Left
  <2>4. packet' \in [0 .. HEADER - 1 -> AllUnits]
    <3>1. NoUnit \in AllUnits
      BY DEF NoUnit, Unit, AllUnits, NoPacket, Packets, NoTime, NoSets, IDS
    <3> QED BY <2>2, <3>1 DEF NoHeader
  <2>5. Held' = 0 /\ stream_fd' /\ due' \in 0 .. IDS - 1
    BY <2>2, FollowingType DEF Held, Serving, Whole, HeldInv
  <2>6. HeldInv'
    <3>1. readstart' < HEADER /\ readstart' \in Nat /\ ~(Held' > 0)
      BY <2>2, <2>5, MirrorAssumption
    <3>2. \A i \in 0 .. readstart' - 1 : packet'[i] = Unit(Current', i)
      BY <2>2
    <3> QED BY <2>2, <2>4, <2>5, <3>1, <3>2 DEF HeldInv, Serving, Places, Working, Unit
  <2>7. Begins(due)'
    <3>1. Held > 0
      BY <2>2, MirrorAssumption DEF Held, Whole, HeldInv
    <3>2. Begins(Following(due))
      BY <2>2, <3>1 DEF Whole, GoesOn
    <3> QED BY <2>2, <3>2 DEF Begins
  <2> QED BY <2>3, <2>5, <2>6, <2>7 DEF Whole, GoesOn
<1> QED BY <1>1, <1>2 DEF Dispatch

\* Every step of raop_rtp_mirror_thread.
LEMMA ThreadWhole ==
  ASSUME Whole, Thread
  PROVE  Whole'
<1>1. CASE Check \/ SelectNothing \/ SelectClosed \/ RecvTimeout
  BY <1>1, QuietWhole
     DEF Check, SelectNothing, SelectClosed, RecvTimeout, GoTo, network, buffers, history,
         Working, Places
<1>2. CASE Readable
  BY <1>2, QuietWhole DEF Readable, GoTo, network, buffers, history, Working, Places
<1>3. CASE Accept
  <2>1. /\ thread = "select" /\ thread' = "check" /\ ~stream_fd /\ stream_fd'
        /\ ~allocated /\ allocated' = FALSE /\ readstart' = 0
        /\ UNCHANGED <<packet, wire, conn, client, due>>
    BY <1>3 DEF Accept, GoTo, network, history, Whole, HeldInv, Working
  <2>2. WireInv'
    BY <2>1 DEF Whole, WireInv, Left
  <2>3. Held' = 0
    BY <2>1 DEF Held
  <2>4. HeldInv'
    <3>1. readstart' < HEADER /\ readstart' \in Nat /\ ~(Held' > 0)
      BY <2>1, <2>3, MirrorAssumption
    <3>2. \A i \in 0 .. readstart' - 1 : packet'[i] = Unit(Current', i)
      BY <2>1
    <3>3. packet' \in [0 .. HEADER - 1 -> AllUnits] /\ due' \in 0 .. IDS - 1
      BY <2>1 DEF Whole, HeldInv
    <3> QED BY <2>1, <2>3, <3>1, <3>2, <3>3 DEF HeldInv, Serving, Places, Working, Unit
  <2>5. Begins(due)'
    BY <2>1 DEF Whole, GoesOn, Begins
  <2> QED BY <2>2, <2>3, <2>4, <2>5 DEF Whole, GoesOn
<1>4. CASE Leave
  <2>1. /\ thread' \in {"conn_reset", "none"} /\ ~stream_fd'
        /\ UNCHANGED <<packet, readstart, allocated, due, client>>
    BY <1>4 DEF Leave, GoTo, buffers, history
  <2>2. WireInv' /\ Begins(due)'
    <3>1. CASE stream_fd
      BY <1>4, <2>1, <3>1, NoWire DEF Leave, Whole
    <3>2. CASE ~stream_fd
      <4>1. UNCHANGED <<wire, conn>> /\ Begins(due)
        BY <1>4, <3>2 DEF Leave, network, Whole, GoesOn
      <4> QED BY <2>1, <4>1 DEF Whole, WireInv, Left, Begins
    <3> QED BY <3>1, <3>2
  <2> QED BY <2>1, <2>2, ClientlessWhole DEF Whole, Places, Working
<1>5. CASE ReportReset
  BY <1>5, QuietWhole
     DEF ReportReset, GoTo, network, buffers, history, Working, Places, Whole, HeldInv
<1> QED BY <1>1, <1>2, <1>3, <1>4, <1>5, ReceivingWhole, DispatchWhole DEF Thread

\* Every call of the RTSP side; a stream is set up when the thread of the one
\* before was joined.
LEMMA RtspWhole ==
  ASSUME Whole, ThreadOwnsTheStream, RtspThread
  PROVE  Whole'
<1>1. CASE SetUp
  <2>1. UNCHANGED <<wire, conn, due>> /\ client' = [client EXCEPT !.sent = 0]
    BY <1>1 DEF SetUp, network
  <2>2. client' \in Clients /\ client'.id = client.id
    BY <2>1 DEF Whole, WireInv, Clients
  <2>3. WireInv'
    BY <2>1, <2>2 DEF Whole, WireInv, Left
  <2>4. CASE joined /\ start
    <3>1. /\ thread' = "check" /\ ~stream_fd' /\ packet' = NoHeader
          /\ ~allocated' /\ allocated' = FALSE /\ readstart' = 0
      BY <2>4 DEF start
    <3>2. ~stream_fd
      <4>1. ~Alive /\ thread # "aborted"
        BY <1>1, <2>4 DEF SetUp, Idle, ThreadOwnsTheStream
      <4>2. stream_fd => thread \notin {"conn_reset", "none"}
        BY DEF Whole, HeldInv
      <4>3. thread \in Places
        BY DEF Whole, HeldInv
      <4> QED BY <4>1, <4>2, <4>3 DEF Alive, Places
    <3>3. packet' \in [0 .. HEADER - 1 -> AllUnits]
      <4>1. NoUnit \in AllUnits
        BY DEF NoUnit, Unit, AllUnits, NoPacket, Packets, NoTime, NoSets, IDS
      <4> QED BY <3>1, <4>1 DEF NoHeader
    <3>4. HeldInv'
      BY <2>1, <3>1, <3>3 DEF Whole, HeldInv, Serving, Places, Working
    <3>5. Begins(due)'
      BY <2>1, <2>2, <3>2 DEF Whole, GoesOn, Begins
    <3> QED BY <2>3, <3>1, <3>4, <3>5 DEF Whole, GoesOn, Serving
  <2>5. CASE UNCHANGED <<thread, stream_fd, buffers>>
    <3>1. /\ UNCHANGED <<thread, stream_fd, packet, payload, allocated, readstart>>
          /\ Held' = Held /\ Current' = Current
      BY <2>5 DEF buffers, Held, Current
    <3>2. HeldInv'
      BY <2>1, <3>1 DEF Whole, HeldInv, Serving
    <3>3. GoesOn'
      BY <2>1, <2>2, <3>1 DEF Whole, GoesOn, Begins, Serving
    <3> QED BY <2>3, <3>2, <3>3 DEF Whole
  <2> QED BY <1>1, <2>4, <2>5 DEF SetUp
<1>2. ASSUME UNCHANGED <<thread, stream_fd, buffers, wire, conn, client, due>>
      PROVE  Whole'
  <2>1. /\ UNCHANGED <<packet, payload, allocated, readstart>>
        /\ Held' = Held /\ Current' = Current
    BY <1>2 DEF buffers, Held, Current
  <2>2. WireInv' /\ HeldInv' /\ GoesOn'
    BY <1>2, <2>1 DEF Whole, WireInv, Left, HeldInv, GoesOn, Begins, Serving
  <2> QED BY <2>2 DEF Whole
<1>3. CASE StopBegin \/ StopJoin
  BY <1>2, <1>3 DEF StopBegin, StopJoin, network, history
<1>4. CASE StopClose
  <2>1. CASE stream_fd
    BY <1>2, <1>4, <2>1 DEF StopClose, network, history
  <2>2. CASE ~stream_fd
    <3>1. /\ UNCHANGED <<thread, stream_fd, packet, payload, allocated, readstart, client, due>>
          /\ Disconnected
      BY <1>4, <2>2 DEF StopClose, buffers, history
    <3>2. WireInv' /\ Begins(due)'
      BY <3>1, NoWire DEF Whole
    <3> QED BY <2>2, <3>1, <3>2 DEF Whole, HeldInv, GoesOn, Serving
  <2> QED BY <2>1, <2>2
<1> QED BY <1>1, <1>3, <1>4 DEF RtspThread

\* A packet is sent as units 0 to HEADER + size - 1 of it.
LEMMA UnitsType ==
  ASSUME NEW p \in Packets
  PROVE  /\ Units(p) \in Seq(AllUnits) /\ Len(Units(p)) = HEADER + p.size
         /\ p.size \in Nat /\ p.id \in 0 .. IDS - 1
         /\ \A i \in 1 .. HEADER + p.size : Units(p)[i] = Unit(p, i - 1)
<1>1. p.size \in Nat /\ HEADER \in Nat /\ HEADER + p.size \in Nat
  BY MirrorAssumption DEF Packets
<1>2. \A i \in 1 .. HEADER + p.size : Unit(p, i - 1) \in AllUnits
  BY <1>1 DEF Unit, AllUnits
<1>3. Units(p) \in [1 .. HEADER + p.size -> AllUnits]
  BY <1>2 DEF Units
<1>4. Units(p) \in Seq(AllUnits) /\ Len(Units(p)) = HEADER + p.size
  BY <1>1, <1>3
<1>5. p.id \in 0 .. IDS - 1
  BY DEF Packets
<1> QED BY <1>1, <1>4, <1>5 DEF Units

\* What the client sends goes behind what is under way.
LEMMA SendWire ==
  ASSUME WireInv, NEW p \in Packets, conn = "open", conn' = conn, p.id = client.id,
         wire' = wire \o Units(p), client' \in Clients, client'.id = Following(client.id)
  PROVE  /\ WireInv' /\ wire' # <<>>
         /\ wire # <<>> => wire'[1] = wire[1]
         /\ wire = <<>> => wire'[1] = Unit(p, 0)
<1> DEFINE m == Len(wire)
           k == HEADER + p.size
           new(i) == Unit(p, i - m - 1)
<1>1. /\ Units(p) \in Seq(AllUnits) /\ Len(Units(p)) = k /\ k \in Nat \ {0} /\ p.size \in Nat
      /\ \A i \in 1 .. k : Units(p)[i] = Unit(p, i - 1)
  BY UnitsType, MirrorAssumption, SMTT(40)
<1>2. wire \in Seq(AllUnits) /\ m \in Nat
  BY DEF WireInv
<1>3. wire' \in Seq(AllUnits) /\ Len(wire') = m + k
  BY <1>1, <1>2
<1>4. \A i \in 1 .. m : wire'[i] = wire[i]
  BY <1>1, <1>2
<1>5. \A i \in m + 1 .. m + k : wire'[i] = new(i)
  <2> SUFFICES ASSUME NEW i \in m + 1 .. m + k PROVE wire'[i] = new(i)
    OBVIOUS
  <2>1. i - m \in 1 .. k /\ i \in 1 .. m + k /\ i > m
    BY <1>1, <1>2
  <2>2. wire'[i] = Units(p)[i - m]
    BY <1>1, <1>2, <2>1
  <2> QED BY <1>1, <2>1, <2>2
<1>6. \A i \in m + 1 .. m + k : wire'[i].of = p /\ wire'[i].at = i - m - 1
  <2> SUFFICES ASSUME NEW i \in m + 1 .. m + k
               PROVE  wire'[i].of = p /\ wire'[i].at = i - m - 1
    OBVIOUS
  <2>1. wire'[i] = Unit(p, i - m - 1)
    BY <1>5
  <2> QED BY <2>1 DEF Unit
<1>7. \A i \in 1 .. m : Left(i)' = Left(i) /\ Left(i) \in Int /\ Left(i) > 0
  <2>1. \A i \in 1 .. m : Left(i) \in Int /\ Left(i) > 0
    BY UnitType DEF WireInv
  <2> QED BY <1>4, <2>1 DEF Left
<1>8. \A i \in m + 1 .. m + k : i + Left(i)' = m + k + 1 /\ Left(i)' \in Int /\ Left(i)' > 0
  <2> SUFFICES ASSUME NEW i \in m + 1 .. m + k
               PROVE  i + Left(i)' = m + k + 1 /\ Left(i)' \in Int /\ Left(i)' > 0
    OBVIOUS
  <2>1. wire'[i].of = p /\ wire'[i].at = i - m - 1
    BY <1>6
  <2>2. Left(i)' = HEADER + p.size - (i - m - 1)
    BY <2>1 DEF Left
  <2>3. /\ i \in Int /\ i <= m + k /\ m \in Nat /\ k \in Nat
        /\ k = HEADER + p.size /\ HEADER \in Nat /\ p.size \in Nat
    BY <1>1, <1>2, MirrorAssumption
  <2> DEFINE l == Left(i)'
           size == p.size
  <2>4. /\ l = HEADER + size - (i - m - 1)
        /\ size \in Nat /\ HEADER \in Nat /\ k = HEADER + size
    BY <2>2, <2>3
  <2> HIDE DEF m, k, l, size
  <2>5. l = k - (i - m - 1)
    BY <2>3, <2>4
  <2>6. i \in Int /\ i <= m + k /\ m \in Nat /\ k \in Nat
    BY <2>3
  <2>7. l \in Int /\ i + l = m + k + 1 /\ l > 0
    BY <2>5, <2>6
  <2> QED BY <2>7 DEF l
<1>9. \A i \in 1 .. m + k : i \in 1 .. m \/ i \in m + 1 .. m + k
  BY <1>1, <1>2
<1>10. ASSUME NEW i \in 1 .. m + k, NEW j \in 1 .. m + k
      PROVE  /\ i <= j /\ j < i + Left(i)' =>
                  wire'[j] = Unit(wire'[i].of, wire'[i].at + (j - i))
             /\ j = i + Left(i)' => wire'[j].at = 0 /\ wire'[j].of.id = Following(wire'[i].of.id)
  <2>1. i \in Int /\ j \in Int /\ j <= m + k /\ m \in Nat /\ k \in Nat \ {0}
    BY <1>1, <1>2
  <2>2. CASE i \in m + 1 .. m + k
    <3>1. wire'[i].of = p /\ wire'[i].at = i - m - 1 /\ j # i + Left(i)'
      <4>1. i + Left(i)' = m + k + 1
        BY <1>8, <2>2
      <4>2. j # m + k + 1
        BY <2>1
      <4> QED BY <1>6, <2>2, <4>1, <4>2
    <3>2. ASSUME i <= j
          PROVE  wire'[j] = Unit(wire'[i].of, wire'[i].at + (j - i))
      <4>1. j \in m + 1 .. m + k
        BY <2>1, <2>2, <3>2
      <4>2. (i - m - 1) + (j - i) = j - m - 1
        BY <2>1
      <4> QED BY <1>5, <3>1, <4>1, <4>2
    <3> QED BY <3>1, <3>2
  <2>3. CASE i \in 1 .. m
    <3> DEFINE l == Left(i)
    <3>1. /\ Left(i)' = l /\ wire'[i] = wire[i] /\ l \in Int
          /\ i + l <= m + 1
          /\ i + l = m + 1 => client.id = Following(wire[i].of.id)
      BY <1>4, <1>7, <2>3 DEF WireInv
    <3>2. CASE j \in 1 .. m
      <4>1. wire'[j] = wire[j]
        BY <1>4, <3>2
      <4>2. /\ i <= j /\ j < i + l => wire[j] = Unit(wire[i].of, wire[i].at + (j - i))
            /\ j = i + l => wire[j].at = 0 /\ wire[j].of.id = Following(wire[i].of.id)
        BY <2>3, <3>2 DEF WireInv
      <4> HIDE DEF l
      <4> QED BY <3>1, <4>1, <4>2
    <3>3. CASE j \in m + 1 .. m + k
      <4>1. l \in Int /\ i + l <= m + 1
        BY <3>1
      <4> HIDE DEF l
      <4>2. ~(j < i + l)
        BY <2>1, <3>3, <4>1
      <4>3. ASSUME j = i + l
            PROVE  wire'[j].at = 0 /\ wire'[j].of.id = Following(wire[i].of.id)
        <5>1. j = m + 1
          BY <2>1, <3>3, <4>1, <4>3
        <5>2. wire'[j] = Unit(p, 0)
          <6>1. j - m - 1 = 0
            BY <2>1, <5>1
          <6> QED BY <1>5, <3>3, <6>1
        <5>3. p.id = Following(wire[i].of.id)
          BY <3>1, <4>3, <5>1
        <5> QED BY <5>2, <5>3 DEF Unit
      <4> QED BY <3>1, <4>2, <4>3
    <3> QED BY <1>9, <3>2, <3>3
  <2> QED BY <1>9, <2>2, <2>3
<1>11. ASSUME NEW i \in 1 .. m + k
       PROVE  /\ i + Left(i)' <= m + k + 1
              /\ i + Left(i)' = m + k + 1 => client'.id = Following(wire'[i].of.id)
  <2>1. CASE i \in m + 1 .. m + k
    <3>1. i + Left(i)' = m + k + 1 /\ wire'[i].of = p
      BY <1>6, <1>8, <2>1
    <3>2. m + k + 1 \in Int
      BY <1>1, <1>2
    <3> QED BY <3>1, <3>2
  <2>2. CASE i \in 1 .. m
    <3> DEFINE l == Left(i)
    <3>1. Left(i)' = l /\ l \in Int /\ i + l <= m + 1
      BY <1>7, <2>2 DEF WireInv
    <3>2. i \in Int /\ m \in Nat /\ k \in Nat \ {0} /\ l \in Int /\ i + l <= m + 1
      BY <1>1, <1>2, <3>1
    <3> HIDE DEF l, m, k
    <3>3. i + l <= m + k + 1 /\ i + l # m + k + 1
      BY <3>2
    <3> QED BY <3>1, <3>3
  <2> QED BY <1>9, <2>1, <2>2
<1>12. /\ wire # <<>> => wire'[1] = wire[1]
       /\ wire = <<>> => wire'[1] = Unit(p, 0)
       /\ wire' # <<>>
  <2>1. ASSUME wire # <<>> PROVE wire'[1] = wire[1]
    <3>1. 1 \in 1 .. m
      BY <1>2, <2>1
    <3> QED BY <1>4, <3>1
  <2>2. ASSUME wire = <<>> PROVE wire'[1] = Unit(p, 0)
    <3>1. m = 0
      BY <2>2
    <3> HIDE DEF m, k
    <3>2. 1 \in m + 1 .. m + k /\ 1 - m - 1 = 0
      BY <1>1, <3>1
    <3> QED BY <1>5, <3>2
  <2>3. wire' # <<>>
    <3>1. Len(wire') # 0
      BY <1>1, <1>2, <1>3
    <3> QED BY <3>1
  <2> QED BY <2>1, <2>2, <2>3
<1>13. \A i \in 1 .. m + k : Left(i)' > 0
  BY <1>7, <1>8, <1>9
<1>14. conn' # "none"
  OBVIOUS
<1> HIDE DEF m, k, new
<1> QED BY <1>3, <1>10, <1>11, <1>12, <1>13, <1>14, SMTT(40) DEF WireInv

\* The client sends packets one behind the other, and connects anew with the
\* packet that is due then.
LEMMA ClientWhole ==
  ASSUME Whole, ThreadOwnsTheStream, Client
  PROVE  Whole'
<1>1. /\ UNCHANGED <<thread, stream_fd, packet, payload, allocated, readstart>>
      /\ Held' = Held /\ Current' = Current /\ Serving' = Serving
  <2>1. UNCHANGED clientless
    BY ZenonT(60) DEF Client, Connect, Send, End
  <2> QED BY <2>1, SMTT(40) DEF clientless, buffers, Held, Current, Serving
<1>2. ASSUME due' = due
      PROVE  HeldInv'
  BY <1>1, <1>2 DEF Whole, HeldInv
<1>3. CASE Connect
  <2>1. /\ conn = "none" /\ conn' = "open" /\ wire' = <<>>
        /\ client' = [client EXCEPT !.clock = @ + 1, !.sets = NoSets] /\ due' = client.id
    BY <1>3 DEF Connect
  <2>2. ~stream_fd
    BY <2>1 DEF ThreadOwnsTheStream
  <2>3. client \in Clients
    BY DEF Whole, WireInv
  <2>4. client' \in Clients /\ client'.id = client.id /\ client.id \in 0 .. IDS - 1
    <3>1. client.clock + 1 \in Int /\ NoSets \in Int
      BY <2>3 DEF Clients, NoSets, IDS
    <3>2. client' \in Clients
      BY <2>1, <2>3, <3>1 DEF Clients
    <3> QED BY <2>1, <2>3, <3>2 DEF Clients
  <2>5. WireInv'
    BY <2>1, <2>4 DEF WireInv
  <2>6. HeldInv'
    BY <1>1, <2>1, <2>2, <2>4 DEF Whole, HeldInv, Serving
  <2>7. GoesOn'
    BY <1>1, <2>1, <2>2, <2>4 DEF GoesOn, Begins, Serving
  <2> QED BY <2>5, <2>6, <2>7 DEF Whole
<1>4. ASSUME NEW how \in {"closed", "reset", "timedout"}, NEW n \in 0 .. Len(wire), End(how, n)
      PROVE  Whole'
  <2>1. /\ conn' = how /\ conn' \notin {"open", "none"}
        /\ wire' = SubSeq(wire, 1, n) /\ UNCHANGED <<client, due>>
    BY <1>4 DEF End
  <2>2. /\ wire \in Seq(AllUnits) /\ wire' \in Seq(AllUnits) /\ Len(wire) \in Nat
        /\ Len(wire') = n /\ \A i \in 1 .. n : i \in 1 .. Len(wire) /\ wire'[i] = wire[i]
    <3>1. wire \in Seq(AllUnits)
      BY DEF Whole, WireInv
    <3> QED BY <2>1, <3>1
  <2>3. \A i \in 1 .. n : Left(i)' = Left(i)
    BY <2>2 DEF Left
  <2>4. WireInv'
    BY <2>1, <2>2, <2>3, SMTT(40) DEF Whole, WireInv
  <2>5. wire' # <<>> => wire # <<>> /\ wire'[1] = wire[1]
    <3> SUFFICES ASSUME wire' # <<>> PROVE wire # <<>> /\ wire'[1] = wire[1]
      OBVIOUS
    <3>1. 1 \in 1 .. n
      BY <2>2
    <3>2. 1 \in 1 .. Len(wire)
      BY <2>2, <3>1
    <3>3. Len(wire) # 0
      BY <3>2
    <3> QED BY <2>2, <3>1, <3>3
  <2>6. HeldInv'
    BY <1>2, <2>1
  <2>7. GoesOn'
    BY <1>1, <2>1, <2>5 DEF Whole, GoesOn, Begins, Unit
  <2> QED BY <2>4, <2>6, <2>7 DEF Whole
<1>5. ASSUME NEW type \in Types, NEW size \in Sizes(type), NEW time \in Times(type),
             Send(NextPacket(type, size, time))
      PROVE  Whole'
  <2> DEFINE p == NextPacket(type, size, time)
  <2>1. client \in Clients /\ size \in Nat /\ time \in Int
    <3>1. time \in Int
      BY DEF Times, NoTime
    <3> QED BY <3>1, MirrorAssumption DEF Whole, WireInv, Sizes
  <2>2. p \in Packets /\ p.id = client.id /\ p.size \in Nat /\ p.time \in Int
    BY <2>1 DEF NextPacket, Packets, Clients, NoSets, IDS, Types
  <2> HIDE DEF p
  <2>3. /\ conn = "open" /\ conn' = conn /\ wire' = wire \o Units(p) /\ due' = due
        /\ client' = [client EXCEPT
             !.id = (@ + 1) % IDS,
             !.clock = IF p.type = "other" THEN @ ELSE p.time,
             !.sent = IF Frame(p) THEN (@ + p.size) % KEYSTREAM ELSE @,
             !.sets = IF Frame(p) THEN NoSets
                      ELSE IF p.type = "sets" /\ p.size > 0 THEN p.id ELSE @,
             !.sets_time = IF p.type = "sets" /\ p.size > 0 THEN p.time ELSE @]
    BY <1>5 DEF Send, history, p
  <2>4. client' \in Clients /\ client'.id = Following(client.id)
    <3>1. client.id \in 0 .. IDS - 1 /\ client.sent \in Int /\ client.clock \in Int
          /\ client.sets \in Int /\ client.sets_time \in Int
      BY <2>1 DEF Clients
    <3>2. KEYSTREAM \in Nat \ {0}
      BY MirrorAssumption DEF KEYSTREAM
    <3>3. (client.sent + p.size) % KEYSTREAM \in Int
      BY <2>2, <3>1, <3>2
    <3>4. (client.id + 1) % IDS \in 0 .. IDS - 1
      BY <3>1, FollowingType DEF Following
    <3>5. p.id \in Int /\ NoSets \in Int
      BY <2>2, <3>1 DEF NoSets, IDS
    <3> QED BY <2>1, <2>2, <2>3, <3>1, <3>3, <3>4, <3>5, ZenonT(60) DEF Clients, Following
  <2>5. /\ WireInv' /\ wire' # <<>>
        /\ wire # <<>> => wire'[1] = wire[1]
        /\ wire = <<>> => wire'[1] = Unit(p, 0)
    BY <2>2, <2>3, <2>4, SendWire DEF Whole
  <2>6. HeldInv'
    BY <1>2, <2>3
  <2>7. GoesOn'
    <3>1. ASSUME NEW id, Begins(id) PROVE wire'[1].at = 0 /\ wire'[1].of.id = id
      <4>1. CASE wire # <<>>
        BY <2>5, <3>1, <4>1 DEF Begins
      <4>2. CASE wire = <<>>
        <5>1. client.id = id /\ wire'[1] = Unit(p, 0)
          BY <2>3, <2>5, <3>1, <4>2 DEF Begins
        <5> QED BY <2>2, <5>1 DEF Unit
      <4> QED BY <4>1, <4>2
    <3>2. ~stream_fd \/ (Serving /\ Held = 0) => wire'[1].at = 0 /\ wire'[1].of.id = due
      BY <3>1 DEF Whole, GoesOn
    <3>3. Serving /\ Held > 0 /\ thread = "dispatch" =>
            wire'[1].at = 0 /\ wire'[1].of.id = Following(due)
      BY <3>1 DEF Whole, GoesOn
    <3>4. Serving /\ Held > 0 /\ thread # "dispatch" =>
            wire # <<>> /\ wire[1] = Unit(Current, Held)
      BY <2>3 DEF Whole, GoesOn
    <3> QED BY <1>1, <2>3, <2>5, <3>2, <3>3, <3>4 DEF GoesOn, Begins, Following, Unit
  <2> QED BY <2>5, <2>6, <2>7 DEF Whole
<1> QED BY <1>3, <1>4, <1>5 DEF Client

\* A packet to be dispatched is one the client sent, whole, and the one due.
LEMMA WholePackets ==
  ASSUME Whole
  PROVE  PacketsAreWhole
<1> SUFFICES ASSUME thread = "dispatch" PROVE PacketsAreWhole
  BY DEF PacketsAreWhole
<1>1. /\ Serving /\ allocated /\ readstart = Current.size /\ readstart \in Nat
      /\ packet = [i \in 0 .. HEADER - 1 |-> Unit(Current, i)]
      /\ payload \in [0 .. Current.size - 1 -> AllUnits]
      /\ \A i \in 0 .. readstart - 1 : payload[i] = Unit(Current, HEADER + i)
  BY DEF Whole, HeldInv, Serving, Working
<1>2. Current.id = due
  <2>1. Held > 0
    BY <1>1, MirrorAssumption, SMTT(40) DEF Held
  <2> QED BY <1>1, <2>1 DEF Whole, HeldInv
<1>3. payload = [i \in 0 .. Current.size - 1 |-> Unit(Current, HEADER + i)]
  BY <1>1
<1> QED BY <1>1, <1>2, <1>3 DEF PacketsAreWhole

\* The framing holds always.
LEMMA FramingAlways == Spec => [](Whole /\ ThreadOwnsTheStream)
<1>1. Init => Whole /\ ThreadOwnsTheStream
  <2> SUFFICES ASSUME Init PROVE Whole /\ ThreadOwnsTheStream
    OBVIOUS
  <2>1. WireInv
    BY DEF Init, WireInv, Clients, NoTime, NoSets, IDS
  <2>2. NoUnit \in AllUnits
    BY DEF NoUnit, Unit, AllUnits, NoPacket, Packets, NoTime, NoSets, IDS
  <2>3. HeldInv
    <3>1. /\ packet = NoHeader /\ readstart = 0 /\ due = 0 /\ allocated = FALSE
          /\ thread = "none" /\ stream_fd = FALSE
      BY DEF Init
    <3>2. NoHeader \in [0 .. HEADER - 1 -> AllUnits] /\ 0 \in 0 .. IDS - 1
      BY <2>2 DEF NoHeader, IDS
    <3> QED BY <3>1, <3>2 DEF HeldInv, Serving, Places, Working
  <2>4. GoesOn
    BY DEF Init, GoesOn, Begins, Serving
  <2> QED BY <2>1, <2>3, <2>4 DEF Whole, Init, ThreadOwnsTheStream, Alive, Working
<1>2. Whole /\ ThreadOwnsTheStream /\ [Next]_vars => Whole' /\ ThreadOwnsTheStream'
  <2> SUFFICES ASSUME Whole, ThreadOwnsTheStream, [Next]_vars
               PROVE  Whole' /\ ThreadOwnsTheStream'
    OBVIOUS
  <2>1. CASE UNCHANGED vars
    <3>1. UNCHANGED <<thread, stream_fd, packet, payload, allocated, readstart, wire, conn,
                      client, due, running, joined, data_sock, rtsp>>
      BY <2>1 DEF vars, flags, buffers, network, history
    <3>2. Held' = Held /\ Current' = Current /\ Serving' = Serving
      BY <3>1 DEF Held, Current, Serving
    <3>3. WireInv' /\ HeldInv' /\ GoesOn'
      BY <3>1, <3>2 DEF Whole, WireInv, Left, HeldInv, GoesOn, Begins
    <3> QED BY <3>1, <3>3 DEF Whole, ThreadOwnsTheStream, Alive, Working
  <2> QED BY <2>1, ThreadOwns, RtspOwns, ClientOwns, ThreadWhole, RtspWhole, ClientWhole DEF Next
<1> QED BY <1>1, <1>2, PTL DEF Spec

\* Whatever pieces recv returns, what the thread takes for a packet is one packet
\* the client sent, whole, and the packets of a connection are taken in turn: for
\* any sizes of headers and packets, any number of streams and connections, and
\* as much under way as one likes (raop_rtp_mirror_thread).
THEOREM PacketsWholeAlways == Spec => []PacketsAreWhole
  BY FramingAlways, WholePackets, PTL

-----------------------------------------------------------------------------
(* Where the client was.                                                   *)

\* What the client remembers of the stream, at the packet p and behind it.
Before(p) == <<p.start, p.sets, p.sets_time>>

Now == <<client.sent, client.sets, client.sets_time>>

KeyBehind(p) == IF Frame(p) THEN (p.start + p.size) % KEYSTREAM ELSE p.start

\* Parameter sets without payload are none.
Full(p) == p.type = "sets" /\ p.size > 0

Behind(p) ==
  <<KeyBehind(p),
    IF Frame(p) THEN NoSets ELSE IF Full(p) THEN p.id ELSE p.sets,
    IF Full(p) THEN p.time ELSE p.sets_time>>

\* The last unit under way; the last unit of a packet.
Newest == wire[Len(wire)]

Ends(u) == u.at = HEADER + u.of.size - 1

Dispatching == thread = "dispatch"

\* Each packet goes on where the one before ended.
StreamInv ==
  thread \in Working =>
    /\ \A i \in 1 .. Len(wire) - 1 :
         wire[i + 1].at = 0 => Before(wire[i + 1].of) = Behind(wire[i].of)
    /\ conn = "open" /\ wire # <<>> => Now = Behind(Newest.of)
    /\ Dispatching /\ wire # <<>> => Before(wire[1].of) = Behind(Current)
    /\ Dispatching /\ wire = <<>> /\ conn = "open" => Now = Behind(Current)

\* Where in the key stream mirror_buffer_decrypt is.
Place == (KEYSTREAM + block * BLOCK - nextDecryptCount) % KEYSTREAM

NoFrames(i) == \A j \in i .. Len(wire) : ~Frame(wire[j].of)

\* The thread may still get a frame, and all the client encrypted since SETUP.
Comparable ==
  thread \in Working /\ (stream_fd \/ data_sock) /\ carried = 0 /\ ~gap

\* Then it is where the client was.
KeyInv ==
  Comparable =>
    /\ wire # <<>> => client.sent = KeyBehind(Newest.of)
    /\ wire # <<>> /\ Frame(Newest.of) => Ends(Newest)
    /\ \A i \in 1 .. Len(wire) : NoFrames(i) => wire[i].of.start = client.sent
    /\ Dispatching => Current.start = Place
    /\ Dispatching /\ wire = <<>> => client.sent = KeyBehind(Current)
    /\ ~Dispatching /\ wire # <<>> => wire[1].of.start = Place
    /\ ~Dispatching /\ wire = <<>> => client.sent = Place

CipherInv ==
  /\ block \in {0, 1} /\ nextDecryptCount \in 0 .. BLOCK - 1

\* Only raop_rtp_mirror_stop clears the flag while the thread works; where there is
\* no socket there is no client.
FlagsInv ==
  /\ thread \in Working => running \/ rtsp # "idle"
  /\ rtsp = "join" \/ joined => ~data_sock
  /\ ~data_sock /\ ~stream_fd => conn = "none"

Timed(p) == p.type # "other"

\* All that is to come of what was sent is of that time at the latest, or later.
Until(clock) ==
  /\ \A i \in 1 .. Len(wire) : Timed(wire[i].of) => wire[i].of.time <= clock
  /\ Dispatching /\ Timed(Current) => Current.time <= clock

After(time) ==
  /\ \A i \in 1 .. Len(wire) : Timed(wire[i].of) => time < wire[i].of.time
  /\ Dispatching /\ Timed(Current) => time < Current.time

ClockInv ==
  /\ client.clock \in Nat
  /\ thread \in Working =>
       /\ ntp_timestamp_nal \in Int /\ ntp_timestamp_nal <= client.clock
       /\ Until(client.clock)

\* The sets that wait are older than all that is to come.
Stale == ntp_timestamp_nal < client.clock /\ After(ntp_timestamp_nal)

\* The thread holds the sets the client meant, or some that no frame will get.
Agree(held, time) ==
  \/ sps_pps = held /\ (held # NoSets => ntp_timestamp_nal = time)
  \/ held = NoSets /\ Stale

SetsInv ==
  thread \in Working /\ ~h265_video_detected =>
    /\ prepend_sps_pps <=> sps_pps # NoSets
    /\ Dispatching => Agree(Current.sets, Current.sets_time)
    /\ ~Dispatching /\ wire # <<>> => Agree(wire[1].of.sets, wire[1].of.sets_time)
    /\ ~Dispatching /\ wire = <<>> /\ conn = "open" => Agree(client.sets, client.sets_time)

\* KeyStreamInStep and SetsReachTheirFrame made inductive.
Carried == StreamInv /\ CipherInv /\ FlagsInv /\ ClockInv /\ KeyInv /\ SetsInv

clientside == <<conn, client, carried, gap>>

\* The thread stays where it is in its packet.
Still ==
  /\ UNCHANGED <<wire, clientside, sets, cipher>>
  /\ thread \in Working /\ Dispatching' = Dispatching /\ Current' = Current
  /\ stream_fd' \/ data_sock' => stream_fd \/ data_sock

\* A connection is given up between packets; a thread that goes on to serve others
\* has read all there was.
GivenUp ==
  /\ wire' = <<>> /\ conn' = "none" /\ UNCHANGED <<client, carried, gap, sets, cipher>>
  /\ thread \in Working /\ ~Dispatching /\ ~Dispatching'
  /\ stream_fd' \/ data_sock' => wire = <<>> /\ (stream_fd \/ data_sock)

\* The thread takes n units of the packet it is in.
Took(n) ==
  /\ UNCHANGED <<clientside, sets, cipher, stream_fd, data_sock>>
  /\ thread \in Working /\ ~Dispatching
  /\ wire' = SubSeq(wire, n + 1, Len(wire))
  /\ wire[1].of = Current' /\ wire[n].of = Current'
  /\ Dispatching' /\ wire' # <<>> => wire'[1].at = 0
  /\ ~Dispatching' => /\ ~Ends(wire[n])
                      /\ wire' # <<>> => wire'[1].of = Current'
                      /\ wire' = <<>> => conn # "open"

\* The packet is dispatched.
Finished ==
  /\ DispatchOther \/ DispatchSets \/ FrameDropped \/ FrameShown
  /\ UNCHANGED <<wire, clientside, stream_fd, data_sock>>
  /\ thread \in Working /\ Dispatching /\ ~Dispatching'

\* A stream is set up, and there is no connection of the one before.
Started == SetUp /\ start /\ conn = "none" /\ wire = <<>>

-----------------------------------------------------------------------------
(* The steps of the thread that keep it working are of these kinds.        *)

\* The packet a piece is of is the packet the thread holds afterwards.
LEMMA PieceInHand ==
  ASSUME Whole, NEW n \in 1 .. Len(wire),
         \/ RecvHeaderPart(n)
         \/ RecvHeaderRest /\ n = HEADER - readstart
         \/ RecvPayload(n)
  PROVE  wire[1].of = Current' /\ Current' = InHand
<1>1. /\ HEADER \in Nat \ {0} /\ readstart \in Nat /\ wire # <<>>
      /\ packet \in [0 .. HEADER - 1 -> AllUnits]
  <2>1. wire \in Seq(AllUnits)
    BY DEF Whole, WireInv
  <2> QED BY <2>1, MirrorAssumption DEF Whole, HeldInv
<1>2. CASE RecvPayload(n)
  <2>1. thread = "payload" /\ Serving /\ allocated /\ packet' = packet
    BY <1>2 DEF RecvPayload, GoTo, Whole, HeldInv, Serving, Working
  <2>2. Held > 0 /\ Held # 0
    BY <1>1, <2>1 DEF Held
  <2>3. wire[1] = Unit(Current, Held)
    BY <1>1, <2>1, <2>2 DEF Whole, GoesOn
  <2> QED BY <2>1, <2>2, <2>3 DEF Current, InHand, Unit
<1>3. CASE RecvHeaderPart(n) \/ (RecvHeaderRest /\ n = HEADER - readstart)
  <2>1. thread = "header" /\ Serving /\ ~allocated /\ packet' = Fill(packet, n)
    BY <1>3 DEF RecvHeaderPart, RecvHeaderRest, Whole, HeldInv, Serving, Working
  <2>2. Held = readstart
    BY <2>1 DEF Held
  <2>3. CASE readstart = 0
    <3>1. 0 \in 0 .. HEADER - 1 /\ 0 \in readstart .. readstart + n - 1
      BY <1>1, <2>3
    <3>2. packet'[0] = wire[0 - readstart + 1] /\ 0 - readstart + 1 = 1
      BY <1>1, <2>1, <2>3, <3>1 DEF Fill
    <3> QED BY <2>2, <2>3, <3>2 DEF Current, InHand
  <2>4. CASE readstart # 0
    <3>1. 0 \in 0 .. HEADER - 1 /\ 0 \notin readstart .. readstart + n - 1 /\ Held > 0
      BY <1>1, <2>2, <2>4
    <3>2. packet'[0] = packet[0]
      BY <1>1, <2>1, <3>1 DEF Fill
    <3>3. wire[1] = Unit(Current, Held)
      BY <1>1, <2>1, <3>1 DEF Whole, GoesOn
    <3> QED BY <2>2, <2>4, <3>2, <3>3 DEF Current, InHand, Unit
  <2> QED BY <2>3, <2>4
<1> QED BY <1>2, <1>3

\* Taking a piece, seen from the wire.
LEMMA PieceTaken ==
  ASSUME Whole, Whole', NEW n \in 1 .. Len(wire),
         \/ RecvHeaderPart(n)
         \/ RecvHeaderRest /\ n = HEADER - readstart
         \/ RecvPayload(n)
  PROVE  Took(n)
<1>1. wire[1].of = Current' /\ Current' = InHand
  BY PieceInHand
<1>2. /\ UNCHANGED <<clientside, sets, cipher, stream_fd, data_sock>>
      /\ wire' = SubSeq(wire, n + 1, Len(wire))
      /\ thread \in {"header", "payload"} /\ thread' \in {"header", "payload", "dispatch"}
  BY DEF RecvHeaderPart, RecvHeaderRest, RecvPayload, Receive, GoTo, flags, history, clientside
<1>3. Serving /\ thread # "dispatch" /\ Serving' /\ ~Dispatching
  BY <1>2 DEF Whole, HeldInv, Serving, Working, Dispatching
<1>4. HEADER \in Nat \ {0} /\ readstart \in Nat /\ wire # <<>> /\ n \in Nat \ {0}
  <2>1. wire \in Seq(AllUnits)
    BY DEF Whole, WireInv
  <2> QED BY <2>1, MirrorAssumption DEF Whole, HeldInv
<1>5. Held' = Held + n /\ Held \in Nat /\ Held' \in Nat
  <2>1. CASE RecvHeaderPart(n)
    BY <1>3, <1>4, <2>1 DEF Held, RecvHeaderPart, Whole, HeldInv
  <2>2. CASE RecvHeaderRest /\ n = HEADER - readstart
    BY <1>3, <1>4, <2>2 DEF Held, RecvHeaderRest, Whole, HeldInv
  <2>3. CASE RecvPayload(n)
    BY <1>3, <1>4, <2>3 DEF Held, RecvPayload, GoTo, Whole, HeldInv
  <2> QED BY <2>1, <2>2, <2>3
<1>6. /\ InHand \in Packets /\ InHand.size \in Nat
      /\ Held + n - 1 < HEADER + InHand.size => wire[n] = Unit(InHand, Held + n - 1)
  BY <1>3, <1>4, Ahead
<1>7. Held' <= HEADER + InHand.size
  <2>1. CASE allocated'
    <3>1. Held' = HEADER + readstart' /\ readstart' \in Nat
      BY <2>1 DEF Held, Whole, HeldInv
    <3>2. readstart' <= Current'.size
      BY <1>1, <1>3, <1>6, <2>1, <3>1 DEF Whole, HeldInv
    <3> QED BY <1>1, <1>4, <1>6, <3>1, <3>2
  <2>2. CASE ~allocated'
    <3>1. Held' = readstart' /\ readstart' \in Nat /\ readstart' < HEADER
      BY <1>3, <2>2 DEF Held, Whole, HeldInv
    <3> QED BY <1>4, <1>6, <3>1
  <2> QED BY <2>1, <2>2
<1>8. wire[n] = Unit(InHand, Held + n - 1)
  <2>1. Held + n - 1 < HEADER + InHand.size
    BY <1>4, <1>5, <1>6, <1>7
  <2> QED BY <1>6, <2>1
<1>9. wire[n].of = Current' /\ wire[n].of = InHand /\ wire[n].at = Held + n - 1
  BY <1>1, <1>8 DEF Unit
<1>10. Held' > 0
  BY <1>4, <1>5
<1>11. ASSUME Dispatching', wire' # <<>>
       PROVE  wire'[1].at = 0
  BY <1>3, <1>10, <1>11 DEF Dispatching, Whole, GoesOn, Begins
<1>12. ASSUME ~Dispatching'
       PROVE  /\ ~Ends(wire[n])
              /\ wire' # <<>> => wire'[1].of = Current'
              /\ wire' = <<>> => conn # "open"
  <2>1. /\ wire' # <<>> => wire'[1] = Unit(Current', Held')
        /\ wire' = <<>> => conn' # "open"
    BY <1>3, <1>10, <1>12 DEF Dispatching, Whole, GoesOn, Unit
  <2>2. Held' < HEADER + InHand.size
    <3>1. CASE allocated'
      <4>1. Held' = HEADER + readstart' /\ readstart' \in Nat
        BY <3>1 DEF Held, Whole, HeldInv
      <4>2. readstart' < Current'.size
        BY <1>3, <1>12, <3>1 DEF Dispatching, Whole, HeldInv
      <4> QED BY <1>1, <1>4, <1>6, <4>1, <4>2
    <3>2. CASE ~allocated'
      <4>1. Held' = readstart' /\ readstart' \in Nat /\ readstart' < HEADER
        BY <1>3, <3>2 DEF Held, Whole, HeldInv
      <4> QED BY <1>4, <1>6, <4>1
    <3> QED BY <3>1, <3>2
  <2>3. ~Ends(wire[n])
    BY <1>4, <1>5, <1>6, <1>9, <2>2 DEF Ends
  <2> QED BY <1>2, <2>1, <2>3 DEF Unit, clientside
<1> QED BY <1>1, <1>2, <1>3, <1>9, <1>11, <1>12 DEF Took, Serving

\* Every step that leaves the thread working is of one of the kinds.
LEMMA Kinds ==
  ASSUME Whole, Whole', ThreadOwnsTheStream, FlagsInv, [Next]_vars, thread' \in Working
  PROVE  \/ Still \/ GivenUp \/ Finished \/ Started
         \/ \E n \in 1 .. Len(wire) : Took(n)
         \/ Client
<1> USE DEF Dispatching
<1>1. CASE UNCHANGED vars
  BY <1>1 DEF vars, flags, network, history, buffers, Still, Current, clientside, Working
<1>2. CASE Client
  BY <1>2
<1>3. CASE Check \/ SelectNothing \/ SelectClosed \/ Readable \/ RecvTimeout
  BY <1>3 DEF Check, SelectNothing, SelectClosed, Readable, RecvTimeout, GoTo, network,
              history, flags, buffers, clientside, Still, Current, Working
<1>4. CASE Accept
  BY <1>4 DEF Accept, GoTo, network, history, flags, clientside, Still, Current, Working
<1>5. CASE Receiving
  <2>1. ASSUME NEW n \in 1 .. HEADER, RecvHeaderPart(n)
        PROVE  n \in 1 .. Len(wire) /\ Took(n)
    <3>1. n \in 1 .. Len(wire)
      <4>1. wire \in Seq(AllUnits) /\ n <= Len(wire) /\ HEADER \in Nat
        BY <2>1, MirrorAssumption DEF Whole, WireInv, RecvHeaderPart, Receive
      <4> QED BY <4>1
    <3> QED BY <2>1, <3>1, PieceTaken
  <2>2. ASSUME NEW n \in 1 .. Len(wire), RecvPayload(n)
        PROVE  Took(n)
    BY <2>2, PieceTaken
  <2>3. ASSUME RecvHeaderRest
        PROVE  \E n \in 1 .. Len(wire) : Took(n)
    <3> DEFINE n == HEADER - readstart
    <3>1. n \in 1 .. Len(wire)
      <4>1. wire \in Seq(AllUnits) /\ n <= Len(wire) /\ HEADER \in Nat /\ readstart \in Nat
        BY <2>3, MirrorAssumption DEF Whole, WireInv, HeldInv, RecvHeaderRest, Receive
      <4>2. readstart < HEADER
        BY <2>3 DEF RecvHeaderRest, Whole, HeldInv, Serving, Working
      <4> QED BY <4>1, <4>2
    <3>2. Took(n)
      BY <2>3, <3>1, PieceTaken
    <3> QED BY <3>1, <3>2
  <2>4. ASSUME RecvClosedInHeader
        PROVE  GivenUp
    <3>1. thread = "header" /\ stream_fd /\ wire = <<>>
      BY <2>4 DEF RecvClosedInHeader, GoTo, Ended, Whole, HeldInv
    <3> QED BY <2>4, <3>1
          DEF RecvClosedInHeader, GoTo, Disconnected, flags, history, GivenUp, Working
  <2>5. ~RecvClosedInPayload /\ ~RecvFails
    BY DEF RecvClosedInPayload, RecvFails, GoTo, Working
  <2> QED BY <1>5, <2>1, <2>2, <2>3, <2>4, <2>5 DEF Receiving
<1>6. CASE Dispatch
  <2>1. ~FrameAborts
    BY DEF FrameAborts, GoTo, Working
  <2>2. EndOfPacket
    BY <1>6, <2>1 DEF Dispatch, DispatchOther, DispatchSets, FrameDropped, FrameShown
  <2>3. /\ UNCHANGED <<wire, clientside, stream_fd, data_sock>>
        /\ thread = "dispatch" /\ thread' = "check"
    BY <2>2 DEF EndOfPacket, GoTo, flags, network, clientside
  <2> QED BY <1>6, <2>1, <2>3 DEF Dispatch, Finished, Working
<1>7. ~Leave /\ ~ReportReset
  BY DEF Leave, ReportReset, GoTo, Working
<1>8. CASE SetUp
  <2>1. CASE joined /\ start
    <3>1. thread \notin Working /\ thread \notin {"leaving", "conn_reset", "aborted"}
      BY <1>8, <2>1 DEF SetUp, Idle, ThreadOwnsTheStream, Alive
    <3>2. ~stream_fd
      BY <3>1 DEF Whole, HeldInv, Places
    <3>3. conn = "none"
      BY <2>1, <3>2 DEF FlagsInv
    <3> QED BY <1>8, <2>1, <3>3 DEF Whole, WireInv, Started
  <2>2. ~UNCHANGED thread
    BY <1>8 DEF SetUp, Idle, FlagsInv
  <2> QED BY <1>8, <2>1, <2>2 DEF SetUp
<1>9. CASE StopBegin
  BY <1>9 DEF StopBegin, Still, network, history, clientside, buffers, Current
<1>10. CASE StopClose
  <2>1. CASE stream_fd
    BY <1>10, <2>1 DEF StopClose, Still, network, history, clientside, buffers, Current
  <2>2. CASE ~stream_fd
    <3>1. thread # "dispatch"
      BY <2>2 DEF Whole, HeldInv
    <3> QED BY <1>10, <2>2, <3>1 DEF StopClose, Disconnected, GivenUp, history, clientside
  <2> QED BY <2>1, <2>2
<1>11. ~StopJoin
  BY DEF StopJoin, Working
<1> QED BY <1>1, <1>2, <1>3, <1>4, <1>5, <1>6, <1>7, <1>8, <1>9, <1>10, <1>11
        DEF Next, Thread, RtspThread

-----------------------------------------------------------------------------
(* The client's steps.                                                     *)

\* What the client sent, seen from the wire.
LEMMA WireSent ==
  ASSUME WireInv, NEW p \in Packets, wire' = wire \o Units(p)
  PROVE  /\ Len(wire) \in Nat /\ Len(wire') \in Nat /\ Len(wire') > Len(wire) /\ wire' # <<>>
         /\ \A i \in 1 .. Len(wire) : wire'[i] = wire[i]
         /\ \A i \in Len(wire) + 1 .. Len(wire') :
              wire'[i].of = p /\ wire'[i].at = i - Len(wire) - 1
<1> DEFINE m == Len(wire)
           k == HEADER + p.size
<1>1. /\ Units(p) \in Seq(AllUnits) /\ Len(Units(p)) = k /\ k \in Nat \ {0} /\ p.size \in Nat
      /\ \A i \in 1 .. k : Units(p)[i] = Unit(p, i - 1)
  BY UnitsType, MirrorAssumption, SMTT(40)
<1>2. wire \in Seq(AllUnits) /\ m \in Nat
  BY DEF WireInv
<1>3. wire' \in Seq(AllUnits) /\ Len(wire') = m + k
  BY <1>1, <1>2
<1>4. \A i \in 1 .. m : wire'[i] = wire[i]
  BY <1>1, <1>2
<1>5. ASSUME NEW i \in m + 1 .. m + k PROVE wire'[i].of = p /\ wire'[i].at = i - m - 1
  <2>1. i - m \in 1 .. k /\ i \in 1 .. m + k /\ i > m
    BY <1>1, <1>2
  <2>2. wire'[i] = Units(p)[i - m]
    BY <1>1, <1>2, <2>1
  <2>3. wire'[i] = Unit(p, i - m - 1)
    BY <1>1, <2>1, <2>2
  <2> QED BY <2>3 DEF Unit
<1>6. wire' # <<>> /\ m + k > m
  <2>1. Len(wire') # 0
    BY <1>1, <1>2, <1>3
  <2> QED BY <1>1, <1>2, <2>1
<1> QED BY <1>2, <1>3, <1>4, <1>5, <1>6

\* The client's packet is what NextPacket says of it, and the client goes on behind it.
LEMMA PacketSent ==
  ASSUME Whole, NEW type \in Types, NEW size \in Sizes(type), NEW time \in Times(type),
         NEW p, p = NextPacket(type, size, time), Send(p)
  PROVE  /\ p \in Packets /\ p.size \in Nat /\ p.time \in Int /\ p.id \in 0 .. IDS - 1
         /\ conn = "open" /\ conn' = "open" /\ wire' = wire \o Units(p)
         /\ UNCHANGED <<thread, stream_fd, data_sock, sets, cipher, carried, gap>>
         /\ Current' = Current /\ Dispatching' = Dispatching
         /\ Before(p) = Now /\ Now' = Behind(p)
         /\ p.start = client.sent /\ client'.sent = KeyBehind(p)
         /\ p.sets = client.sets /\ p.sets_time = client.sets_time
         /\ client'.clock = IF Timed(p) THEN p.time ELSE client.clock
         /\ Timed(p) => p.time \in {client.clock, client.clock + 1}
<1>1. client \in Clients /\ size \in Nat /\ time \in Int
  <2>1. time \in Int
    BY DEF Times, NoTime
  <2> QED BY <2>1, MirrorAssumption DEF Whole, WireInv, Sizes
<1>2. /\ p \in Packets /\ p.id = client.id /\ p.size = size /\ p.time = time /\ p.type = type
      /\ p.start = client.sent /\ p.sets = client.sets /\ p.sets_time = client.sets_time
  BY <1>1 DEF NextPacket, Packets, Clients, NoSets, IDS, Types
<1>3. /\ conn = "open" /\ conn' = conn /\ wire' = wire \o Units(p)
      /\ client' = [client EXCEPT
           !.id = (@ + 1) % IDS,
           !.clock = IF p.type = "other" THEN @ ELSE p.time,
           !.sent = IF Frame(p) THEN (@ + p.size) % KEYSTREAM ELSE @,
           !.sets = IF Frame(p) THEN NoSets
                    ELSE IF p.type = "sets" /\ p.size > 0 THEN p.id ELSE @,
           !.sets_time = IF p.type = "sets" /\ p.size > 0 THEN p.time ELSE @]
  BY DEF Send
<1>4. /\ UNCHANGED <<thread, stream_fd, data_sock, sets, cipher, carried, gap>>
      /\ Current' = Current /\ Dispatching' = Dispatching
  BY DEF Send, history, clientless, flags, buffers, Current, Dispatching
<1>5. /\ client'.sent = KeyBehind(p)
      /\ client'.sets = IF Frame(p) THEN NoSets ELSE IF Full(p) THEN p.id ELSE p.sets
      /\ client'.sets_time = IF Full(p) THEN p.time ELSE p.sets_time
      /\ client'.clock = IF Timed(p) THEN p.time ELSE client.clock
  BY <1>1, <1>2, <1>3 DEF Clients, KeyBehind, Full, Timed
<1>6. Timed(p) => p.time \in {client.clock, client.clock + 1}
  BY <1>2 DEF Timed, Times
<1>7. p.id \in 0 .. IDS - 1
  BY <1>2 DEF Packets
<1> QED BY <1>1, <1>2, <1>3, <1>4, <1>5, <1>6, <1>7 DEF Before, Now, Behind

\* Where a connection breaks, what was under way is cut off.
LEMMA WireCut ==
  ASSUME WireInv, NEW how, NEW n \in 0 .. Len(wire), End(how, n)
  PROVE  /\ Len(wire) \in Nat /\ Len(wire') = n /\ (wire' = <<>> <=> n = 0)
         /\ \A i \in 1 .. n : i \in 1 .. Len(wire) /\ wire'[i] = wire[i]
         /\ conn = "open" /\ conn' = how
         /\ UNCHANGED <<thread, stream_fd, data_sock, sets, cipher, client, carried>>
         /\ Current' = Current /\ Dispatching' = Dispatching
<1>1. wire \in Seq(AllUnits) /\ wire' = SubSeq(wire, 1, n)
  BY DEF WireInv, End
<1>2. /\ Len(wire) \in Nat /\ Len(wire') = n /\ (wire' = <<>> <=> n = 0)
      /\ \A i \in 1 .. n : i \in 1 .. Len(wire) /\ wire'[i] = wire[i]
  BY <1>1
<1> QED BY <1>2 DEF End, clientless, flags, buffers, Current, Dispatching

\* The client connects anew.
LEMMA Connected ==
  ASSUME Whole, ThreadOwnsTheStream, FlagsInv, Connect
  PROVE  /\ wire = <<>> /\ wire' = <<>> /\ conn = "none" /\ conn' = "open" /\ ~Dispatching
         /\ UNCHANGED <<thread, stream_fd, data_sock, sets, cipher, carried, gap>>
         /\ Current' = Current /\ Dispatching' = Dispatching
         /\ client'.sent = client.sent /\ client'.sets = NoSets
         /\ client.clock \in Int /\ client'.clock = client.clock + 1
<1>1. client \in Clients /\ conn = "none" /\ wire = <<>> /\ ~stream_fd
  BY DEF Whole, WireInv, Connect, ThreadOwnsTheStream
<1>2. client' = [client EXCEPT !.clock = @ + 1, !.sets = NoSets]
  BY DEF Connect
<1>3. client'.sent = client.sent /\ client'.sets = NoSets /\ client.clock \in Int
      /\ client'.clock = client.clock + 1
  BY <1>1, <1>2 DEF Clients
<1>4. ~Dispatching
  BY <1>1 DEF Whole, HeldInv, Dispatching
<1> QED BY <1>1, <1>3, <1>4 DEF Connect, clientless, flags, buffers, Current, Dispatching

-----------------------------------------------------------------------------
(* The flags, the cipher and the clock.                                    *)

\* Where the thread works, the RTSP side has not stopped it or is about to; without
\* socket and client there is no connection.
LEMMA FlagsKept ==
  ASSUME Whole, FlagsInv, [Next]_vars
  PROVE  FlagsInv'
<1> USE DEF FlagsInv, Working
<1>1. CASE UNCHANGED vars
  BY <1>1 DEF vars, flags, network
<1>2. CASE Client
  <2>1. UNCHANGED <<running, joined, data_sock, rtsp, thread, stream_fd>>
    BY <1>2, ZenonT(60) DEF Client, Connect, Send, End, clientless, flags
  <2>2. conn' = "none" \/ conn # "none" \/ data_sock
    BY <1>2, ZenonT(60) DEF Client, Connect, Send, End
  <2> QED BY <2>1, <2>2, SMTT(40)
<1>3. CASE SetUp
  <2>1. CASE joined /\ start
    BY <1>3, <2>1 DEF SetUp, start, network, Idle
  <2>2. CASE UNCHANGED <<flags, thread, stream_fd>>
    BY <1>3, <2>2 DEF SetUp, network, flags
  <2> QED BY <1>3, <2>1, <2>2 DEF SetUp
<1>4. CASE StopBegin
  BY <1>4 DEF StopBegin, Idle, network
<1>5. CASE StopClose
  BY <1>5 DEF StopClose, Disconnected, network
<1>6. CASE StopJoin
  BY <1>6 DEF StopJoin, network
<1>7. CASE Leave
  BY <1>7 DEF Leave, GoTo, Disconnected, network
<1>8. CASE RecvClosedInHeader
  BY <1>8 DEF RecvClosedInHeader, GoTo, Disconnected, flags
<1>9. CASE Accept
  BY <1>9 DEF Accept, GoTo, flags, network
<1>10. CASE /\ UNCHANGED <<flags, rtsp, stream_fd, conn>>
            /\ thread' \in Working => thread \in Working
  BY <1>10 DEF flags
<1>11. CASE Check \/ SelectNothing \/ SelectClosed \/ Readable \/ RecvTimeout \/ ReportReset
  BY <1>10, <1>11 DEF Check, SelectNothing, SelectClosed, Readable, RecvTimeout, ReportReset, GoTo, network
<1>12. CASE Receiving
  <2>1. ASSUME NEW n, RecvHeaderPart(n) \/ RecvPayload(n)
        PROVE  FlagsInv'
    BY <1>10, <2>1 DEF RecvHeaderPart, RecvPayload, GoTo
  <2>2. CASE RecvHeaderRest \/ RecvClosedInPayload \/ RecvFails
    BY <1>10, <2>2 DEF RecvHeaderRest, RecvClosedInPayload, RecvFails, GoTo, network
  <2> QED BY <1>8, <1>12, <2>1, <2>2 DEF Receiving
<1>13. CASE Dispatch
  <2>1. CASE FrameAborts
    BY <1>10, <2>1 DEF FrameAborts, GoTo, network
  <2>2. CASE EndOfPacket
    BY <1>10, <2>2 DEF EndOfPacket, GoTo, network
  <2> QED BY <1>13, <2>1, <2>2 DEF Dispatch, DispatchOther, DispatchSets, FrameDropped, FrameShown
<1> QED BY <1>1, <1>2, <1>3, <1>4, <1>5, <1>6, <1>7, <1>9, <1>11, <1>12, <1>13
        DEF Next, Thread, RtspThread

\* Division as Blocks uses it.
LEMMA Quotient ==
  ASSUME NEW m \in Nat \ {0}, NEW a \in Int
  PROVE  a \div m \in Int /\ a % m \in 0 .. m - 1 /\ a = m * (a \div m) + (a % m)
  BY SMT

\* Decrypting a frame moves the place in the key stream by the frame's size and
\* leaves less than a block of rest.
LEMMA DecryptMoves ==
  ASSUME CipherInv, Decrypt, Current.size \in Nat
  PROVE  CipherInv' /\ Place' = (Place + Current.size) % KEYSTREAM
<1> DEFINE size == Current.size
           fresh == size - nextDecryptCount
           blocks == Blocks(fresh)
           spare == (fresh + BLOCK - 1) % BLOCK
<1>1. BLOCK \in Nat \ {0} /\ KEYSTREAM = 2 * BLOCK /\ KEYSTREAM \in Nat \ {0}
  BY MirrorAssumption DEF KEYSTREAM
<1>2. /\ block \in {0, 1} /\ nextDecryptCount \in 0 .. BLOCK - 1 /\ size \in Nat
      /\ fresh \in Int /\ nextDecryptCount \in Int /\ block \in Int
  BY <1>1 DEF CipherInv
<1>3. block' = (block + blocks) % 2 /\ nextDecryptCount' = blocks * BLOCK - fresh
  BY DEF Decrypt
<1>4. /\ blocks \in Int /\ spare \in 0 .. BLOCK - 1
      /\ fresh + BLOCK - 1 = BLOCK * blocks + spare
  <2>1. fresh + BLOCK - 1 \in Int
    BY <1>1, <1>2
  <2>2. spare \in 0 .. BLOCK - 1
    BY <1>1, <2>1, Quotient
  <2>3. blocks \in Int
    BY <1>1, <2>1, Quotient DEF Blocks
  <2>4. fresh + BLOCK - 1 = BLOCK * blocks + spare
    <3> DEFINE a == fresh + BLOCK - 1
    <3>1. a \in Int /\ blocks = a \div BLOCK /\ spare = a % BLOCK
      BY <2>1 DEF Blocks
    <3> HIDE DEF a, blocks, spare
    <3>2. a = BLOCK * (a \div BLOCK) + (a % BLOCK)
      BY <1>1, <3>1, Quotient
    <3> QED BY <3>1, <3>2 DEF a
  <2> QED BY <2>2, <2>3, <2>4
<1> HIDE DEF size, fresh, blocks, spare
<1>5. nextDecryptCount' = BLOCK - 1 - spare
  BY <1>1, <1>2, <1>3, <1>4
<1>6. CipherInv'
  <2>1. nextDecryptCount' \in 0 .. BLOCK - 1
    BY <1>1, <1>4, <1>5
  <2>2. block' \in {0, 1}
    BY <1>2, <1>3, <1>4
  <2> QED BY <2>1, <2>2 DEF CipherInv
<1>7. PICK k \in Int : block + blocks = 2 * k + block'
  BY <1>2, <1>3, <1>4
<1> DEFINE now == KEYSTREAM + block * BLOCK - nextDecryptCount
           then == KEYSTREAM + block' * BLOCK - nextDecryptCount'
<1>8. now \in Int /\ then \in Int
  BY <1>1, <1>2, <1>6 DEF CipherInv
<1>9. now + size = then + KEYSTREAM * k
  <2>1. block * BLOCK + blocks * BLOCK = KEYSTREAM * k + block' * BLOCK
    <3>1. block' \in Int
      BY <1>6 DEF CipherInv
    <3>2. BLOCK \in Int /\ block \in Int /\ blocks \in Int /\ k \in Int
      BY <1>1, <1>2, <1>4
    <3>3. block * BLOCK + blocks * BLOCK = (2 * BLOCK) * k + block' * BLOCK
      <4> DEFINE a == block
                 b == blocks
                 c == block'
                 m == BLOCK
      <4>1. /\ a + b = 2 * k + c /\ a \in Int /\ b \in Int /\ c \in Int /\ k \in Int /\ m \in Int
        BY <1>7, <3>1, <3>2
      <4> HIDE DEF a, b, c, m
      <4>2. a * m = (2 * k + c - b) * m
        <5>1. a = 2 * k + c - b
          BY <4>1
        <5> QED BY <5>1
      <4>3. (2 * k + c - b) * m = (2 * m) * k + c * m - b * m
        BY <4>1, SMT
      <4>4. a * m + b * m = (2 * m) * k + c * m
        BY <4>1, <4>2, <4>3
      <4> QED BY <4>4 DEF a, b, c, m
    <3> QED BY <1>1, <3>3, Zenon
  <2>2. block' * BLOCK \in Int /\ block * BLOCK \in Int /\ blocks * BLOCK \in Int
    BY <1>1, <1>2, <1>4, <1>6 DEF CipherInv
  <2>3. KEYSTREAM * k \in Int
    BY <1>1
  <2>4. size = fresh + nextDecryptCount
    BY <1>2 DEF fresh, size
  <2> DEFINE a == block * BLOCK
             b == blocks * BLOCK
             c == block' * BLOCK
             d == KEYSTREAM * k
  <2>5. /\ a + b = d + c /\ nextDecryptCount' = b - fresh
        /\ a \in Int /\ b \in Int /\ c \in Int /\ d \in Int
    BY <1>3, <2>1, <2>2, <2>3
  <2>6. now = KEYSTREAM + a - nextDecryptCount /\ then = KEYSTREAM + c - nextDecryptCount'
    OBVIOUS
  <2> HIDE DEF a, b, c, d, now, then
  <2>7. now + size = then + d
    BY <1>1, <1>2, <2>4, <2>5, <2>6
  <2> QED BY <2>7 DEF d
<1> HIDE DEF now, then
<1>10. then % KEYSTREAM = ((now % KEYSTREAM) + size) % KEYSTREAM
  <2>1. size \in Int
    BY <1>2
  <2>2. (then + KEYSTREAM * k) % KEYSTREAM = then % KEYSTREAM
    BY <1>1, <1>8, ModShift
  <2>3. ((now % KEYSTREAM) + size) % KEYSTREAM = (now + size) % KEYSTREAM
    BY <1>1, <1>8, <2>1, ModAdd
  <2> QED BY <1>9, <2>2, <2>3
<1> QED BY <1>6, <1>10 DEF Place, now, then, size

\* The thread that dispatches a packet has one.
LEMMA CurrentType ==
  ASSUME Whole, Dispatching
  PROVE  Current \in Packets /\ Current.size \in Nat /\ Current.start \in Int /\ Current.time \in Int
<1>1. packet \in [0 .. HEADER - 1 -> AllUnits] /\ 0 \in 0 .. HEADER - 1
  BY MirrorAssumption DEF Whole, HeldInv
<1>2. Current \in Packets
  BY <1>1 DEF Current, AllUnits
<1> QED BY <1>2 DEF Packets

\* mirror_buffer_decrypt alone moves the cipher, but for a new key.
LEMMA CipherKept ==
  ASSUME Whole, CipherInv, [Next]_vars
  PROVE  CipherInv'
<1>1. CASE UNCHANGED cipher
  BY <1>1 DEF cipher, CipherInv
<1>2. CASE SetUp
  BY <1>2 DEF SetUp, CipherInv
<1>3. CASE FrameDropped \/ FrameShown
  <2>1. Decrypt /\ Dispatching
    BY <1>3 DEF FrameDropped, FrameShown, EndOfPacket, GoTo, Dispatching
  <2> QED BY <2>1, CurrentType, DecryptMoves
<1>4. CASE UNCHANGED vars
  BY <1>1, <1>4 DEF vars
<1>5. CASE StopBegin \/ StopClose \/ StopJoin
  BY <1>1, <1>5, SMTT(40) DEF StopBegin, StopClose, StopJoin
<1>6. CASE Client
  BY <1>1, <1>6, ZenonT(60) DEF Client, Connect, Send, End, clientless
<1>7. CASE Check \/ SelectNothing \/ SelectClosed \/ Accept \/ Readable \/ RecvTimeout
           \/ Leave \/ ReportReset
  BY <1>1, <1>7 DEF Check, SelectNothing, SelectClosed, Accept, Readable, RecvTimeout,
                    Leave, ReportReset
<1>8. CASE Receiving
  BY <1>1, <1>8 DEF Receiving, RecvHeaderPart, RecvPayload, RecvHeaderRest,
                    RecvClosedInHeader, RecvClosedInPayload, RecvFails
<1>9. CASE DispatchOther \/ DispatchSets \/ FrameAborts
  BY <1>1, <1>9 DEF DispatchOther, DispatchSets, FrameAborts
<1> QED BY <1>2, <1>3, <1>4, <1>5, <1>6, <1>7, <1>8, <1>9
        DEF Next, RtspThread, Thread, Dispatch

-----------------------------------------------------------------------------
(* Packets go on where the ones before them ended.                         *)

\* The first of the units left when n are taken is the one behind them.
LEMMA NextUnit ==
  ASSUME WireInv, NEW n \in 1 .. Len(wire), wire' = SubSeq(wire, n + 1, Len(wire)),
         UNCHANGED <<client, conn>>
  PROVE  /\ Len(wire) \in Nat /\ Len(wire') \in Nat /\ Len(wire') = Len(wire) - n /\ wire # <<>>
         /\ \A i \in 1 .. Len(wire') : i + n \in 1 .. Len(wire) /\ wire'[i] = wire[i + n]
         /\ wire' # <<>> =>
              n \in 1 .. Len(wire) - 1 /\ wire'[1] = wire[n + 1] /\ Newest' = Newest
         /\ wire' = <<>> => n = Len(wire)
<1>1. wire \in Seq(AllUnits) /\ n \in 0 .. Len(wire) /\ n \in Nat
  BY DEF WireInv
<1>2. /\ WireInv' /\ Len(wire') = Len(wire) - n
      /\ \A i \in 1 .. Len(wire') : i + n \in 1 .. Len(wire) /\ wire'[i] = wire[i + n]
  BY <1>1, TakeWire
<1>4. wire' \in Seq(AllUnits) /\ Len(wire') \in Nat /\ Len(wire) \in Nat /\ wire # <<>>
  BY <1>1, <1>2 DEF WireInv
<1>5. ASSUME wire' # <<>>
      PROVE  n \in 1 .. Len(wire) - 1 /\ wire'[1] = wire[n + 1] /\ Newest' = Newest
  <2> DEFINE a == Len(wire)
             b == Len(wire')
  <2>1. a \in Nat /\ b \in Nat /\ b = a - n /\ n \in Nat /\ n >= 1
    BY <1>1, <1>2, <1>4
  <2>2. 1 \in 1 .. b /\ b \in 1 .. b
    BY <1>4, <1>5
  <2>3. wire'[1] = wire[1 + n] /\ wire'[b] = wire[b + n]
    BY <1>2, <2>2
  <2> HIDE DEF a, b
  <2>4. b + n = a /\ 1 + n = n + 1 /\ n \in 1 .. a - 1
    BY <2>1, <2>2
  <2> QED BY <2>3, <2>4 DEF a, b, Newest
<1>6. wire' = <<>> => n = Len(wire)
  <2>1. Len(<<>>) = 0
    OBVIOUS
  <2> DEFINE w == wire'
  <2>2. w = <<>> => Len(w) = 0
    BY <2>1
  <2> HIDE DEF w
  <2> QED BY <1>1, <1>2, <1>4, <2>2 DEF w
<1> QED BY <1>2, <1>4, <1>5, <1>6

LEMMA StreamTook ==
  ASSUME Whole, StreamInv, NEW n \in 1 .. Len(wire), Took(n)
  PROVE  StreamInv'
<1>1. /\ wire' = SubSeq(wire, n + 1, Len(wire)) /\ UNCHANGED <<client, conn>>
      /\ thread \in Working /\ wire[n].of = Current'
      /\ Dispatching' /\ wire' # <<>> => wire'[1].at = 0
  BY DEF Took, clientside
<1>2. /\ Len(wire) \in Nat /\ Len(wire') \in Nat /\ Len(wire') = Len(wire) - n /\ wire # <<>>
      /\ \A i \in 1 .. Len(wire') : i + n \in 1 .. Len(wire) /\ wire'[i] = wire[i + n]
      /\ wire' # <<>> =>
           n \in 1 .. Len(wire) - 1 /\ wire'[1] = wire[n + 1] /\ Newest' = Newest
      /\ wire' = <<>> => n = Len(wire)
  BY <1>1, NextUnit DEF Whole
<1>3. /\ \A i \in 1 .. Len(wire) - 1 :
           wire[i + 1].at = 0 => Before(wire[i + 1].of) = Behind(wire[i].of)
      /\ conn = "open" => Now = Behind(Newest.of)
  BY <1>1, <1>2 DEF StreamInv
<1>4. ASSUME NEW i \in 1 .. Len(wire') - 1, wire'[i + 1].at = 0
      PROVE  Before(wire'[i + 1].of) = Behind(wire'[i].of)
  <2>1. /\ i \in 1 .. Len(wire') /\ i + 1 \in 1 .. Len(wire') /\ i + n \in 1 .. Len(wire) - 1
        /\ (i + 1) + n = (i + n) + 1
    BY <1>2
  <2>2. wire'[i] = wire[i + n] /\ wire'[i + 1] = wire[(i + n) + 1]
    BY <1>2, <2>1
  <2> QED BY <1>3, <1>4, <2>1, <2>2
<1>5. conn' = "open" /\ wire' # <<>> => Now' = Behind(Newest'.of)
  BY <1>1, <1>2, <1>3 DEF Now
<1>6. Dispatching' /\ wire' # <<>> => Before(wire'[1].of) = Behind(Current')
  BY <1>1, <1>2, <1>3, SMTT(40)
<1>7. Dispatching' /\ wire' = <<>> /\ conn' = "open" => Now' = Behind(Current')
  BY <1>1, <1>2, <1>3 DEF Now, Newest
<1> QED BY <1>4, <1>5, <1>6, <1>7 DEF StreamInv, Newest, Before, Behind, KeyBehind, Full, Frame

LEMMA StreamSent ==
  ASSUME Whole, StreamInv, thread' \in Working,
         NEW type \in Types, NEW size \in Sizes(type), NEW time \in Times(type),
         Send(NextPacket(type, size, time))
  PROVE  StreamInv'
<1> DEFINE p == NextPacket(type, size, time)
<1>1. /\ p \in Packets /\ conn = "open" /\ conn' = "open" /\ wire' = wire \o Units(p)
      /\ UNCHANGED thread /\ Current' = Current /\ Dispatching' = Dispatching
      /\ Before(p) = Now /\ Now' = Behind(p)
  BY PacketSent
<1> HIDE DEF p
<1>2. /\ Len(wire) \in Nat /\ Len(wire') \in Nat /\ Len(wire') > Len(wire) /\ wire' # <<>>
      /\ \A i \in 1 .. Len(wire) : wire'[i] = wire[i]
      /\ \A i \in Len(wire) + 1 .. Len(wire') :
           wire'[i].of = p /\ wire'[i].at = i - Len(wire) - 1
  BY <1>1, WireSent DEF Whole
<1>3. thread \in Working
  BY <1>1
<1>4. ASSUME NEW i \in 1 .. Len(wire') - 1, wire'[i + 1].at = 0
      PROVE  Before(wire'[i + 1].of) = Behind(wire'[i].of)
  <2>1. CASE i < Len(wire)
    <3>1. i \in 1 .. Len(wire) /\ i + 1 \in 1 .. Len(wire) /\ i \in 1 .. Len(wire) - 1
      BY <1>2, <2>1
    <3> QED BY <1>2, <1>3, <1>4, <3>1 DEF StreamInv
  <2>2. CASE i = Len(wire)
    <3>1. i \in 1 .. Len(wire) /\ i + 1 \in Len(wire) + 1 .. Len(wire') /\ wire # <<>>
      BY <1>2, <2>2
    <3>2. Now = Behind(wire[Len(wire)].of)
      BY <1>1, <1>3, <3>1 DEF StreamInv, Newest
    <3> QED BY <1>1, <1>2, <2>2, <3>1, <3>2
  <2>3. CASE i > Len(wire)
    <3>1. i + 1 \in Len(wire) + 1 .. Len(wire') /\ (i + 1) - Len(wire) - 1 # 0
      BY <1>2, <2>3
    <3> QED BY <1>2, <1>4, <3>1
  <2> QED BY <1>2, <2>1, <2>2, <2>3
<1>5. Now' = Behind(Newest'.of)
  <2>1. Len(wire') \in Len(wire) + 1 .. Len(wire')
    BY <1>2
  <2> QED BY <1>1, <1>2, <2>1 DEF Newest
<1>6. ASSUME Dispatching'
      PROVE  Before(wire'[1].of) = Behind(Current')
  <2>1. Dispatching
    BY <1>1, <1>6
  <2>2. CASE wire = <<>>
    <3>1. 1 \in Len(wire) + 1 .. Len(wire') /\ Now = Behind(Current)
      BY <1>1, <1>2, <1>3, <2>1, <2>2 DEF StreamInv
    <3> QED BY <1>1, <1>2, <3>1
  <2>3. CASE wire # <<>>
    <3>1. 1 \in 1 .. Len(wire)
      <4>1. wire \in Seq(AllUnits)
        BY DEF Whole, WireInv
      <4> QED BY <2>3, <4>1
    <3> QED BY <1>1, <1>2, <1>3, <2>1, <2>3, <3>1 DEF StreamInv
  <2> QED BY <2>2, <2>3
<1> QED BY <1>2, <1>4, <1>5, <1>6 DEF StreamInv, Newest, Before, Behind, KeyBehind, Full, Frame

LEMMA StreamEnded ==
  ASSUME Whole, StreamInv, thread' \in Working,
         NEW how \in {"closed", "reset", "timedout"}, NEW n \in 0 .. Len(wire), End(how, n)
  PROVE  StreamInv'
<1>1. /\ Len(wire) \in Nat /\ Len(wire') = n /\ (wire' = <<>> <=> n = 0)
      /\ \A i \in 1 .. n : i \in 1 .. Len(wire) /\ wire'[i] = wire[i]
      /\ conn' = how /\ UNCHANGED thread
      /\ Current' = Current /\ Dispatching' = Dispatching
  BY WireCut DEF Whole
<1>2. ASSUME NEW i \in 1 .. Len(wire') - 1, wire'[i + 1].at = 0
      PROVE  Before(wire'[i + 1].of) = Behind(wire'[i].of)
  <2>1. i \in 1 .. n /\ i + 1 \in 1 .. n /\ i \in 1 .. Len(wire) - 1
    BY <1>1
  <2> QED BY <1>1, <1>2, <2>1 DEF StreamInv
<1>3. ASSUME Dispatching', wire' # <<>>
      PROVE  Before(wire'[1].of) = Behind(Current')
  <2>1. 1 \in 1 .. n
    BY <1>1, <1>3
  <2>2. 1 \in 1 .. Len(wire) /\ wire'[1] = wire[1]
    BY <1>1, <2>1
  <2>3. wire # <<>>
    BY <2>2
  <2> QED BY <1>1, <1>3, <2>2, <2>3 DEF StreamInv
<1>4. conn' # "open"
  BY <1>1
<1> QED BY <1>2, <1>3, <1>4 DEF StreamInv, Newest, Before, Behind, KeyBehind, Full, Frame

LEMMA StreamKept ==
  ASSUME Whole, Whole', ThreadOwnsTheStream, FlagsInv, StreamInv, [Next]_vars
  PROVE  StreamInv'
<1> SUFFICES ASSUME thread' \in Working PROVE StreamInv'
  BY DEF StreamInv
<1>1. CASE Still
  <2>1. /\ UNCHANGED <<wire, conn, client>> /\ thread \in Working
        /\ Dispatching' = Dispatching /\ Current' = Current
    BY <1>1 DEF Still, clientside
  <2> QED BY <2>1 DEF StreamInv, Newest, Now, Before, Behind, KeyBehind, Full, Frame
<1>2. CASE GivenUp \/ Started
  <2>1. wire' = <<>> /\ conn' = "none" /\ Len(wire') = 0
    BY <1>2 DEF GivenUp, Started, SetUp, network
  <2> QED BY <2>1 DEF StreamInv
<1>3. CASE Finished
  <2>1. /\ UNCHANGED <<wire, conn, client>> /\ thread \in Working /\ ~Dispatching'
    BY <1>3 DEF Finished, clientside
  <2> QED BY <2>1 DEF StreamInv, Newest, Now, Before, Behind, KeyBehind, Full, Frame
<1>4. CASE Connect
  <2>1. wire' = <<>> /\ ~Dispatching' /\ Len(wire') = 0
    BY <1>4, Connected
  <2> QED BY <2>1 DEF StreamInv
<1> QED BY <1>1, <1>2, <1>3, <1>4, Kinds, StreamTook, StreamSent, StreamEnded DEF Client

-----------------------------------------------------------------------------
(* The key stream.                                                         *)

\* A packet behind another begins where that one ended.
LEMMA BehindKey ==
  ASSUME NEW p, NEW q, Before(p) = Behind(q)
  PROVE  p.start = KeyBehind(q)
  BY DEF Before, Behind

LEMMA KeyTook ==
  ASSUME Whole, KeyInv, NEW n \in 1 .. Len(wire), Took(n)
  PROVE  KeyInv'
<1> SUFFICES ASSUME Comparable' PROVE KeyInv'
  BY DEF KeyInv
<1>1. /\ wire' = SubSeq(wire, n + 1, Len(wire)) /\ UNCHANGED <<client, conn>>
      /\ Comparable /\ ~Dispatching /\ Place' = Place
      /\ wire[n].of = Current' /\ wire[1].of = Current'
      /\ ~Dispatching' => ~Ends(wire[n]) /\ (wire' # <<>> => wire'[1].of = Current')
  BY DEF Took, clientside, cipher, Comparable, Place
<1>2. /\ Len(wire) \in Nat /\ Len(wire') \in Nat /\ Len(wire') = Len(wire) - n /\ wire # <<>>
      /\ \A i \in 1 .. Len(wire') :
           i + n \in 1 .. Len(wire) /\ wire'[i] = wire[i + n]
      /\ wire' # <<>> => Newest' = Newest
      /\ wire' = <<>> => n = Len(wire)
  BY <1>1, NextUnit DEF Whole
<1>3. /\ client.sent = KeyBehind(Newest.of)
      /\ Frame(Newest.of) => Ends(Newest)
      /\ \A i \in 1 .. Len(wire) : NoFrames(i) => wire[i].of.start = client.sent
      /\ wire[1].of.start = Place
  BY <1>1, <1>2 DEF KeyInv
<1>4. wire' # <<>> => client'.sent = KeyBehind(Newest'.of)
  BY <1>1, <1>2, <1>3
<1>5. wire' # <<>> /\ Frame(Newest'.of) => Ends(Newest')
  BY <1>2, <1>3
<1>6. ASSUME NEW i \in 1 .. Len(wire'), NoFrames(i)'
      PROVE  wire'[i].of.start = client'.sent
  <2>1. i + n \in 1 .. Len(wire) /\ wire'[i] = wire[i + n]
    BY <1>2
  <2>2. NoFrames(i + n)
    <3> SUFFICES ASSUME NEW j \in i + n .. Len(wire) PROVE ~Frame(wire[j].of)
      BY DEF NoFrames
    <3>1. j - n \in i .. Len(wire') /\ j - n \in 1 .. Len(wire') /\ (j - n) + n = j
      BY <1>2
    <3>2. wire'[j - n] = wire[j]
      BY <1>2, <3>1
    <3>3. ~Frame(wire'[j - n].of)
      BY <1>6, <3>1 DEF NoFrames, Frame
    <3> QED BY <3>2, <3>3
  <2> QED BY <1>1, <1>3, <2>1, <2>2
<1>7. /\ Dispatching' => Current'.start = Place'
      /\ Dispatching' /\ wire' = <<>> => client'.sent = KeyBehind(Current')
  BY <1>1, <1>2, <1>3 DEF Newest
<1>8. ~Dispatching' /\ wire' # <<>> => wire'[1].of.start = Place'
  BY <1>1, <1>3
<1>9. ~Dispatching' /\ wire' = <<>> => client'.sent = Place'
  BY <1>1, <1>2, <1>3 DEF KeyBehind, Newest
<1> QED BY <1>4, <1>5, <1>6, <1>7, <1>8, <1>9 DEF KeyInv, KeyBehind, Frame, Ends

LEMMA KeyFinished ==
  ASSUME Whole, StreamInv, CipherInv, KeyInv, Finished
  PROVE  KeyInv'
<1> SUFFICES ASSUME Comparable' PROVE KeyInv'
  BY DEF KeyInv
<1>1. /\ UNCHANGED <<wire, client, conn>> /\ Comparable /\ Dispatching /\ ~Dispatching'
      /\ thread \in Working
  BY DEF Finished, clientside, Comparable
<1>2. Place' = KeyBehind(Current)
  <2>1. Current.start = Place
    BY <1>1 DEF KeyInv
  <2>2. CASE DispatchOther \/ DispatchSets
    <3>1. UNCHANGED cipher /\ ~Frame(Current)
      BY <2>2 DEF DispatchOther, DispatchSets, Frame
    <3> QED BY <2>1, <3>1 DEF cipher, Place, KeyBehind
  <2>3. CASE FrameDropped \/ FrameShown
    <3>1. Decrypt /\ Frame(Current) /\ Current.size \in Nat
      BY <1>1, <2>3, CurrentType DEF FrameDropped, FrameShown
    <3>2. Place' = (Place + Current.size) % KEYSTREAM
      BY <3>1, DecryptMoves
    <3> QED BY <2>1, <3>1, <3>2 DEF KeyBehind
  <2> QED BY <2>2, <2>3 DEF Finished
<1>3. wire # <<>> => wire[1].of.start = KeyBehind(Current)
  BY <1>1, BehindKey DEF StreamInv
<1>4. wire = <<>> => client.sent = KeyBehind(Current)
  BY <1>1 DEF KeyInv
<1>5. /\ wire # <<>> => client.sent = KeyBehind(Newest.of)
      /\ wire # <<>> /\ Frame(Newest.of) => Ends(Newest)
      /\ \A i \in 1 .. Len(wire) : NoFrames(i) => wire[i].of.start = client.sent
  BY <1>1 DEF KeyInv
<1> QED BY <1>1, <1>2, <1>3, <1>4, <1>5 DEF KeyInv, KeyBehind, Frame, NoFrames, Newest, Ends

LEMMA KeySent ==
  ASSUME Whole, StreamInv, KeyInv,
         NEW type \in Types, NEW size \in Sizes(type), NEW time \in Times(type),
         Send(NextPacket(type, size, time))
  PROVE  KeyInv'
<1> SUFFICES ASSUME Comparable' PROVE KeyInv'
  BY DEF KeyInv
<1> DEFINE p == NextPacket(type, size, time)
           m == Len(wire)
           k == Len(wire')
<1>1. /\ p \in Packets /\ p.size \in Nat /\ wire' = wire \o Units(p)
      /\ UNCHANGED <<thread, stream_fd, data_sock, cipher, carried, gap>>
      /\ Current' = Current /\ Dispatching' = Dispatching
      /\ p.start = client.sent /\ client'.sent = KeyBehind(p)
  BY PacketSent
<1> HIDE DEF p
<1>2. /\ m \in Nat /\ k \in Nat /\ k > m /\ wire' # <<>>
      /\ \A i \in 1 .. m : wire'[i] = wire[i]
      /\ \A i \in m + 1 .. k : wire'[i].of = p /\ wire'[i].at = i - m - 1
      /\ wire # <<>> => 1 \in 1 .. m
      /\ wire = <<>> => m = 0
  <2>1. wire # <<>> => 1 \in 1 .. m
    <3>1. wire \in Seq(AllUnits)
      BY DEF Whole, WireInv
    <3> QED BY <3>1
  <2> QED BY <1>1, <2>1, WireSent DEF Whole
<1>3. Comparable /\ Place' = Place
  BY <1>1 DEF Comparable, cipher, Place
<1>4. client'.sent = KeyBehind(Newest'.of)
  <2>1. k \in m + 1 .. k
    BY <1>2
  <2> QED BY <1>1, <1>2, <2>1 DEF Newest
<1>5. Ends(Newest')
  <2>1. k \in m + 1 .. k
    BY <1>2
  <2>2. Len(Units(p)) = HEADER + p.size /\ Units(p) \in Seq(AllUnits) /\ wire \in Seq(AllUnits)
    BY <1>1, UnitsType DEF Whole, WireInv
  <2>3. k = m + (HEADER + p.size)
    <3> DEFINE u == Units(p)
    <3>1. u \in Seq(AllUnits) /\ wire \in Seq(AllUnits) /\ wire' = wire \o u
      BY <1>1, <2>2
    <3> HIDE DEF u
    <3>2. k = m + Len(u)
      BY <3>1
    <3> QED BY <2>2, <3>2 DEF u
  <2>4. Newest'.of = p /\ Newest'.at = k - m - 1
    BY <1>2, <2>1 DEF Newest
  <2>5. HEADER \in Nat /\ p.size \in Nat /\ m \in Nat /\ k \in Nat
    BY <1>1, <1>2, MirrorAssumption
  <2> HIDE DEF m, k
  <2>6. k - m - 1 = HEADER + p.size - 1
    BY <2>3, <2>5
  <2> QED BY <2>4, <2>6 DEF Ends
<1>6. ASSUME NEW i \in 1 .. k, NoFrames(i)'
      PROVE  wire'[i].of.start = client'.sent
  <2>1. client'.sent = client.sent
    <3>1. k \in i .. k /\ k \in m + 1 .. k
      BY <1>2
    <3>2. ~Frame(p)
      BY <1>2, <1>6, <3>1 DEF NoFrames, Frame
    <3> QED BY <1>1, <3>2 DEF KeyBehind
  <2>2. CASE i \in 1 .. m
    <3>1. NoFrames(i)
      <4> SUFFICES ASSUME NEW j \in i .. Len(wire) PROVE ~Frame(wire[j].of)
        BY DEF NoFrames
      <4>1. j \in i .. k /\ j \in 1 .. m
        BY <1>2, <2>2
      <4> QED BY <1>2, <1>6, <4>1 DEF NoFrames, Frame
    <3> QED BY <1>2, <1>3, <2>1, <2>2, <3>1 DEF KeyInv
  <2>3. CASE i \in m + 1 .. k
    BY <1>1, <1>2, <2>1, <2>3
  <2> QED BY <1>2, <2>2, <2>3
<1>7. Dispatching' => Current'.start = Place'
  BY <1>1, <1>3 DEF KeyInv
<1>8. ASSUME ~Dispatching'
      PROVE  wire'[1].of.start = Place'
  <2>1. CASE wire = <<>>
    <3>1. 1 \in m + 1 .. k /\ client.sent = Place
      BY <1>1, <1>2, <1>3, <1>8, <2>1 DEF KeyInv
    <3> QED BY <1>1, <1>2, <1>3, <3>1
  <2>2. CASE wire # <<>>
    BY <1>1, <1>2, <1>3, <1>8, <2>2 DEF KeyInv
  <2> QED BY <2>1, <2>2
<1> QED BY <1>2, <1>4, <1>5, <1>6, <1>7, <1>8 DEF KeyInv, KeyBehind, Frame, Ends

LEMMA KeyEnded ==
  ASSUME Whole, StreamInv, KeyInv,
         NEW how \in {"closed", "reset", "timedout"}, NEW n \in 0 .. Len(wire), End(how, n)
  PROVE  KeyInv'
<1> SUFFICES ASSUME Comparable' PROVE KeyInv'
  BY DEF KeyInv
<1> DEFINE m == Len(wire)
<1>1. /\ m \in Nat /\ Len(wire') = n /\ (wire' = <<>> <=> n = 0) /\ n \in 0 .. m
      /\ \A i \in 1 .. n : i \in 1 .. m /\ wire'[i] = wire[i] 
      /\ UNCHANGED <<thread, stream_fd, data_sock, cipher, client, carried>>
      /\ Current' = Current /\ Dispatching' = Dispatching /\ conn = "open"
  BY WireCut DEF Whole
<1>2. ~gap /\ \A i \in n + 1 .. m : ~Frame(wire[i].of)
  BY DEF End, Comparable
<1>3. Comparable /\ Place' = Place /\ thread \in Working
  BY <1>1, <1>2 DEF Comparable, cipher, Place
<1>4. /\ wire # <<>> => client.sent = KeyBehind(wire[m].of)
      /\ wire # <<>> /\ Frame(wire[m].of) => Ends(wire[m])
      /\ \A i \in 1 .. m : NoFrames(i) => wire[i].of.start = client.sent
  BY <1>3 DEF KeyInv, Newest
<1>5. ASSUME n # 0
      PROVE  /\ n \in 1 .. m /\ wire # <<>>
             /\ client.sent = KeyBehind(wire[n].of)
             /\ Frame(wire[n].of) => Ends(wire[n])
  <2>1. n \in 1 .. m /\ wire # <<>>
    <3>1. n \in 1 .. m
      BY <1>1, <1>5
    <3>2. Len(wire) # 0
      BY <1>1, <3>1
    <3> QED BY <3>1, <3>2
  <2>2. CASE n = m
    BY <1>4, <2>1, <2>2
  <2>3. CASE n # m
    <3>1. n + 1 \in 1 .. m /\ n + 1 \in n + 1 .. m /\ n \in 1 .. m - 1 /\ n + 1 = n + 1
      BY <1>1, <2>1, <2>3
    <3>2. wire[n + 1].of.start = client.sent /\ ~Frame(wire[n + 1].of)
      BY <1>2, <1>4, <3>1 DEF NoFrames
    <3>3. wire[n].at \in Nat /\ wire[n].of.size \in Nat /\ Left(n) \in Int /\ Left(n) > 0
      BY <2>1, UnitType DEF Whole, WireInv
    <3>4. CASE Left(n) = 1
      <4>1. n + 1 = n + Left(n)
        BY <3>4
      <4>2. wire[n + 1].at = 0
        BY <2>1, <3>1, <4>1 DEF Whole, WireInv
      <4>3. Before(wire[n + 1].of) = Behind(wire[n].of)
        BY <1>3, <3>1, <4>2 DEF StreamInv
      <4>4. Ends(wire[n])
        <5>1. HEADER + wire[n].of.size - wire[n].at = 1 /\ HEADER \in Nat
          BY <3>4, MirrorAssumption DEF Left
        <5> QED BY <3>3, <5>1, SMTT(40) DEF Ends
      <4> QED BY <2>1, <3>2, <4>3, <4>4, BehindKey
    <3>5. CASE Left(n) # 1
      <4>1. n + 1 < n + Left(n) /\ n <= n + 1
        BY <1>1, <3>3, <3>5
      <4>2. wire[n + 1] = Unit(wire[n].of, wire[n].at + ((n + 1) - n))
        BY <2>1, <3>1, <4>1 DEF Whole, WireInv
      <4>3. wire[n + 1].of = wire[n].of
        BY <4>2 DEF Unit
      <4> QED BY <2>1, <3>2, <4>3 DEF KeyBehind
    <3> QED BY <3>4, <3>5
  <2> QED BY <2>2, <2>3
<1>6. ASSUME wire' # <<>>
      PROVE  client'.sent = KeyBehind(Newest'.of) /\ (Frame(Newest'.of) => Ends(Newest'))
  <2>1. n # 0 /\ n \in 1 .. n
    BY <1>1, <1>6
  <2>2. Newest' = wire[n]
    BY <1>1, <2>1 DEF Newest
  <2> QED BY <1>1, <1>5, <2>1, <2>2
<1>7. ASSUME NEW i \in 1 .. n, NoFrames(i)'
      PROVE  wire'[i].of.start = client'.sent
  <2>1. NoFrames(i)
    <3> SUFFICES ASSUME NEW j \in i .. Len(wire) PROVE ~Frame(wire[j].of)
      BY DEF NoFrames
    <3>1. CASE j \in n + 1 .. m
      BY <1>2, <3>1
    <3>2. CASE j \in i .. n
      <4>1. j \in 1 .. n
        BY <3>2
      <4> QED BY <1>1, <1>7, <3>2, <4>1 DEF NoFrames, Frame
    <3> QED BY <1>1, <3>1, <3>2
  <2> QED BY <1>1, <1>4, <2>1
<1>8. Dispatching' => Current'.start = Place'
  BY <1>1, <1>3 DEF KeyInv
<1>9. ASSUME wire' # <<>>
      PROVE  wire # <<>> /\ wire'[1] = wire[1]
  <2>1. 1 \in 1 .. n
    BY <1>1, <1>9
  <2> QED BY <1>1, <1>5, <1>9, <2>1
<1>10. ~Dispatching' /\ wire' # <<>> => wire'[1].of.start = Place'
  BY <1>1, <1>3, <1>9 DEF KeyInv
<1>11. ASSUME wire' = <<>>, wire # <<>>
       PROVE  client.sent = wire[1].of.start
  <2>1. 1 \in 1 .. m
    <3>1. wire \in Seq(AllUnits)
      BY DEF Whole, WireInv
    <3> QED BY <1>11, <3>1
  <2>2. NoFrames(1)
    BY <1>1, <1>2, <1>11 DEF NoFrames
  <2> QED BY <1>4, <2>1, <2>2
<1>12. ~Dispatching' /\ wire' = <<>> => client'.sent = Place'
  BY <1>1, <1>3, <1>11 DEF KeyInv
<1>13. Dispatching' /\ wire' = <<>> => client'.sent = KeyBehind(Current')
  <2>1. Dispatching /\ wire # <<>> => wire[1].of.start = KeyBehind(Current)
    BY <1>3, BehindKey DEF StreamInv
  <2> QED BY <1>1, <1>3, <1>11, <2>1 DEF KeyInv
<1> QED BY <1>1, <1>6, <1>7, <1>8, <1>10, <1>12, <1>13 DEF KeyInv, KeyBehind, Frame, Ends

LEMMA KeyKept ==
  ASSUME Whole, Whole', ThreadOwnsTheStream, FlagsInv, StreamInv, CipherInv, KeyInv, [Next]_vars
  PROVE  KeyInv'
<1> SUFFICES ASSUME Comparable' PROVE KeyInv'
  BY DEF KeyInv
<1>1. thread' \in Working
  BY DEF Comparable
<1>2. CASE Still
  <2>1. /\ UNCHANGED <<wire, client, conn>> /\ Comparable /\ Place' = Place
        /\ Dispatching' = Dispatching /\ Current' = Current
    BY <1>2 DEF Still, clientside, cipher, Comparable, Place
  <2> QED BY <2>1 DEF KeyInv, KeyBehind, Frame, NoFrames, Newest, Ends
<1>3. CASE GivenUp
  <2>1. /\ wire = <<>> /\ wire' = <<>> /\ Len(wire') = 0 /\ client' = client
        /\ ~Dispatching /\ ~Dispatching' /\ Comparable /\ Place' = Place
    BY <1>3 DEF GivenUp, cipher, Comparable, Place
  <2>2. client.sent = Place
    BY <2>1 DEF KeyInv
  <2> QED BY <2>1, <2>2 DEF KeyInv
<1>4. CASE Started
  <2>1. /\ wire' = <<>> /\ Len(wire') = 0 /\ ~Dispatching'
        /\ client' = [client EXCEPT !.sent = 0]
        /\ block' = 0 /\ nextDecryptCount' = 0
    BY <1>4 DEF Started, SetUp, start, network, Dispatching, Comparable
  <2>2. client'.sent = 0
    BY <2>1 DEF Whole, WireInv, Clients
  <2>3. Place' = 0
    <3>1. KEYSTREAM \in Nat \ {0} /\ BLOCK \in Nat
      BY MirrorAssumption DEF KEYSTREAM
    <3>2. KEYSTREAM + 0 * BLOCK - 0 = KEYSTREAM * 1 + 0
      BY <3>1
    <3>3. (KEYSTREAM * 1 + 0) % KEYSTREAM = 0
      BY <3>1, ModUnique
    <3> QED BY <2>1, <3>2, <3>3 DEF Place
  <2> QED BY <2>1, <2>2, <2>3 DEF KeyInv
<1>5. CASE Connect
  <2>1. /\ wire = <<>> /\ wire' = <<>> /\ Len(wire') = 0 /\ ~Dispatching /\ ~Dispatching'
        /\ UNCHANGED <<thread, stream_fd, data_sock, cipher, carried, gap>>
        /\ client'.sent = client.sent
    BY <1>5, Connected
  <2>2. Comparable /\ Place' = Place
    BY <2>1 DEF Comparable, cipher, Place
  <2> QED BY <2>1, <2>2 DEF KeyInv
<1> QED BY <1>1, <1>2, <1>3, <1>4, <1>5, Kinds, KeyTook, KeyFinished, KeySent, KeyEnded DEF Client

-----------------------------------------------------------------------------
(* The clock.                                                              *)

\* The client's clock does not go backwards.
LEMMA ClockForward ==
  ASSUME Whole, ThreadOwnsTheStream, FlagsInv, ClockInv, [Next]_vars
  PROVE  client.clock \in Nat /\ client'.clock \in Nat /\ client.clock <= client'.clock
<1>1. client.clock \in Nat /\ client \in Clients
  BY DEF ClockInv, Whole, WireInv
<1>2. CASE client'.clock = client.clock
  BY <1>1, <1>2
<1>3. CASE client' = client
  BY <1>2, <1>3
<1>4. CASE SetUp
  <2>1. client' = [client EXCEPT !.sent = 0]
    BY <1>4 DEF SetUp
  <2> QED BY <1>1, <1>2, <2>1 DEF Clients
<1>5. CASE Connect
  BY <1>1, <1>5, Connected
<1>6. ASSUME NEW type \in Types, NEW size \in Sizes(type), NEW time \in Times(type),
             Send(NextPacket(type, size, time))
      PROVE  client'.clock \in Nat /\ client.clock <= client'.clock
  <2> DEFINE p == NextPacket(type, size, time)
  <2>1. /\ client'.clock = IF Timed(p) THEN p.time ELSE client.clock
        /\ Timed(p) => p.time \in {client.clock, client.clock + 1}
    BY <1>6, PacketSent
  <2> HIDE DEF p
  <2> QED BY <1>1, <2>1
<1>7. CASE \E how \in {"closed", "reset", "timedout"}, n \in 0 .. Len(wire) : End(how, n)
  BY <1>3, <1>7 DEF End
<1>8. CASE UNCHANGED vars
  BY <1>3, <1>8 DEF vars
<1>9. CASE StopBegin \/ StopClose \/ StopJoin
  BY <1>3, <1>9 DEF StopBegin, StopClose, StopJoin
<1>10. CASE Check \/ SelectNothing \/ SelectClosed \/ Accept \/ Readable \/ RecvTimeout
            \/ Leave \/ ReportReset
  BY <1>3, <1>10 DEF Check, SelectNothing, SelectClosed, Accept, Readable, RecvTimeout,
                     Leave, ReportReset
<1>11. CASE Receiving
  BY <1>3, <1>11 DEF Receiving, RecvHeaderPart, RecvPayload, RecvHeaderRest,
                     RecvClosedInHeader, RecvClosedInPayload, RecvFails
<1>12. CASE Dispatch
  BY <1>3, <1>12 DEF Dispatch, DispatchOther, DispatchSets, FrameAborts, FrameDropped,
                     FrameShown, EndOfPacket
<1> QED BY <1>1, <1>4, <1>5, <1>6, <1>7, <1>8, <1>9, <1>10, <1>11, <1>12
        DEF Next, RtspThread, Thread, Client

\* Whatever the thread takes, and wherever a connection breaks, times stay bounded.
LEMMA BoundsKept ==
  ASSUME Whole, thread' \in Working,
         \/ Still \/ GivenUp \/ Finished \/ Started \/ Connect
         \/ \E n \in 1 .. Len(wire) : Took(n)
         \/ \E how \in {"closed", "reset", "timedout"}, n \in 0 .. Len(wire) : End(how, n),
         ThreadOwnsTheStream, FlagsInv, NEW time
  PROVE  /\ Until(time) => Until(time)'
         /\ After(time) => After(time)'
<1> USE DEF Until, After, Timed
<1>1. CASE UNCHANGED wire /\ ((Dispatching' = Dispatching /\ Current' = Current) \/ ~Dispatching')
  BY <1>1
<1>2. CASE Still \/ Finished
  BY <1>1, <1>2 DEF Still, Finished
<1>3. CASE wire' = <<>> /\ ~Dispatching'
  <2>1. Len(wire') = 0
    BY <1>3
  <2> QED BY <1>3, <2>1
<1>4. CASE GivenUp
  BY <1>3, <1>4 DEF GivenUp
<1>5. CASE Started
  BY <1>3, <1>5 DEF Started, SetUp, start, network, Dispatching
<1>6. CASE Connect
  BY <1>3, <1>6, Connected
<1>7. ASSUME NEW n \in 1 .. Len(wire), Took(n)
      PROVE  /\ Until(time) => Until(time)'
             /\ After(time) => After(time)'
  <2>1. /\ wire' = SubSeq(wire, n + 1, Len(wire)) /\ UNCHANGED <<client, conn>>
        /\ wire[n].of = Current'
    BY <1>7 DEF Took, clientside
  <2>2. \A i \in 1 .. Len(wire') : i + n \in 1 .. Len(wire) /\ wire'[i] = wire[i + n]
    BY <2>1, NextUnit DEF Whole
  <2> QED BY <2>1, <2>2
<1>8. ASSUME NEW how, NEW n \in 0 .. Len(wire), End(how, n)
      PROVE  /\ Until(time) => Until(time)'
             /\ After(time) => After(time)'
  <2>1. /\ Len(wire') = n /\ \A i \in 1 .. n : i \in 1 .. Len(wire) /\ wire'[i] = wire[i]
        /\ Current' = Current /\ Dispatching' = Dispatching
    BY <1>8, WireCut DEF Whole
  <2> QED BY <2>1
<1> QED BY <1>2, <1>4, <1>5, <1>6, <1>7, <1>8

\* What is sent has a time that is not before the client's.
LEMMA BoundsSent ==
  ASSUME Whole, ClockInv, NEW type \in Types, NEW size \in Sizes(type), NEW time \in Times(type),
         Send(NextPacket(type, size, time)), NEW n \in Int, n < client.clock
  PROVE  After(n) => After(n)'
<1> DEFINE p == NextPacket(type, size, time)
<1>1. /\ p \in Packets /\ wire' = wire \o Units(p)
      /\ Current' = Current /\ Dispatching' = Dispatching
      /\ Timed(p) => p.time \in {client.clock, client.clock + 1}
  BY PacketSent
<1> HIDE DEF p
<1>2. /\ Len(wire) \in Nat /\ Len(wire') \in Nat
      /\ \A i \in 1 .. Len(wire) : wire'[i] = wire[i]
      /\ \A i \in Len(wire) + 1 .. Len(wire') : wire'[i].of = p
  BY <1>1, WireSent DEF Whole
<1>3. Timed(p) => n < p.time
  BY <1>1 DEF ClockInv
<1>4. \A i \in 1 .. Len(wire') : i \in 1 .. Len(wire) \/ i \in Len(wire) + 1 .. Len(wire')
  BY <1>2
<1> QED BY <1>1, <1>2, <1>3, <1>4 DEF After, Timed

\* Nothing under way is later than the client's clock.
LEMMA ClockKept ==
  ASSUME Whole, Whole', ThreadOwnsTheStream, FlagsInv, ClockInv, [Next]_vars
  PROVE  ClockInv'
<1>1. client.clock \in Nat /\ client'.clock \in Nat /\ client.clock <= client'.clock
  BY ClockForward
<1> SUFFICES ASSUME thread' \in Working
             PROVE  /\ ntp_timestamp_nal' \in Int /\ ntp_timestamp_nal' <= client'.clock
                    /\ Until(client.clock)'
  BY <1>1 DEF ClockInv
<1> DEFINE Send_ == \E type \in Types : \E size \in Sizes(type), time \in Times(type) :
                      Send(NextPacket(type, size, time))
<1>2. Started \/ thread \in Working
  BY Kinds, PacketSent, Connected, WireCut DEF Still, GivenUp, Finished, Took, Client, Whole
<1>3. /\ ntp_timestamp_nal' \in Int /\ ntp_timestamp_nal' <= client'.clock
  <2>1. CASE Started
    BY <1>1, <2>1 DEF Started, start, NoTime
  <2>2. CASE ~Started /\ ntp_timestamp_nal' = ntp_timestamp_nal
    BY <1>1, <1>2, <2>2 DEF ClockInv
  <2>3. CASE Finished
    <3>1. CASE DispatchSets
      <4>1. Dispatching /\ Timed(Current) /\ thread \in Working /\ ntp_timestamp_nal' = Current.time
        BY <2>3, <3>1 DEF DispatchSets, Finished, Timed
      <4>2. Current.time \in Int /\ Current.time <= client.clock
        BY <4>1, CurrentType DEF ClockInv, Until
      <4> QED BY <1>1, <4>1, <4>2
    <3>2. CASE DispatchOther \/ FrameDropped \/ FrameShown
      <4>1. ntp_timestamp_nal' = ntp_timestamp_nal /\ thread \in Working
        BY <2>3, <3>2, SMTT(40) DEF DispatchOther, FrameDropped, FrameShown, sets, Finished
      <4> QED BY <1>1, <4>1 DEF ClockInv
    <3> QED BY <2>3, <3>1, <3>2 DEF Finished
  <2>4. Still \/ GivenUp \/ (\E n \in 1 .. Len(wire) : Took(n)) \/ Client =>
          ntp_timestamp_nal' = ntp_timestamp_nal
    BY ZenonT(60) DEF Still, GivenUp, Took, Client, Connect, Send, End, clientless, sets
  <2> QED BY <2>1, <2>2, <2>3, <2>4, Kinds
<1>4. Until(client.clock)'
  <2>1. CASE Send_
    <3>1. PICK type \in Types : \E size \in Sizes(type), time \in Times(type) :
                 Send(NextPacket(type, size, time))
      BY <2>1
    <3>2. PICK size \in Sizes(type), time \in Times(type) : Send(NextPacket(type, size, time))
      BY <3>1
    <3> DEFINE p == NextPacket(type, size, time)
    <3>3. /\ p \in Packets /\ wire' = wire \o Units(p) /\ thread' = thread
          /\ Current' = Current /\ Dispatching' = Dispatching
          /\ client'.clock = IF Timed(p) THEN p.time ELSE client.clock
      BY <3>2, PacketSent
    <3> HIDE DEF p
    <3>4. /\ Len(wire) \in Nat /\ Len(wire') \in Nat
          /\ \A i \in 1 .. Len(wire) : wire'[i] = wire[i]
          /\ \A i \in Len(wire) + 1 .. Len(wire') : wire'[i].of = p
      BY <3>3, WireSent DEF Whole
    <3>5. Until(client.clock)
      BY <3>3 DEF ClockInv
    <3>6. ASSUME NEW i \in 1 .. Len(wire'), Timed(wire'[i].of)
          PROVE  wire'[i].of.time <= client'.clock
      <4>1. CASE i \in 1 .. Len(wire)
        <5>1. wire[i].of.time <= client.clock /\ wire'[i] = wire[i]
          BY <3>4, <3>5, <3>6, <4>1 DEF Until
        <5>2. wire[i].of.time \in Int
          BY <4>1, UnitType DEF Whole, Packets
        <5> QED BY <1>1, <5>1, <5>2
      <4>2. CASE i \in Len(wire) + 1 .. Len(wire')
        <5>1. wire'[i].of = p /\ client'.clock = p.time
          BY <3>3, <3>4, <3>6, <4>2
        <5> QED BY <1>1, <5>1
      <4> QED BY <3>4, <4>1, <4>2
    <3>7. ASSUME Dispatching', Timed(Current')
          PROVE  Current'.time <= client'.clock
      <4>1. Current.time <= client.clock /\ Current.time \in Int
        BY <3>3, <3>5, <3>7, CurrentType DEF Until, Timed
      <4> QED BY <1>1, <3>3, <4>1
    <3> QED BY <3>6, <3>7 DEF Until, Timed
  <2>2. CASE ~Send_
    <3>1. PICK clock : clock = client.clock
      OBVIOUS
    <3>2. CASE Started
      <4>1. wire' = <<>> /\ Len(wire') = 0 /\ ~Dispatching'
        BY <3>2 DEF Started, SetUp, start, network, Dispatching
      <4> QED BY <4>1 DEF Until
    <3>3. CASE ~Started
      <4>1. Until(clock)
        BY <1>2, <3>1, <3>3 DEF ClockInv, Until, Timed
      <4>2. Until(clock)'
        BY <2>2, <4>1, BoundsKept, Kinds DEF Client
      <4>3. ASSUME NEW i \in 1 .. Len(wire'), Timed(wire'[i].of)
            PROVE  wire'[i].of.time <= client'.clock
        <5>1. wire'[i].of.time \in Int
          <6>1. wire' \in Seq(AllUnits)
            BY DEF Whole, WireInv
          <6>2. wire'[i] \in AllUnits
            BY <6>1
          <6> QED BY <6>2 DEF AllUnits, Packets
        <5> QED BY <1>1, <3>1, <4>2, <4>3, <5>1 DEF Until, Timed
      <4>4. ASSUME Dispatching', Timed(Current')
            PROVE  Current'.time <= client'.clock
        <5>1. Current'.time \in Int
          <6>1. packet' \in [0 .. HEADER - 1 -> AllUnits] /\ 0 \in 0 .. HEADER - 1
            BY MirrorAssumption DEF Whole, HeldInv
          <6>2. packet'[0] \in AllUnits
            BY <6>1
          <6> QED BY <6>2 DEF Current, AllUnits, Packets
        <5> QED BY <1>1, <3>1, <4>2, <4>4, <5>1 DEF Until, Timed
      <4> QED BY <4>3, <4>4 DEF Until, Timed
    <3> QED BY <3>2, <3>3
  <2> QED BY <2>1, <2>2
<1> QED BY <1>3, <1>4

-----------------------------------------------------------------------------
(* The parameter sets.                                                     *)

\* Sets that no frame will get stay so, whatever comes to the wire or goes.
LEMMA StaleKept ==
  ASSUME Whole, Whole', ThreadOwnsTheStream, FlagsInv, ClockInv, [Next]_vars, thread' \in Working,
         ~Started, ntp_timestamp_nal' = ntp_timestamp_nal, Stale
  PROVE  Stale'
<1>1. client.clock \in Nat /\ client'.clock \in Nat /\ client.clock <= client'.clock
  BY ClockForward
<1>2. thread \in Working
  BY Kinds, PacketSent, Connected, WireCut DEF Still, GivenUp, Finished, Took, Client, Whole
<1>3. ntp_timestamp_nal \in Int /\ ntp_timestamp_nal < client.clock /\ After(ntp_timestamp_nal)
  BY <1>2 DEF ClockInv, Stale
<1>4. PICK time \in Int : time = ntp_timestamp_nal
  BY <1>3
<1>5. After(time) /\ time < client.clock
  BY <1>3, <1>4
<1>6. After(time)'
  <2>1. CASE \E type \in Types : \E size \in Sizes(type), when \in Times(type) :
               Send(NextPacket(type, size, when))
    BY <1>5, <2>1, BoundsSent
  <2>2. CASE Still \/ GivenUp \/ Finished \/ Connect
             \/ (\E n \in 1 .. Len(wire) : Took(n))
             \/ (\E how \in {"closed", "reset", "timedout"}, n \in 0 .. Len(wire) : End(how, n))
    BY <1>5, <2>2, BoundsKept
  <2> QED BY <2>1, <2>2, Kinds DEF Client
<1>7. After(ntp_timestamp_nal)'
  BY <1>4, <1>6 DEF After, Timed
<1> QED BY <1>1, <1>3, <1>7 DEF Stale

\* The sets the client meant are the sets behind the packet before.
LEMMA BehindSets ==
  ASSUME NEW p, NEW q, Before(p) = Behind(q)
  PROVE  /\ p.sets = IF Frame(q) THEN NoSets ELSE IF Full(q) THEN q.id ELSE q.sets
         /\ p.sets_time = IF Full(q) THEN q.time ELSE q.sets_time
  BY DEF Before, Behind

LEMMA SetsFinished ==
  ASSUME Whole, Whole', ThreadOwnsTheStream, FlagsInv, StreamInv, ClockInv, SetsInv, [Next]_vars,
         PacketsAreWhole, thread' \in Working, ~h265_video_detected', Finished
  PROVE  SetsInv'
<1>1. /\ UNCHANGED <<wire, client, conn>> /\ Dispatching /\ ~Dispatching' /\ thread \in Working
      /\ thread = "dispatch"
  BY DEF Finished, clientside, Dispatching
<1> DEFINE q == Current
           held == IF Frame(q) THEN NoSets ELSE IF Full(q) THEN q.id ELSE q.sets
           time == IF Full(q) THEN q.time ELSE q.sets_time
<1>2. /\ wire # <<>> => wire[1].of.sets = held /\ wire[1].of.sets_time = time
      /\ wire = <<>> /\ conn = "open" => client.sets = held /\ client.sets_time = time
  <2>1. wire # <<>> => Before(wire[1].of) = Behind(Current)
    BY <1>1 DEF StreamInv
  <2>2. wire = <<>> /\ conn = "open" => Now = Behind(Current)
    BY <1>1 DEF StreamInv
  <2>3. Now = Behind(Current) => client.sets = held /\ client.sets_time = time
    BY DEF Now, Behind
  <2> QED BY <2>1, <2>2, <2>3, BehindSets
<1>3. ~FrameDropped /\ ~h265_video_detected
  <2>1. ~FrameDropped
    BY DEF FrameDropped
  <2>2. DispatchOther \/ DispatchSets \/ FrameShown
    BY <2>1 DEF Finished
  <2> QED BY <2>1, <2>2 DEF DispatchOther, DispatchSets, FrameShown, sets
<1>4. /\ prepend_sps_pps <=> sps_pps # NoSets
      /\ \/ sps_pps = q.sets /\ (q.sets # NoSets => ntp_timestamp_nal = q.sets_time)
         \/ q.sets = NoSets /\ Stale
  BY <1>1, <1>3 DEF SetsInv, Agree
<1>5. /\ prepend_sps_pps' <=> sps_pps' # NoSets
      /\ \/ sps_pps' = held /\ (held # NoSets => ntp_timestamp_nal' = time)
         \/ held = NoSets /\ Stale'
  <2>1. CASE DispatchOther
    <3>1. UNCHANGED <<sps_pps, prepend_sps_pps, ntp_timestamp_nal>> /\ ~Frame(q) /\ ~Full(q)
      BY <2>1 DEF DispatchOther, sets, Frame, Full
    <3>2. ~Started
      BY <1>1 DEF Started, SetUp, Idle, FlagsInv
    <3>3. Stale => Stale'
      BY <3>1, <3>2, StaleKept
    <3> QED BY <1>4, <3>1, <3>3
  <2>2. CASE DispatchSets
    <3>1. /\ sps_pps' = payload[0].of.id /\ prepend_sps_pps' = TRUE
          /\ ntp_timestamp_nal' = q.time /\ Full(q) /\ ~Frame(q) /\ q.size > 0
      BY <2>2 DEF DispatchSets, Full, Frame
    <3>2. q \in Packets /\ q.size \in Nat
      BY <1>1, CurrentType
    <3>3. payload[0].of = q
      <4>1. payload = [i \in 0 .. q.size - 1 |-> Unit(q, HEADER + i)]
        BY <1>1 DEF PacketsAreWhole
      <4>2. 0 \in 0 .. q.size - 1
        BY <3>1, <3>2
      <4>3. payload[0] = Unit(q, HEADER + 0)
        BY <4>1, <4>2
      <4> QED BY <4>3 DEF Unit
    <3>4. q.id # NoSets
      BY <3>2 DEF Packets, NoSets, IDS
    <3> QED BY <3>1, <3>3, <3>4
  <2>3. CASE FrameShown
    <3>1. /\ sps_pps' = IF prepend_sps_pps THEN NoSets ELSE sps_pps
          /\ prepend_sps_pps' = FALSE /\ Frame(q)
      BY <2>3 DEF FrameShown
    <3>2. sps_pps' = NoSets
      BY <1>4, <3>1
    <3> QED BY <3>1, <3>2
  <2> QED BY <1>3, <2>1, <2>2, <2>3 DEF Finished
<1> HIDE DEF held, time
<1> QED BY <1>1, <1>2, <1>5 DEF SetsInv, Agree

LEMMA SetsKept ==
  ASSUME Whole, Whole', ThreadOwnsTheStream, FlagsInv, StreamInv, ClockInv, SetsInv, [Next]_vars,
         PacketsAreWhole
  PROVE  SetsInv'
<1> SUFFICES ASSUME thread' \in Working, ~h265_video_detected' PROVE SetsInv'
  BY DEF SetsInv
<1>1. CASE Started
  <2>1. /\ sps_pps' = NoSets /\ prepend_sps_pps' = FALSE
        /\ wire' = <<>> /\ conn' = "none" /\ ~Dispatching'
    BY <1>1 DEF Started, SetUp, start, network, Dispatching
  <2> QED BY <2>1 DEF SetsInv
<1>2. CASE Finished
  BY <1>2, SetsFinished
<1>3. ASSUME UNCHANGED sets, thread \in Working, ~Started
      PROVE  /\ UNCHANGED <<sps_pps, prepend_sps_pps, ntp_timestamp_nal>>
             /\ ~h265_video_detected /\ (prepend_sps_pps <=> sps_pps # NoSets)
             /\ Stale => Stale'
  <2>1. UNCHANGED <<sps_pps, prepend_sps_pps, ntp_timestamp_nal, h265_video_detected>>
    BY <1>3, SMTT(40) DEF sets
  <2> QED BY <1>3, <2>1, StaleKept DEF SetsInv
<1>4. Still \/ GivenUp \/ (\E n \in 1 .. Len(wire) : Took(n)) \/ Client =>
        UNCHANGED sets /\ thread \in Working
  BY ZenonT(60) DEF Still, GivenUp, Took, Client, Connect, Send, End, clientless
<1>5. CASE ~Started /\ Still
  <2>1. UNCHANGED <<wire, client, conn>> /\ Dispatching' = Dispatching /\ Current' = Current
    BY <1>5 DEF Still, clientside
  <2> QED BY <1>3, <1>4, <1>5, <2>1 DEF SetsInv, Agree
<1>6. CASE ~Started /\ GivenUp
  <2>1. wire' = <<>> /\ conn' = "none" /\ ~Dispatching'
    BY <1>6 DEF GivenUp
  <2> QED BY <1>3, <1>4, <1>6, <2>1 DEF SetsInv
<1>7. ASSUME ~Started, NEW n \in 1 .. Len(wire), Took(n)
      PROVE  SetsInv'
  <2>1. /\ ~Dispatching /\ wire[1].of = Current' /\ UNCHANGED <<client, conn>>
        /\ ~Dispatching' => /\ wire' # <<>> => wire'[1].of = Current'
                            /\ wire' = <<>> => conn # "open"
    BY <1>7 DEF Took, clientside
  <2>2. wire # <<>>
    BY <1>7, NextUnit DEF Whole, Took, clientside
  <2>3. Agree(wire[1].of.sets, wire[1].of.sets_time)
    BY <1>3, <1>4, <1>7, <2>1, <2>2 DEF SetsInv
  <2> QED BY <1>3, <1>4, <1>7, <2>1, <2>3 DEF SetsInv, Agree
<1>8. ASSUME ~Started, NEW type \in Types, NEW size \in Sizes(type), NEW time \in Times(type),
             Send(NextPacket(type, size, time))
      PROVE  SetsInv'
  <2> DEFINE p == NextPacket(type, size, time)
  <2>1. /\ p \in Packets /\ wire' = wire \o Units(p) /\ conn = "open"
        /\ Current' = Current /\ Dispatching' = Dispatching
        /\ p.sets = client.sets /\ p.sets_time = client.sets_time
        /\ UNCHANGED <<thread, sets>>
    BY <1>8, PacketSent
  <2> HIDE DEF p
  <2>2. /\ wire' # <<>>
        /\ wire = <<>> => wire'[1].of = p
        /\ wire # <<>> => wire'[1] = wire[1]
    <3>1. /\ Len(wire) \in Nat /\ Len(wire') \in Nat /\ Len(wire') > Len(wire) /\ wire' # <<>>
          /\ \A i \in 1 .. Len(wire) : wire'[i] = wire[i]
          /\ \A i \in Len(wire) + 1 .. Len(wire') : wire'[i].of = p
      BY <2>1, WireSent DEF Whole
    <3>2. wire \in Seq(AllUnits)
      BY DEF Whole, WireInv
    <3>3. wire = <<>> => 1 \in Len(wire) + 1 .. Len(wire')
      BY <3>1
    <3>4. wire # <<>> => 1 \in 1 .. Len(wire)
      BY <3>2
    <3> QED BY <3>1, <3>3, <3>4
  <2>3. CASE Dispatching'
    BY <1>3, <1>8, <2>1, <2>3 DEF SetsInv, Agree
  <2>4. CASE ~Dispatching' /\ wire = <<>>
    BY <1>3, <1>8, <2>1, <2>2, <2>4 DEF SetsInv, Agree
  <2>5. CASE ~Dispatching' /\ wire # <<>>
    BY <1>3, <1>8, <2>1, <2>2, <2>5 DEF SetsInv, Agree
  <2> QED BY <2>3, <2>4, <2>5
<1>9. ASSUME ~Started, NEW how \in {"closed", "reset", "timedout"}, NEW n \in 0 .. Len(wire),
             End(how, n)
      PROVE  SetsInv'
  <2>1. /\ Len(wire) \in Nat /\ (wire' = <<>> <=> n = 0) /\ conn' # "open"
        /\ \A i \in 1 .. n : i \in 1 .. Len(wire) /\ wire'[i] = wire[i]
        /\ Current' = Current /\ Dispatching' = Dispatching
        /\ UNCHANGED <<thread, sets>>
    BY <1>9, WireCut DEF Whole
  <2>2. ASSUME wire' # <<>>
        PROVE  wire # <<>> /\ wire'[1] = wire[1]
    <3>1. 1 \in 1 .. n
      BY <2>1, <2>2
    <3>2. Len(wire) # 0
      BY <2>1, <3>1
    <3> QED BY <2>1, <3>1, <3>2
  <2> QED BY <1>3, <1>9, <2>1, <2>2 DEF SetsInv, Agree
<1>10. CASE ~Started /\ Connect
  <2>1. /\ wire' = <<>> /\ Len(wire') = 0 /\ ~Dispatching' /\ client'.sets = NoSets
        /\ client.clock \in Int /\ client'.clock = client.clock + 1
        /\ UNCHANGED <<thread, sets>>
    BY <1>10, Connected
  <2>2. ntp_timestamp_nal \in Int /\ ntp_timestamp_nal <= client.clock /\ ntp_timestamp_nal' = ntp_timestamp_nal
    BY <1>3, <1>10, <2>1 DEF ClockInv
  <2>3. Stale'
    BY <2>1, <2>2 DEF Stale, After
  <2> QED BY <1>3, <1>10, <2>1, <2>3 DEF SetsInv, Agree
<1> QED BY <1>1, <1>2, <1>5, <1>6, <1>7, <1>8, <1>9, <1>10, Kinds DEF Client

\* A frame is shown behind the sets the client meant for it.
LEMMA ShownBehindItsSets ==
  ASSUME Whole, ClockInv, SetsInv, FrameShown
  PROVE  Prepended = Expected
<1>1. /\ Frame(Current) /\ ~h265_video_detected /\ Dispatching /\ thread \in Working
  BY DEF FrameShown, EndOfPacket, GoTo, Dispatching, Working
<1>2. /\ prepend_sps_pps <=> sps_pps # NoSets
      /\ Agree(Current.sets, Current.sets_time)
  BY <1>1 DEF SetsInv
<1>3. CASE Current.sets = NoSets /\ Stale
  <2>1. ntp_timestamp_nal < Current.time
    BY <1>1, <1>3 DEF Stale, After, Timed, Frame
  <2>2. ntp_timestamp_nal # Current.time
    BY <1>1, <2>1, CurrentType DEF ClockInv
  <2> QED BY <1>3, <2>2 DEF Prepended, SetsApply, Expected
<1>4. CASE sps_pps = Current.sets /\ (Current.sets # NoSets => ntp_timestamp_nal = Current.sets_time)
  BY <1>2, <1>4 DEF Prepended, SetsApply, Expected
<1> QED BY <1>2, <1>3, <1>4 DEF Agree

-----------------------------------------------------------------------------
\* What the thread and the client remember of the stream fits together always.
LEMMA CarriedAlways == Spec => []Carried
<1>1. Init => Carried
  <2> SUFFICES ASSUME Init PROVE Carried
    OBVIOUS
  <2>1. /\ thread = "none" /\ block = 0 /\ nextDecryptCount = 0 /\ 0 \in 0 .. BLOCK - 1
        /\ data_sock = FALSE /\ stream_fd = FALSE /\ conn = "none" /\ rtsp = "idle"
        /\ client.clock = 0
    BY MirrorAssumption DEF Init, NoTime
  <2>2. thread \notin Working
    BY <2>1 DEF Working
  <2> QED BY <2>1, <2>2 DEF Carried, StreamInv, CipherInv, FlagsInv, ClockInv, KeyInv, Comparable, SetsInv
<1>2. Whole /\ ThreadOwnsTheStream /\ Whole' /\ Carried /\ [Next]_vars => Carried'
  BY StreamKept, CipherKept, FlagsKept, ClockKept, KeyKept, SetsKept, WholePackets DEF Carried
<1> QED BY <1>1, <1>2, FramingAlways, PTL DEF Spec

\* mirror_buffer_decrypt is in step with the client's encryption for every frame, for
\* every size of a block and of frames, through any number of streams, connections
\* and packets of other kinds.
THEOREM KeyStreamAlways == Spec => []KeyStreamInStep
<1>1. Whole /\ Carried => KeyStreamInStep
  <2> SUFFICES ASSUME Whole, Carried, thread = "dispatch", carried = 0, ~gap
               PROVE  InStep
    BY DEF KeyStreamInStep
  <2>1. Comparable /\ Dispatching
    BY DEF Whole, HeldInv, Comparable, Dispatching, Working
  <2>2. Current.start = Place
    BY <2>1 DEF Carried, KeyInv
  <2> QED BY <2>2 DEF InStep, Place
<1> QED BY <1>1, CarriedAlways, FramingAlways, PTL

\* raop_rtp_mirror_thread shows a frame behind the parameter sets the client sent for
\* it and no others, for any sizes of packets, any number of streams and connections,
\* and whatever was lost.
THEOREM SetsAlways == Spec => SetsReachTheirFrame
<1>1. Whole /\ Carried /\ [Next]_vars => [FrameShown => Prepended = Expected]_vars
  BY ShownBehindItsSets DEF Carried
<1> QED BY <1>1, CarriedAlways, FramingAlways, PTL DEF Spec, SetsReachTheirFrame

=============================================================================
