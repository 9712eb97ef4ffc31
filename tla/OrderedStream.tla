--------------------------- MODULE OrderedStream ---------------------------
(***************************************************************************)
(* What the RAOP jitter buffer promises to the audio thread, without       *)
(* sequence-number arithmetic or slots: packets carry their place in the   *)
(* sender's stream, are held until their turn, and are played at most once *)
(* and in stream order.  A missing packet is given up only when a later    *)
(* one is already held, and while retransmissions are possible only when   *)
(* the window has no room left to wait in.                                 *)
(***************************************************************************)
EXTENDS Integers

CONSTANTS
  Window,                      \* how far ahead of the next packet one may be held
  Packets                      \* the places in the sender's stream

VARIABLES
  started,                     \* a first packet fixed where the stream begins
  next,                        \* the place of the packet whose turn it is
  held,                        \* packets received and not yet played
  out                          \* the packet played last

stream == <<started, next, held, out>>

Init ==
  /\ started = FALSE
  /\ next = 0
  /\ held = {}
  /\ out = -1

\* The first packet of a stream fixes the place where playing begins.
Begin(p) ==
  /\ ~started
  /\ started' = TRUE
  /\ next' = p
  /\ held' = {p}
  /\ UNCHANGED out

\* A packet within the window is kept until its turn.
Accept(p) ==
  /\ started
  /\ p \in next .. next + Window - 1
  /\ p \notin held
  /\ held' = held \cup {p}
  /\ UNCHANGED <<started, next, out>>

\* A packet beyond the window abandons everything before it.
Jump(p) ==
  /\ started
  /\ p >= next + Window
  /\ next' = p
  /\ held' = {p}
  /\ UNCHANGED <<started, out>>

\* The packet whose turn it is goes to the renderer and is never held again.
Play ==
  /\ next \in held
  /\ out' = next
  /\ held' = held \ {next}
  /\ next' = next + 1
  /\ UNCHANGED started

\* The missing packet is given up for a later one.
Skip(no_resend) ==
  /\ next \notin held
  /\ held # {}
  /\ no_resend \/ next + Window - 1 \in held
  /\ next' = next + 1
  /\ UNCHANGED <<started, held, out>>

\* The session ends: nothing of it may be played in the next one.
Reset ==
  /\ started' = FALSE
  /\ held' = {}
  /\ UNCHANGED <<next, out>>

Next ==
  \/ \E p \in Packets : Begin(p) \/ Accept(p) \/ Jump(p)
  \/ Play
  \/ \E no_resend \in BOOLEAN : Skip(no_resend)
  \/ Reset

Spec == Init /\ [][Next]_stream
=============================================================================
