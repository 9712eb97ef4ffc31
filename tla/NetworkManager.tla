--------------------------- MODULE NetworkManager ---------------------------
(***************************************************************************)
(* The sound service between the client program and the server program     *)
(* (default/networkmanager/NetworkManager.cpp with main.cpp).  A client    *)
(* connects, again and again until the server listens, hands its           *)
(* NetworkManager to a detached thread that sends one sound and waits for  *)
(* the answer, and then leaves the scope that owns the NetworkManager,     *)
(* whose destructor closes the socket at any point of that thread.  The    *)
(* server has one thread for each connection; they share the transcriber.  *)
(*                                                                         *)
(* TCP keeps the units of a stream in order and delivers them in any       *)
(* pieces.  A unit of the header stands for the part that ends in one of   *)
(* the places that make a difference to session(); a unit of a sound is    *)
(* some bytes, and is zero or not.  Requests fit the 1024 bytes of the     *)
(* first recv, as the one that main.cpp sends does.                        *)
(***************************************************************************)
EXTENDS Integers, Sequences

CONSTANTS
  Speakers,     \* client programs
  Sounds        \* what they send: sequences of bytes, 0 for a zero byte

VARIABLES
  listening,    \* the server is at runServer
  sound,        \* speaker -> its sound
  owner,        \* speaker -> networkThread: "connecting", "scope", "gone"
  speech,       \* speaker -> NetworkSpeechThread
  sd,           \* speaker -> the client's end of its connection
  wire,         \* speaker -> units sent and not received
  session,      \* speaker -> the server's thread for it
  lock,         \* who is in transcribeLiveData, or "free"
  heard         \* speaker -> what was transcribed, or Nothing

vars == <<listening, sound, owner, speech, sd, wire, session, lock, heard>>

Nothing == <<-1>>
TOP == 10       \* the first three bytes of the header
LENGTH == 11    \* up to the end of "Content-Length: "
VALUE == 12     \* the value, or what came of it
BLANK == 13     \* up to the end of the empty line
Header == <<TOP, LENGTH, VALUE, BLANK>>

NoSession == [pc |-> "none", got |-> <<>>, remaining |-> 0]

Init ==
  /\ listening = FALSE
  /\ sound \in [Speakers -> Sounds]
  /\ owner = [c \in Speakers |-> "connecting"]
  /\ speech = [c \in Speakers |-> "none"]
  /\ sd = [c \in Speakers |-> "closed"]
  /\ wire = [c \in Speakers |-> <<>>]
  /\ session = [c \in Speakers |-> NoSession]
  /\ lock = "free"
  /\ heard = [c \in Speakers |-> Nothing]

-----------------------------------------------------------------------------
\* The client program

\* connectToServer, after any number of attempts five seconds apart.
Connect(c) ==
  /\ owner[c] = "connecting" /\ listening
  /\ owner' = [owner EXCEPT ![c] = "scope"]
  /\ sd' = [sd EXCEPT ![c] = "open"]
  /\ session' = [session EXCEPT ![c].pc = "backlog"]
  /\ speech' = [speech EXCEPT ![c] = "header"]
  /\ UNCHANGED <<listening, sound, wire, lock, heard>>

\* ~NetworkManager at the end of networkThread.  Closing does not wake a
\* recv, and the connection lives as long as that recv.
LeaveScope(c) ==
  /\ owner[c] = "scope"
  /\ owner' = [owner EXCEPT ![c] = "gone"]
  /\ sd' = [sd EXCEPT ![c] = IF speech[c] = "recv" THEN "held" ELSE "closed"]
  /\ UNCHANGED <<listening, sound, speech, wire, session, lock, heard>>

\* One send of sendSoundData; on a closed socket it fails, which is not seen.
Send(c, at, units, then) ==
  /\ speech[c] = at
  /\ speech' = [speech EXCEPT ![c] = then]
  /\ wire' = [wire EXCEPT ![c] =
                IF sd[c] = "open" /\ session[c].pc # "closed" THEN @ \o units ELSE @]
  /\ UNCHANGED <<listening, sound, owner, sd, session, lock, heard>>

SendHeader(c) == Send(c, "header", Header, "body")

\* The first send to a server that closed is answered with a reset, and once
\* that is there the send that goes on raises SIGPIPE, which nobody ignores.
Killed(c) ==
  /\ speech[c] = "body" /\ sd[c] = "open" /\ session[c].pc = "closed"
  /\ speech' = [speech EXCEPT ![c] = "killed"]
  /\ owner' = [owner EXCEPT ![c] = "gone"]
  /\ sd' = [sd EXCEPT ![c] = "closed"]
  /\ UNCHANGED <<listening, sound, wire, session, lock, heard>>

SendBody(c) == Send(c, "body", sound[c], "receive") \/ Killed(c)

\* receiveResponse goes into recv, or fails because the socket is closed.
EnterRecv(c) ==
  /\ speech[c] = "receive"
  /\ speech' = [speech EXCEPT ![c] = IF sd[c] = "open" THEN "recv" ELSE "done"]
  /\ UNCHANGED <<listening, sound, owner, sd, wire, session, lock, heard>>

\* recv returns: with the answer, or because the server closed.
LeaveRecv(c) ==
  /\ speech[c] = "recv" /\ session[c].pc = "closed"
  /\ speech' = [speech EXCEPT ![c] = "done"]
  /\ sd' = [sd EXCEPT ![c] = IF @ = "held" THEN "closed" ELSE @]
  /\ UNCHANGED <<listening, sound, owner, wire, session, lock, heard>>

-----------------------------------------------------------------------------
\* The server program

RunServer ==
  /\ ~listening
  /\ listening' = TRUE
  /\ UNCHANGED <<sound, owner, speech, sd, wire, session, lock, heard>>

acceptClient(c) ==
  /\ session[c].pc = "backlog"
  /\ session' = [session EXCEPT ![c].pc = "first"]
  /\ UNCHANGED <<listening, sound, owner, speech, sd, wire, lock, heard>>

\* recv takes some of what came, and nothing when the client's end is gone.
Received(c, n) ==
  /\ IF wire[c] = <<>> THEN n = 0 /\ sd[c] = "closed" ELSE n \in 1 .. Len(wire[c])
  /\ wire' = [wire EXCEPT ![c] = SubSeq(@, n + 1, Len(@))]
  /\ UNCHANGED <<listening, sound, owner, speech, sd, lock, heard>>

\* std::string request(buffer) ends at the first zero byte.
Request(piece) ==
  LET ends == {i \in 1 .. Len(piece) : piece[i] = 0}
  IN  IF ends = {} THEN piece
      ELSE SubSeq(piece, 1, (CHOOSE i \in ends : \A j \in ends : i <= j) - 1)

\* The first recv of session(): the header and what of the sound came with
\* it.  Without "Content-Length: " the answer is 400; a value that did not
\* come makes stoi throw, and nobody catches that; one that was cut is a
\* smaller length.  Without the empty line the data starts three bytes into
\* the request: the rest of the header is taken for the start of the sound,
\* or, when it is longer than that, copied past the end of it, and the number
\* of bytes to read underflows.
FirstRecv(c) ==
  /\ session[c].pc = "first"
  /\ \E n \in 0 .. Len(wire[c]), length \in 0 .. Len(sound[c]) :
       /\ Received(c, n)
       /\ n # 3 => length = Len(sound[c])
       /\ LET request == Request(SubSeq(wire[c], 1, n))
              start == IF n < Len(Header) THEN 2 ELSE Len(Header) + 1
              data == SubSeq(request, start, Len(request))
          IN  session' = [session EXCEPT ![c] =
                IF n < 2 THEN [@ EXCEPT !.pc = "answer"]
                ELSE IF n = 2 THEN [@ EXCEPT !.pc = "terminate"]
                ELSE IF Len(data) > length THEN [@ EXCEPT !.pc = "overrun", !.got = data]
                ELSE [pc |-> "rest", got |-> data, remaining |-> length - Len(data)]]

\* What an overrun of the heap leads to: the end of the process, or a session
\* that reads, and writes on, until the client is gone.
Overrun(c) ==
  /\ session[c].pc = "overrun"
  /\ \/ session' = [session EXCEPT ![c].pc = "terminate"] /\ UNCHANGED wire
     \/ /\ wire[c] = <<>> /\ sd[c] = "closed"
        /\ session' = [session EXCEPT ![c].pc = "closed"] /\ UNCHANGED wire
     \/ /\ wire[c] # <<>>
        /\ wire' = [wire EXCEPT ![c] = <<>>] /\ UNCHANGED session
  /\ UNCHANGED <<listening, sound, owner, speech, sd, lock, heard>>

\* Slip: a piece that ends the connection early counts as the rest.
MutRest(s, piece) ==
  IF Len(piece) > s.remaining THEN [s EXCEPT !.pc = "overrun"]
  ELSE [s EXCEPT !.got = @ \o piece,
                 !.remaining = IF piece = <<>> THEN 0 ELSE @ - Len(piece)]

\* Slip: only an error ends the session, not the end of the connection.
MutReadOn(s, piece) ==
  IF Len(piece) > s.remaining THEN [s EXCEPT !.pc = "overrun"]
  ELSE [s EXCEPT !.got = @ \o piece, !.remaining = @ - Len(piece)]

\* A recv takes all that fits its buffer, which is more than what remains when
\* header counts as sound.
Rest(s, piece) ==
  IF piece = <<>> THEN [s EXCEPT !.pc = "closed"]
  ELSE IF Len(piece) > s.remaining THEN [s EXCEPT !.pc = "overrun"]
  ELSE [s EXCEPT !.got = @ \o piece, !.remaining = @ - Len(piece)]

RestRecv(c) ==
  /\ session[c].pc = "rest" /\ session[c].remaining > 0
  /\ \E n \in 0 .. Len(wire[c]) :
       /\ Received(c, n)
       /\ session' = [session EXCEPT ![c] = Rest(@, SubSeq(wire[c], 1, n))]

\* processSoundData: transcribeLiveData holds the transcriber's mutex.
Transcribe(c) ==
  /\ session[c].pc = "rest" /\ session[c].remaining = 0
  /\ lock = "free" /\ lock' = c
  /\ session' = [session EXCEPT ![c].pc = "transcribe"]
  /\ UNCHANGED <<listening, sound, owner, speech, sd, wire, heard>>

Unlocked(c) == "free"

Transcribed(c) ==
  /\ session[c].pc = "transcribe"
  /\ heard' = [heard EXCEPT ![c] = session[c].got]
  /\ session' = [session EXCEPT ![c] = [NoSession EXCEPT !.pc = "answer"]]
  /\ lock' = Unlocked(c)
  /\ UNCHANGED <<listening, sound, owner, speech, sd, wire>>

\* sendHttpResponse, in two sends, and closeSocket.  Of a sound, the answer is
\* processedData, which the server program never wrote: only the length is
\* right.  If the client's end is gone the first send is answered with a
\* reset, and once that is there the second raises SIGPIPE, which nobody
\* ignores.
Answer(c) ==
  /\ session[c].pc = "answer"
  /\ \E pc \in IF sd[c] = "closed" THEN {"closed", "terminate"} ELSE {"closed"} :
       session' = [session EXCEPT ![c].pc = pc]
  /\ UNCHANGED <<listening, sound, owner, speech, sd, wire, lock, heard>>

Serve(c) ==
  \/ acceptClient(c) \/ FirstRecv(c) \/ Overrun(c) \/ RestRecv(c)
  \/ Transcribe(c) \/ Transcribed(c) \/ Answer(c)
Speak(c) == SendHeader(c) \/ SendBody(c) \/ EnterRecv(c) \/ LeaveRecv(c)

\* Once a thread of the server throws or is sent a signal, the server is gone.
Up == \A c \in Speakers : session[c].pc # "terminate"

Next ==
  /\ Up
  /\ \/ RunServer
     \/ \E c \in Speakers : Connect(c) \/ LeaveScope(c) \/ Speak(c) \/ Serve(c)

Fairness ==
  /\ WF_vars(Up /\ RunServer)
  /\ \A c \in Speakers :
       /\ WF_vars(Up /\ Connect(c)) /\ WF_vars(Up /\ LeaveScope(c))
       /\ WF_vars(Up /\ Speak(c)) /\ SF_vars(Up /\ Serve(c))

Spec == Init /\ [][Next]_vars /\ Fairness

-----------------------------------------------------------------------------
\* The threads, the sockets and the transcriber are in states of their kind.
TypeOK ==
  /\ lock \in Speakers \cup {"free"}
  /\ \A c \in Speakers :
       /\ owner[c] \in {"connecting", "scope", "gone"}
       /\ sd[c] \in {"closed", "open", "held"}
       /\ sd[c] = "held" => speech[c] = "recv"
       /\ session[c].remaining \in 0 .. Len(sound[c])
       /\ lock = c <=> session[c].pc = "transcribe"

\* Whatever the pieces, and whenever the client's socket is closed under its
\* own thread: what is transcribed is the whole sound the speaker sent, never
\* a part of it, nor bytes that were not received.  The exception is a header
\* that came in pieces (NetworkManager.cpp lines 352-378): then a stretch of
\* the request that begins in the header may be heard, never one longer than
\* the sound.
HeardAsSent ==
  \A c \in Speakers :
    \/ heard[c] \in {Nothing, sound[c]}
    \/ \E length \in 1 .. Len(sound[c]) :
         heard[c] = SubSeq(Header \o sound[c], 2, length + 1)

ZeroFree(c) == \A i \in 1 .. Len(sound[c]) : sound[c][i] # 0

\* What the session took for sound begins in the header.
Mixed(c) == session[c].got # <<>> /\ session[c].got[1] = LENGTH

\* A session that found a length comes to its end and closes, if the sound has
\* no zero byte: also when the socket is closed between the two sends, and when
\* another session is transcribing.  A zero byte in the first piece lets
\* session() wait for bytes that were there, while the client waits for the
\* answer; and one that took header for sound may read past the end of it.
SoundsAreServed ==
  \A c \in Speakers :
    (session[c].pc = "rest" /\ ZeroFree(c)) ~>
      (session[c].pc = "closed" \/ ~Up \/ (session[c].pc = "overrun" /\ Mixed(c)))
=============================================================================
