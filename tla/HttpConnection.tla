--------------------------- MODULE HttpConnection ---------------------------
(***************************************************************************)
(* One client's connection as the httpd thread serves it (lib/httpd.c,     *)
(* conn_request of lib/raop.c): bytes arrive in pieces of any size, a      *)
(* parser is made when a request begins and thrown away when it is         *)
(* complete, whatever else the same piece held; the request is answered.   *)
(* What serving a request does to the receiver is in AirPlaySession.       *)
(***************************************************************************)
EXTENDS Llhttp

CONSTANTS
  Requests,      \* what clients send: bytes, and what they mean if they are valid
  BUFFER,        \* units one call of recv takes at most (1024 characters), not 0
  Behind         \* those of them it may send right behind another one

VARIABLES
  conn,          \* "open", "removed", or "crashed": the program has ended
  known,         \* the connection's type is set
  parser,        \* the request begun, or NoParser
  wire,          \* units sent and not received
  sent,          \* requests sent and not answered
  whole,         \* the piece that began the present request held its first line
  served         \* the request just served: what it was, what was made of it

vars == <<conn, known, parser, wire, sent, whole, served>>

NoParser == [node |-> "none"]
Nothing == [asked |-> "nothing"]

Init ==
  /\ conn = "open"
  /\ known = FALSE
  /\ parser = NoParser
  /\ wire = <<>>
  /\ sent = <<>>
  /\ whole = FALSE
  /\ served = Nothing

\* The client sends a request.  It sends another one before the answer only
\* behind one that asks for no persistent connection, as RTSP's do.
Send ==
  /\ conn = "open"
  /\ \E r \in Requests :
       /\ \/ sent = <<>>
          \/ Len(sent) = 1 /\ sent[1].valid /\ ~sent[1].persistent /\ r \in Behind
       /\ sent' = Append(sent, r)
       /\ wire' = wire \o r.bytes
  /\ served' = Nothing
  /\ UNCHANGED <<conn, known, parser, whole>>

Response(r, code) ==
  [code |-> code, protocol |-> r.protocol,
   cseq |-> http_request_get_header(r, <<"CSeq">>)]

\* httpd_remove_connection; the client has to connect again.
RemoveConnection ==
  /\ conn' = "removed"
  /\ parser' = NoParser
  /\ wire' = <<>>
  /\ sent' = <<>>
  /\ known' = FALSE
  /\ served' = Nothing
  /\ whole' = FALSE

\* conn_request: without a CSeq there is no answer; a client that comes
\* second is refused before that is looked at, and the CSeq copied.
Serve(p, refused) ==
  LET r == p.request
      answer == CASE refused -> Response(r, 409)
                  [] http_request_get_header(r, <<"CSeq">>) = Null -> [code |-> 0]
                  [] OTHER -> Response(r, 200)
  IN  /\ served' = [asked |-> Head(sent), whole |-> whole', made |-> r, answer |-> answer]
      /\ known' = ~refused
      /\ parser' = NoParser
      /\ sent' = Tail(sent)
      /\ IF refused /\ answer.cseq = Null
         THEN conn' = "crashed"       \* assert(value) or strlen(NULL)
         ELSE conn' = conn

\* The units up to the end of the first line.
FirstLine(r) == CHOOSE n \in 1..Len(r.bytes) :
                  r.bytes[n] = LF /\ \A i \in 1..(n - 1) : r.bytes[i] # LF

Fed(n) ==
  LET buf == SubSeq(wire, 1, n)
  IN  llhttp_resume_after_upgrade(
        llhttp_execute(IF parser = NoParser THEN NewParser ELSE parser, buf))

\* A piece is parsed without error: the request it completes is served, and
\* a second client refused as long as its connection has no type.
Take(n) ==
  /\ wire' = SubSeq(wire, n + 1, Len(wire))
  /\ whole' = IF parser = NoParser THEN n >= FirstLine(Head(sent)) ELSE whole
  /\ LET p == Fed(n) IN
       /\ p.error = "OK"
       /\ \/ /\ p.request.complete
             /\ \E refused \in IF known THEN {FALSE} ELSE BOOLEAN : Serve(p, refused)
          \/ /\ ~p.request.complete
             /\ parser' = p
             /\ served' = Nothing
             /\ UNCHANGED <<conn, known, sent>>

\* Slip: what could not be parsed is dropped, and the connection kept.
MutBreak(n) ==
  /\ Fed(n).error # "OK"
  /\ wire' = SubSeq(wire, n + 1, Len(wire)) /\ parser' = NoParser /\ served' = Nothing
  /\ UNCHANGED <<conn, known, sent, whole>>

\* An error ends the connection, even one behind a complete request.
Break(n) ==
  /\ RemoveConnection
  /\ Fed(n).error # "OK"

Recv ==
  /\ conn = "open"
  /\ \E n \in 1..BUFFER : n <= Len(wire) /\ (Take(n) \/ Break(n))

\* The client closes in the middle of a request.
Close == conn = "open" /\ RemoveConnection

\* A new connection is a new conn structure, with no type and no request.
Connect ==
  /\ conn = "removed"
  /\ conn' = "open"
  /\ UNCHANGED <<known, parser, wire, sent, whole, served>>

Next == Send \/ Recv \/ Close \/ Connect

Spec == Init /\ [][Next]_vars /\ WF_vars(Recv)

-----------------------------------------------------------------------------
TypeOK ==
  /\ conn \in {"open", "removed", "crashed"}
  /\ known \in BOOLEAN /\ whole \in BOOLEAN
  /\ sent \in Seq(Requests) /\ Len(sent) <= 2
  /\ parser # NoParser => parser.error = "OK" /\ ~parser.request.complete

\* What a new parser makes of a request, or of the beginning of one, that comes
\* in one piece.
OfOnePiece(bytes) == llhttp_execute(NewParser, bytes)

\* What is to be shown of requests in pieces holds of one that comes whole: it
\* is complete with its last byte and not before, and then it is what it means;
\* its protocol is there when its first line is; behind one that asks for no
\* persistent connection the parser is closed.  One that is no request is never
\* complete, and none begins with the end of a line.
Understood(r) ==
  /\ r.bytes \in Seq(STRING \ {"null"}) /\ r.bytes # <<>> /\ r.bytes[1] \notin {CR, LF}
  /\ \A n \in 1..Len(r.bytes) :
       OfOnePiece(SubSeq(r.bytes, 1, n)).request.complete => r.valid /\ n = Len(r.bytes)
  /\ r.valid =>
       LET p == OfOnePiece(r.bytes) IN
       /\ p.error \in {"OK", "PAUSED_UPGRADE"} /\ p.request.complete
       /\ p.request.name = r.means.method /\ p.request.url = r.means.url
       /\ p.request.headers = r.means.headers /\ p.request.data = r.means.body
       /\ r.persistent \/ (p.error = "OK" /\ p.node = "closed")
       /\ \E k \in 1..Len(r.bytes) : r.bytes[k] = LF
       /\ \A n \in FirstLine(r)..Len(r.bytes) :
            OfOnePiece(SubSeq(r.bytes, 1, n)).request.protocol = r.protocol

\* What is served is what the client sent, in its order, however its bytes
\* were cut: the method, the URL, every header and the body; and a request
\* line that arrived whole gives its protocol to the answer, and no byte of
\* another message (http_request.c:45-135, the spans of llhttp.c).  A request
\* that is none is never served: an unknown method or version, a length that
\* does not fit 64 bits, two lengths, a length together with an encoding, an
\* encoding that does not end in chunks (llhttp.c, http.c:58).
ServedAsSent ==
  served # Nothing =>
    LET asked == served.asked.means IN
    /\ served.asked.valid
    /\ served.whole => served.made.protocol = served.asked.protocol
    /\ served.made.name = asked.method
    /\ served.made.url = asked.url
    /\ served.made.headers = asked.headers
    /\ served.made.data = asked.body

\* Whatever is sent is served or ends the connection.
RequestsAreSettled == [](sent # <<>> => <>(served # Nothing \/ conn # "open"))
=============================================================================
