---------------------------- MODULE HttpResponse ----------------------------
(***************************************************************************)
(* The answer to one request (lib/http_response.c): a status line, headers *)
(* the handlers add, perhaps a second status line that replaces it all,    *)
(* and the body.  The text is kept as the lengths of its pieces, next to   *)
(* the size of the allocation they are copied into; of the headers, only   *)
(* those that say how the body is framed are told apart.                   *)
(***************************************************************************)
EXTENDS Integers, Sequences

CONSTANTS
  DATA_SIZE,     \* the first allocation (1024)
  StatusLines,   \* lengths of status lines
  HeaderLines,   \* lengths of header lines
  Bodies,        \* lengths of bodies, 0 for none
  HEADERS        \* headers added at most

VARIABLES
  response,      \* NoResponse, or struct http_response_s
  asked          \* the handler had the connection closed after the answer

vars == <<response, asked>>

NoResponse == <<>>

\* The allocation after one more piece.  data_size is what was allocated at
\* first: it is not kept up to date.
Allocated(n) ==
  LET doubled[k \in 0 .. n] ==
        IF k = 0 THEN DATA_SIZE
        ELSE IF DATA_SIZE + n > doubled[k - 1] THEN 2 * doubled[k - 1] ELSE doubled[k - 1]
  IN  doubled[n]

\* http_response_add_data
AddData(r, n) ==
  [r EXCEPT !.data_length = @ + n,
            !.allocated = IF Allocated(n) # DATA_SIZE THEN Allocated(n) ELSE @]

AddHeader(r, name, n) == [AddData(r, n) EXCEPT !.headers = Append(@, name)]

-----------------------------------------------------------------------------
Init == response = NoResponse /\ asked = FALSE

\* http_response_create and http_response_init
Create ==
  /\ response = NoResponse
  /\ \E n \in StatusLines :
       response' = <<AddData([data_length |-> 0, allocated |-> DATA_SIZE, headers |-> <<>>,
                              body |-> 0, complete |-> FALSE, disconnect |-> FALSE], n)>>
  /\ UNCHANGED asked

Cleared(r) == [r EXCEPT !.data_length = 0, !.headers = <<>>]

\* http_response_init on an answer that was begun: 470 instead of 200.
Reinit ==
  /\ response # NoResponse /\ ~response[1].complete
  /\ \E n \in StatusLines : response' = <<AddData(Cleared(response[1]), n)>>
  /\ UNCHANGED asked

http_response_add_header ==
  /\ response # NoResponse /\ ~response[1].complete
  /\ Len(response[1].headers) < HEADERS
  /\ \E n \in HeaderLines, name \in {"Content-Type", "other"} :
       /\ name = "Content-Type" =>
            \A i \in 1 .. Len(response[1].headers) : response[1].headers[i] # name
       /\ response' = <<AddHeader(response[1], name, n)>>
  /\ UNCHANGED asked

http_response_set_disconnect ==
  /\ response # NoResponse /\ ~response[1].complete
  /\ response' = <<[response[1] EXCEPT !.disconnect = TRUE]>>
  /\ asked' = TRUE

HasType(r) == \E i \in 1 .. Len(r.headers) : r.headers[i] = "Content-Type"

\* Slip: a body of no bytes is left without a length.
MutFinished(r, n) ==
  IF n > 0 THEN [AddData(AddHeader(r, "Content-Length", 1), n) EXCEPT !.body = n]
  ELSE AddData(r, 1)

\* The length, the empty line, and the body.
Finished(r, n) ==
  IF n > 0 THEN [AddData(AddHeader(r, "Content-Length", 1), n) EXCEPT !.body = n]
  ELSE IF HasType(r) THEN AddData(AddHeader(r, "Content-Length", 1), 1)
  ELSE AddData(r, 1)

http_response_finish ==
  /\ response # NoResponse /\ ~response[1].complete
  /\ \E n \in Bodies :
       response' = <<[Finished(response[1], n) EXCEPT !.complete = TRUE]>>
  /\ UNCHANGED asked

\* Sent, and then destroyed.
http_response_destroy ==
  /\ response # NoResponse /\ response[1].complete
  /\ response' = NoResponse
  /\ asked' = FALSE

Next ==
  \/ Create \/ Reinit \/ http_response_add_header \/ http_response_set_disconnect
  \/ http_response_finish \/ http_response_destroy

Spec == Init /\ [][Next]_vars

-----------------------------------------------------------------------------
\* Every piece is copied inside the allocation, as long as the status line
\* and the headers fit the first allocation: the stale data_size only works
\* because the body, the one large piece, comes last.  That is up to the client:
\* its CSeq becomes a header of the answer, however long it is (raop.c line 295),
\* and an answer whose text is longer is excepted.  A finished answer has
\* the length of its body announced once, and last, whenever the client will
\* look for a body; and a connection is closed after the answer only, and
\* always, when the handler asked for it.
ResponseIsWhole ==
  response # NoResponse =>
    LET r == response[1]
        count == Len(r.headers)
    IN  /\ r.data_length - r.body <= DATA_SIZE => r.data_length <= r.allocated
        /\ r.complete /\ (r.body > 0 \/ HasType(r)) =>
             /\ r.headers[count] = "Content-Length"
             /\ \A i \in 1 .. count - 1 : r.headers[i] # "Content-Length"
        /\ r.disconnect = asked
=============================================================================
