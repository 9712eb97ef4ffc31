------------------------------- MODULE Llhttp -------------------------------
(***************************************************************************)
(* The request parser lib/llhttp/llhttp.c, with http.c and api.c, as it is *)
(* set up by http_request_init: type HTTP_REQUEST, no lenient flag, no     *)
(* callback but those of module HttpRequest.  The generated code is a      *)
(* graph of nodes.  A node that looks at a character is an operator here,  *)
(* which takes the parser and the next unit and gives the parser after it; *)
(* nodes that only test or set something are part of the node before them. *)
(*                                                                         *)
(* A parser is a record: the node where it waits, what it knows of the     *)
(* message, and while it runs the buffer, the index p of the unit it looks *)
(* at and the start of the open span.                                      *)
(***************************************************************************)
EXTENDS HttpRequest, FiniteSets

CONSTANT MAXLEN       \* the largest 64-bit number, not 0

\* Names of methods are in two units, the characters up to where the names
\* part and the rest, so that recv may end inside one.
Methods == {<<"GE", "T">>, <<"PO", "ST">>, <<"CONN", "ECT">>, <<"SOUR", "CE">>,
            <<"PR", "I">>, <<"DELE", "TE">>, <<"SET", "UP">>, <<"REC", "ORD">>}
\* Methods that may be followed by "RTSP/" and those that may by "HTTP/".
RtspMethods == {<<"GE", "T">>, <<"PO", "ST">>, <<"SET", "UP">>, <<"REC", "ORD">>}
HttpMethods == Methods \ {<<"SET", "UP">>, <<"REC", "ORD">>}

Digits == <<"0", "1", "2", "3", "4", "5", "6", "7", "8", "9", "A", "F">>
Value(u) == IF u = "A" THEN 10 ELSE IF u = "F" THEN 15
            ELSE (CHOOSE d \in 1..10 : Digits[d] = u) - 1
Decimal == {Digits[d] : d \in 1..10}
Hex == Decimal \cup {"A", "F"}
CR == "\r"
LF == "\n"
SP == " "
HT == "\t"
SEMICOLON == ";"
COMMA == ","
Blank == {SP, HT}
Letters == {"s"}
\* What may stand in a path, in a header's name and in a header's value.
Url == {"/", "u", "s", "@", "*", ":", "1"}
Names == {"con", "nection", "tent-length", "transfer-encoding", "upgrade", "x", "CSeq"}
Printable == Names \cup Decimal \cup Letters \cup {"chunked", "keep-alive", "close",
             COMMA, SP, HT, "/", "u", "*", ":", SEMICOLON}

NewParser ==
  [node |-> "start", error |-> "OK", flags |-> {}, header_state |-> "general",
   content_length |-> 0, method |-> <<"null">>, major |-> 0, minor |-> 0,
   upgrade |-> FALSE, seen |-> "", span |-> "none", start |-> 0,
   buf |-> <<>>, p |-> 0, request |-> EmptyRequest]

To(s, node) == [s EXCEPT !.node = node]
Header(s, state) == [s EXCEPT !.header_state = state]
Fail(s, error) == [s EXCEPT !.error = error]

\* A span starts at the present unit, and ends before it.
SpanStart(s, kind) == [s EXCEPT !.span = kind, !.start = s.p]

SpanCallback(s, last) ==
  LET text == SubSeq(s.buf, s.start, last)
      after == SubSeq(s.buf, last + 1, Len(s.buf))
  IN  CASE s.span = "url" -> [s EXCEPT !.request = on_url(@, text, after)]
        [] s.span = "field" -> [s EXCEPT !.request = on_header_field(@, text)]
        [] s.span = "value" -> [s EXCEPT !.request = on_header_value(@, text)]
        [] s.span = "body" -> [s EXCEPT !.request = on_body(@, text)]
        [] OTHER -> s

SpanEnd(s) == [SpanCallback(s, s.p - 1) EXCEPT !.span = "none"]

-----------------------------------------------------------------------------
\* http.c

llhttp__before_headers_complete(s) ==
  [s EXCEPT !.upgrade = IF {"upgrade", "connection_upgrade"} \subseteq s.flags
                        THEN TRUE ELSE s.method = <<"CONN", "ECT">>]

AfterHeaders(s) ==
  LET hasBody == "chunked" \in s.flags \/ s.content_length > 0
  IN  CASE s.upgrade /\ (s.method = <<"CONN", "ECT">> \/ ~hasBody) -> "pause"
        [] "chunked" \in s.flags -> "chunk_size_start"
        [] "transfer_encoding" \in s.flags -> "invalid"
        [] "content_length" \notin s.flags \/ s.content_length = 0 -> "no_body"
        [] OTHER -> "body_identity"

llhttp_should_keep_alive(s) ==
  IF s.major > 0 /\ s.minor > 0 THEN "close" \notin s.flags
                                ELSE "keep_alive" \in s.flags

llhttp__after_message_complete(s) ==
  IF llhttp_should_keep_alive(s)
  THEN [s EXCEPT !.flags = {}, !.content_length = 0, !.node = "start"]
  ELSE [s EXCEPT !.flags = {}, !.node = "closed"]

\* The message is complete; with an upgrade the parser pauses.
MessageComplete(s) == [s EXCEPT !.request = on_message_complete(@, s.method)]

PauseUpgrade(s) == [s EXCEPT !.error = "PAUSED_UPGRADE", !.node = "after_message_complete"]

CompleteBody(s) ==
  LET c == MessageComplete(s)
  IN  IF c.upgrade THEN PauseUpgrade(c) ELSE llhttp__after_message_complete(c)

\* The checks of overflow before multiplying and before adding.
MulAdd(s, base, u) ==
  IF s.content_length > MAXLEN \div base THEN Fail(s, "overflow")
  ELSE IF s.content_length * base > MAXLEN - Value(u) THEN Fail(s, "overflow")
  ELSE [s EXCEPT !.content_length = @ * base + Value(u)]

HeadersComplete(s) ==
  LET h == llhttp__before_headers_complete(s)
      next == AfterHeaders(h)
  IN  CASE next = "pause" -> PauseUpgrade(MessageComplete(h))
        [] next = "chunk_size_start" -> [h EXCEPT !.content_length = 0, !.node = "chunk_size_digit"]
        [] next = "body_identity" -> To(h, "body_identity")
        [] next = "invalid" -> Fail(h, "INVALID_TRANSFER_ENCODING")
        [] OTHER -> llhttp__after_message_complete(MessageComplete(h))

-----------------------------------------------------------------------------
\* Bodies

Closed(s, u) == IF u \in {CR, LF} THEN s ELSE Fail(s, "CLOSED_CONNECTION")

\* One unit of a body of known length; after the last one the callback runs.
Consume(s) ==
  LET o == IF s.span = "body" THEN s ELSE SpanStart(s, "body")
      c == [o EXCEPT !.content_length = @ - 1]
  IN  IF c.content_length = 0 THEN [SpanCallback(c, c.p) EXCEPT !.span = "none"] ELSE c

BodyIdentity(s, u) ==
  LET c == Consume(s) IN IF c.content_length = 0 THEN CompleteBody(c) ELSE c

ChunkData(s, u) ==
  LET c == Consume(s) IN IF c.content_length = 0 THEN To(c, "chunk_data_almost_done") ELSE c

ChunkDataAlmostDone(s, u) ==
  CASE u = CR /\ s.node = "chunk_data_almost_done" -> To(s, "chunk_data_almost_done_1")
    [] u = LF /\ s.node = "chunk_data_almost_done_1" ->
         [s EXCEPT !.content_length = 0, !.node = "chunk_size_digit"]
    [] OTHER -> Fail(s, "STRICT")

ChunkSizeAlmostDone(s, u) ==
  CASE u # LF -> Fail(s, "STRICT")
    [] s.content_length = 0 -> [s EXCEPT !.flags = @ \cup {"trailing"}, !.node = "header_field_start"]
    [] OTHER -> To(s, "chunk_data")

ChunkExtensionQuoted(s, u) ==
  CASE s.node = "chunk_extension_quoted_value" ->
         IF u = "quote" THEN To(s, "chunk_extension_quoted_value_done")
         ELSE IF u \in Printable THEN s ELSE Fail(s, "STRICT")
    [] u = CR -> To(s, "chunk_size_almost_done")
    [] u = SEMICOLON -> To(s, "chunk_extensions")
    [] OTHER -> Fail(s, "STRICT")

ChunkExtensionValue(s, u) ==
  CASE u = CR -> To(s, "chunk_size_almost_done")
    [] u = SEMICOLON -> To(s, "chunk_extensions")
    [] u = "quote" -> To(s, "chunk_extension_quoted_value")
    [] u \in Names \cup Decimal -> s
    [] OTHER -> Fail(s, "STRICT")

ChunkExtensions(s, u) ==
  CASE u = CR /\ s.node = "chunk_extension_name" -> To(s, "chunk_size_almost_done")
    [] u = "=" -> To(s, "chunk_extension_value")
    [] u = SEMICOLON -> To(s, "chunk_extensions")
    [] u \in Names \cup Decimal -> To(s, "chunk_extension_name")
    [] OTHER -> Fail(s, "STRICT")

ChunkSizeOtherwise(s, u) ==
  CASE u = CR -> To(s, "chunk_size_almost_done")
    [] u = SEMICOLON -> To(s, "chunk_extensions")
    [] OTHER -> Fail(s, "INVALID_CHUNK_SIZE")

ChunkSize(s, u) == IF u \in Hex THEN MulAdd(s, 16, u) ELSE ChunkSizeOtherwise(s, u)

ChunkSizeDigit(s, u) ==
  IF u \in Hex THEN To(MulAdd(s, 16, u), "chunk_size") ELSE Fail(s, "INVALID_CHUNK_SIZE")

-----------------------------------------------------------------------------
\* Headers

\* or_flags and update_header_state: what the value just read means.
ApplyHeaderState(s) ==
  LET flag == CASE s.header_state = "connection_keep_alive" -> {"keep_alive"}
                [] s.header_state = "connection_close" -> {"close"}
                [] s.header_state = "connection_upgrade" -> {"connection_upgrade"}
                [] s.header_state = "te_chunked" -> {"chunked"}
                [] OTHER -> {}
  IN  [s EXCEPT !.flags = @ \cup flag,
                !.header_state = IF flag \in {{}, {"chunked"}} THEN @ ELSE "connection"]

HeadersAlmostDone(s, u) ==
  CASE u # LF -> Fail(s, "STRICT")
    [] "trailing" \in s.flags -> CompleteBody(s)
    [] OTHER -> HeadersComplete(s)

\* The first character of a name decides which header it may be.
HeaderField(s, u) ==
  LET o == SpanStart(s, "field")
  IN  CASE u = "con" -> To(o, "header_field_2")
        [] u = "transfer-encoding" -> To(Header(o, "transfer_encoding"), "header_field_colon")
        [] u = "upgrade" -> To(Header(o, "upgrade"), "header_field_colon")
        [] u \in Names -> To(Header(o, "general"), "header_field_general")
        [] OTHER -> Fail(o, "INVALID_HEADER_TOKEN")

HeaderFieldStart(s, u) ==
  CASE u = LF -> Fail(s, "INVALID_HEADER_TOKEN")
    [] u = CR -> To(s, "headers_almost_done")
    [] OTHER -> HeaderField(s, u)

HeadersStart(s, u) == IF u = SP THEN Fail(s, "UNEXPECTED_SPACE") ELSE HeaderFieldStart(s, u)

\* The field has ended; a length and an encoding exclude each other.
FieldComplete(s) ==
  LET c == SpanEnd(s)
  IN  CASE c.header_state = "content_length" /\ "transfer_encoding" \in c.flags -> Fail(c, "UNEXPECTED_CONTENT_LENGTH")
        [] c.header_state = "transfer_encoding" /\ "content_length" \in c.flags -> Fail(c, "INVALID_TRANSFER_ENCODING")
        [] OTHER -> To(c, "header_value_discard_ws")

HeaderFieldGeneral(s, u) ==
  CASE u = ":" -> FieldComplete(s)
    [] u \in Names \cup Decimal -> s
    [] OTHER -> Fail(SpanEnd(s), "INVALID_HEADER_TOKEN")

HeaderFieldColon(s, u) ==
  CASE u = ":" -> FieldComplete(s)
    [] u = SP -> Fail(SpanEnd(s), "INVALID_HEADER_TOKEN")
    [] OTHER -> HeaderFieldGeneral(To(Header(s, "general"), "header_field_general"), u)

HeaderField2(s, u) ==
  CASE u = "nection" -> To(Header(s, "connection"), "header_field_colon")
    [] u = "tent-length" -> To(Header(s, "content_length"), "header_field_colon")
    [] OTHER -> HeaderFieldGeneral(To(Header(s, "general"), "header_field_general"), u)

HeaderValueOtherwise(s, u) ==
  CASE u = CR -> To(SpanEnd(s), "header_value_almost_done")
    [] u = LF -> Fail(SpanEnd(s), "CR_EXPECTED")
    [] OTHER -> Fail(SpanEnd(s), "INVALID_HEADER_TOKEN")

HeaderValue(s, u) ==
  IF u \in Printable THEN To(s, "header_value") ELSE HeaderValueOtherwise(s, u)

ConnectionToken(s, u) ==
  CASE u = COMMA -> To(s, "header_value_connection")
    [] u \in Printable -> To(s, "header_value_connection_token")
    [] OTHER -> HeaderValueOtherwise(s, u)

ConnectionWs(s, u) ==
  CASE u \in {CR, LF} -> HeaderValueOtherwise(s, u)
    [] u = SP -> s
    [] u = COMMA -> To(ApplyHeaderState(s), "header_value_connection")
    [] OTHER -> ConnectionToken(Header(s, "general"), u)

Connection(s, u) ==
  CASE u \in Blank -> To(s, "header_value_connection")
    [] u = "keep-alive" -> To(Header(s, "connection_keep_alive"), "header_value_connection_ws")
    [] u = "close" -> To(Header(s, "connection_close"), "header_value_connection_ws")
    [] u = "upgrade" -> To(Header(s, "connection_upgrade"), "header_value_connection_ws")
    [] OTHER -> ConnectionToken(s, u)

ContentLengthWs(s, u) ==
  CASE u \in {CR, LF} -> HeaderValueOtherwise([s EXCEPT !.flags = @ \cup {"content_length"}], u)
    [] u = SP -> To(s, "header_value_content_length_ws")
    [] OTHER -> Fail(SpanEnd(s), "INVALID_CONTENT_LENGTH")

ContentLength(s, u) ==
  IF u \in Decimal
  THEN LET m == MulAdd(s, 10, u)
       IN  IF m.error = "OK" THEN To(m, "header_value_content_length") ELSE SpanEnd(m)
  ELSE ContentLengthWs(s, u)

TeToken(s, u) ==
  CASE u = COMMA -> To(s, "header_value_te_token_ows")
    [] u \in Printable -> To(s, "header_value_te_token")
    [] OTHER -> HeaderValue(Header(s, "general"), u)

TeChunkedLast(s, u) ==
  CASE u \in {CR, LF} -> HeaderValueOtherwise(Header(s, "te_chunked"), u)
    [] u = SP -> s
    [] u = COMMA -> Fail(SpanEnd(s), "INVALID_TRANSFER_ENCODING")
    [] OTHER -> TeToken(s, u)

TeChunked(s, u) ==
  IF u = "chunked" THEN To(s, "header_value_te_chunked_last") ELSE TeToken(s, u)

TeTokenOws(s, u) == IF u \in Blank THEN s ELSE TeChunked(s, u)

\* A value begins; the header it belongs to decides how it is read.
HeaderValueStart(s, u) ==
  LET o == SpanStart(s, "value")
  IN  CASE o.header_state = "connection" -> Connection(o, u)
        [] o.header_state = "content_length" ->
             IF "content_length" \in o.flags THEN Fail(SpanEnd(o), "UNEXPECTED_CONTENT_LENGTH")
                                             ELSE ContentLength(o, u)
        [] o.header_state = "transfer_encoding" ->
             IF "chunked" \in o.flags THEN Fail(SpanEnd(o), "INVALID_TRANSFER_ENCODING")
             ELSE TeChunked([o EXCEPT !.flags = (@ \cup {"transfer_encoding"}) \ {"chunked"}], u)
        [] o.header_state = "upgrade" ->
             HeaderValue([o EXCEPT !.flags = @ \cup {"upgrade"}, !.header_state = "general"], u)
        [] OTHER -> HeaderValue(o, u)

HeaderValueDiscardWs(s, u) ==
  CASE u \in Blank -> s
    [] u = CR -> To(s, "header_value_discard_ws_almost_done")
    [] u = LF -> Fail(s, "INVALID_HEADER_TOKEN")
    [] OTHER -> HeaderValueStart(s, u)

\* A value of nothing: the callback runs with an empty text.
HeaderValueDiscardLws(s, u) ==
  CASE u \in Blank -> Fail(s, "INVALID_HEADER_TOKEN")
    [] s.header_state = "content_length" -> Fail(s, "INVALID_CONTENT_LENGTH")
    [] OTHER -> HeaderFieldStart(SpanEnd(SpanStart(ApplyHeaderState(s), "value")), u)

LineFeed(s, u, node, error) == IF u = LF THEN To(s, node) ELSE Fail(s, error)

\* A line that begins with a blank continues the value before it.
HeaderValueLws(s, u) ==
  IF u \in Blank
  THEN HeaderValueStart([s EXCEPT !.header_state = IF @ = "te_chunked" THEN "general" ELSE @], u)
  ELSE HeaderFieldStart(ApplyHeaderState(s), u)

-----------------------------------------------------------------------------
\* The request line

AfterStartReq(s, u) ==
  IF \E m \in Methods : m[1] = u
  THEN [s EXCEPT !.seen = u, !.node = "after_start_req_rest"]
  ELSE Fail(s, "INVALID_METHOD")

AfterStartReqRest(s, u) ==
  IF <<s.seen, u>> \in Methods
  THEN [s EXCEPT !.method = <<s.seen, u>>, !.seen = "", !.node = "req_first_space_before_url"]
  ELSE Fail(s, "INVALID_METHOD")

Start(s, u) == IF u \in {CR, LF} THEN s ELSE AfterStartReq(s, u)

\* The URL has ended, at a space or at the end of a line (HTTP/0.9).
UrlEnd(s, u) ==
  CASE u = LF -> To(SpanEnd(s), "url_to_http_09")
    [] u = CR -> To(SpanEnd(s), "url_skip_lf_to_http09_1")
    [] OTHER -> To(SpanEnd(s), "url_to_http")

UrlFragment(s, u) ==
  CASE u = HT -> Fail(s, "INVALID_URL")
    [] u \in {SP, CR, LF} -> UrlEnd(s, u)
    [] u \in Url \cup {"?", "#"} -> To(s, "url_fragment")
    [] OTHER -> Fail(s, "INVALID_URL")

UrlQuery(s, u) ==
  CASE u = "#" -> To(s, "url_fragment")
    [] u = HT -> Fail(s, "INVALID_URL")
    [] u \in {SP, CR, LF} -> UrlEnd(s, u)
    [] u \in Url \cup {"?"} -> To(s, "url_query")
    [] OTHER -> Fail(s, "INVALID_URL")

UrlPath(s, u) ==
  CASE u \in Url -> To(s, "url_path")
    [] u = "?" -> To(s, "url_query")
    [] u = "#" -> To(s, "url_fragment")
    [] u \in {SP, CR, LF} -> UrlEnd(s, u)
    [] OTHER -> Fail(s, "INVALID_URL")

UrlServer(s, u) ==
  CASE u = "/" -> To(s, "url_path")
    [] u = "?" -> To(s, "url_query")
    [] u = "@" /\ s.node = "url_server_with_at" -> Fail(s, "INVALID_URL")
    [] u = "@" -> To(s, "url_server_with_at")
    [] u \in Url -> To(s, "url_server")
    [] u \in {SP, CR, LF} -> UrlEnd(s, u)
    [] OTHER -> Fail(s, "INVALID_URL")

UrlSchema(s, u) ==
  CASE s.node = "url_schema" /\ u \in Letters -> s
    [] s.node = "url_schema" /\ u = ":" -> To(s, "url_schema_delim")
    [] s.node = "url_schema_delim" /\ u = "/" -> To(s, "url_schema_delim_1")
    [] s.node = "url_schema_delim_1" /\ u = "/" -> To(s, "url_server")
    [] OTHER -> Fail(s, "INVALID_URL")

UrlStart(s, u) ==
  LET o == SpanStart(s, "url")
  IN  CASE u \in {"/", "*"} -> To(o, "url_path")
        [] u \in Letters -> To(o, "url_schema")
        [] OTHER -> Fail(o, "INVALID_URL")

ReqSpacesBeforeUrl(s, u) ==
  CASE u = SP -> To(s, "req_spaces_before_url")
    [] s.node = "req_first_space_before_url" -> Fail(s, "INVALID_METHOD")
    [] u = HT -> Fail(s, "INVALID_URL")
    [] s.method = <<"CONN", "ECT">> -> UrlServer(SpanStart(s, "url"), u)
    [] OTHER -> UrlStart(s, u)

UrlToHttp09(s, u) ==
  IF u = HT THEN Fail(s, "INVALID_URL")
  ELSE HeadersStart([s EXCEPT !.major = 0, !.minor = 9], u)

ReqHttpStart(s, u) ==
  CASE u = SP -> To(s, "req_http_start")
    [] u = "HTTP/" /\ s.method \in HttpMethods -> To(s, "req_http_major")
    [] u = "RTSP/" /\ s.method \in RtspMethods -> To(s, "req_http_major")
    [] OTHER -> Fail(s, "INVALID_CONSTANT")

UrlToHttp(s, u) == IF u = HT THEN Fail(s, "INVALID_URL") ELSE ReqHttpStart(s, u)

ReqHttpMajor(s, u) ==
  IF u \in Decimal THEN [s EXCEPT !.major = Value(u), !.node = "req_http_dot"]
                   ELSE Fail(s, "INVALID_VERSION")

ReqHttpDot(s, u) == IF u = "." THEN To(s, "req_http_minor") ELSE Fail(s, "INVALID_VERSION")

ReqHttpMinor(s, u) ==
  IF u \in Decimal /\ <<s.major, Value(u)>> \in {<<0, 9>>, <<1, 0>>, <<1, 1>>, <<2, 0>>}
  THEN [s EXCEPT !.minor = Value(u), !.node = "req_http_complete"]
  ELSE Fail(s, "INVALID_VERSION")

\* Behind the version; "PRI" is no method of this protocol.
ReqHttpComplete(s, u) ==
  CASE s.method = <<"PR", "I">> -> Fail(s, "PAUSED_H2_UPGRADE")
    [] u = CR -> To(s, "req_http_complete_crlf")
    [] OTHER -> Fail(s, "INVALID_VERSION")

-----------------------------------------------------------------------------
\* llhttp__internal_run: the node where the parser waits takes the unit.
Node(s, u) ==
  CASE s.node = "start" -> Start(s, u)
    [] s.node = "after_start_req_rest" -> AfterStartReqRest(s, u)
    [] s.node \in {"req_first_space_before_url", "req_spaces_before_url"} -> ReqSpacesBeforeUrl(s, u)
    [] s.node \in {"url_schema", "url_schema_delim", "url_schema_delim_1"} -> UrlSchema(s, u)
    [] s.node \in {"url_server", "url_server_with_at"} -> UrlServer(s, u)
    [] s.node = "url_path" -> UrlPath(s, u)
    [] s.node = "url_query" -> UrlQuery(s, u)
    [] s.node = "url_fragment" -> UrlFragment(s, u)
    [] s.node = "url_to_http" -> UrlToHttp(s, u)
    [] s.node = "url_skip_lf_to_http09_1" -> LineFeed(s, u, "url_to_http_09", "INVALID_URL")
    [] s.node = "url_to_http_09" -> UrlToHttp09(s, u)
    [] s.node = "req_http_start" -> ReqHttpStart(s, u)
    [] s.node = "req_http_major" -> ReqHttpMajor(s, u)
    [] s.node = "req_http_dot" -> ReqHttpDot(s, u)
    [] s.node = "req_http_minor" -> ReqHttpMinor(s, u)
    [] s.node = "req_http_complete" -> ReqHttpComplete(s, u)
    [] s.node = "req_http_complete_crlf" -> LineFeed(s, u, "headers_start", "STRICT")
    [] s.node = "headers_start" -> HeadersStart(s, u)
    [] s.node = "header_field_start" -> HeaderFieldStart(s, u)
    [] s.node = "header_field_2" -> HeaderField2(s, u)
    [] s.node = "header_field_colon" -> HeaderFieldColon(s, u)
    [] s.node = "header_field_general" -> HeaderFieldGeneral(s, u)
    [] s.node = "header_value_discard_ws" -> HeaderValueDiscardWs(s, u)
    [] s.node = "header_value_discard_ws_almost_done" -> LineFeed(s, u, "header_value_discard_lws", "STRICT")
    [] s.node = "header_value_discard_lws" -> HeaderValueDiscardLws(s, u)
    [] s.node = "header_value" -> HeaderValue(s, u)
    [] s.node = "header_value_connection" -> Connection(s, u)
    [] s.node = "header_value_connection_ws" -> ConnectionWs(s, u)
    [] s.node = "header_value_connection_token" -> ConnectionToken(s, u)
    [] s.node = "header_value_content_length" -> ContentLength(s, u)
    [] s.node = "header_value_content_length_ws" -> ContentLengthWs(s, u)
    [] s.node = "header_value_te_token" -> TeToken(s, u)
    [] s.node = "header_value_te_token_ows" -> TeTokenOws(s, u)
    [] s.node = "header_value_te_chunked_last" -> TeChunkedLast(s, u)
    [] s.node = "header_value_almost_done" -> LineFeed(s, u, "header_value_lws", "LF_EXPECTED")
    [] s.node = "header_value_lws" -> HeaderValueLws(s, u)
    [] s.node = "headers_almost_done" -> HeadersAlmostDone(s, u)
    [] s.node = "body_identity" -> BodyIdentity(s, u)
    [] s.node = "chunk_size_digit" -> ChunkSizeDigit(s, u)
    [] s.node = "chunk_size" -> ChunkSize(s, u)
    [] s.node \in {"chunk_extensions", "chunk_extension_name"} -> ChunkExtensions(s, u)
    [] s.node = "chunk_extension_value" -> ChunkExtensionValue(s, u)
    [] s.node \in {"chunk_extension_quoted_value", "chunk_extension_quoted_value_done"} -> ChunkExtensionQuoted(s, u)
    [] s.node = "chunk_size_almost_done" -> ChunkSizeAlmostDone(s, u)
    [] s.node = "chunk_data" -> ChunkData(s, u)
    [] s.node \in {"chunk_data_almost_done", "chunk_data_almost_done_1"} -> ChunkDataAlmostDone(s, u)
    [] s.node = "closed" -> Closed(s, u)

\* One unit; an error or a pause leaves the rest of the buffer unread.
Run(s, i) == IF s.error = "OK" THEN Node([s EXCEPT !.p = i], s.buf[i]) ELSE s

\* llhttp__internal_execute: an open span starts anew with the buffer and its
\* piece is handed over at the end of it.
llhttp_execute(parser, buf) ==
  LET begun == [parser EXCEPT !.buf = buf, !.start = 1]
      upTo[i \in 0..Len(buf)] == IF i = 0 THEN begun ELSE Run(upTo[i - 1], i)
      ran == upTo[Len(buf)]
      done == IF ran.error = "OK" THEN SpanCallback(ran, Len(buf)) ELSE ran
  IN  [done EXCEPT !.buf = <<>>, !.p = 0, !.start = 0]

llhttp_resume_after_upgrade(parser) ==
  [parser EXCEPT !.error = IF @ = "PAUSED_UPGRADE" THEN "OK" ELSE @]
=============================================================================
