------------------------------- MODULE MCHttp -------------------------------
(* Requests a client may send, well formed and not, with what they mean.    *)
EXTENDS HttpConnection

NL == <<CR, LF>>
Rtsp == <<"RTSP/", "1", ".", "0">>
Http == <<"HTTP/", "1", ".", "1">>
Line(name, value) == name \o <<":", " ">> \o value \o NL
CSeq == Line(<<"CSeq">>, <<"1">>)

Means(method, url, headers, body) ==
  [method |-> method, url |-> url, headers |-> headers, body |-> body]
NoMeaning == [method |-> <<>>]
Request(method, url, protocol, lines, body, meaning, persistent) ==
  [bytes |-> method \o <<" ">> \o url \o <<" ">> \o protocol \o NL \o lines \o NL \o body,
   protocol |-> protocol, means |-> meaning, persistent |-> persistent,
   valid |-> meaning # NoMeaning]

Setup == <<"SET", "UP">>
Get == <<"GE", "T">>
Post == <<"PO", "ST">>
ChunkedLine == Line(<<"transfer-encoding">>, <<"chunked">>)

\* Well formed.
RtspSetup == Request(Setup, <<"s", ":", "/", "/", "u", "@", "u", "/", "1">>, Rtsp,
  CSeq \o Line(<<"con", "tent-length">>, <<"0", "2">>), <<LF, "u">>,
  Means(Setup, <<"s", ":", "/", "/", "u", "@", "u", "/", "1">>,
        <<<<"CSeq">>, <<"1">>, <<"con", "tent-length">>, <<"0", "2">>>>, <<LF, "u">>), FALSE)
RtspGet == Request(Get, <<"/", "u">>, Rtsp,
  CSeq \o Line(<<"con", "x">>, <<"u", " ", "u">>) \o <<"x", ":", CR, LF>>, <<>>,
  Means(Get, <<"/", "u">>, <<<<"CSeq">>, <<"1">>, <<"con", "x">>, <<"u", " ", "u">>, <<"x">>, <<>>>>, <<>>), FALSE)
HttpChunked == Request(Post, <<"/", "?", "u">>, Http, ChunkedLine,
  <<"2", ";", "x", "=", "1", CR, LF, "u", CR, CR, LF, "0", CR, LF>> \o NL,
  Means(Post, <<"/", "?", "u">>, <<<<"transfer-encoding">>, <<"chunked">>>>, <<"u", CR>>), TRUE)
HttpTrailer == Request(Post, <<"/", "#", "u">>, Http, ChunkedLine,
  <<"1", CR, LF, "s", CR, LF, "0", ";", "x", "=", "quote", "u", "quote", CR, LF>> \o Line(<<"x">>, <<"u">>) \o NL,
  Means(Post, <<"/", "#", "u">>, <<<<"transfer-encoding">>, <<"chunked">>, <<"x">>, <<"u">>>>, <<"s">>), TRUE)
HttpUpgrade == Request(Get, <<"/">>, Http,
  Line(<<"con", "nection">>, <<"keep-alive", ",", " ", "upgrade">>) \o Line(<<"upgrade">>, <<"x">>), <<>>,
  Means(Get, <<"/">>, <<<<"con", "nection">>, <<"keep-alive", ",", " ", "upgrade">>, <<"upgrade">>, <<"x">>>>, <<>>), TRUE)
HttpClose == Request(Get, <<"*">>, Http, Line(<<"con", "nection">>, <<"close">>), <<>>,
  Means(Get, <<"*">>, <<<<"con", "nection">>, <<"close">>>>, <<>>), FALSE)
HttpConnect == Request(<<"CONN", "ECT">>, <<"u", ":", "1">>, Http, CSeq, <<>>,
  Means(<<"CONN", "ECT">>, <<"u", ":", "1">>, <<<<"CSeq">>, <<"1">>>>, <<>>), TRUE)
WellFormed == {RtspSetup, RtspGet, HttpChunked, HttpTrailer, HttpUpgrade, HttpClose, HttpConnect}

\* Not requests.
Bad(method, url, protocol, lines, body) == Request(method, url, protocol, lines, body, NoMeaning, FALSE)
LengthLine(digits) == Line(<<"con", "tent-length">>, digits)
Malformed ==
  {Bad(<<"SET", "T">>, <<"/">>, Rtsp, <<>>, <<>>),
   Bad(<<"SOUR", "CE">>, <<"/">>, Rtsp, <<>>, <<>>),
   Bad(<<"PR", "I">>, <<"/">>, Http, <<>>, <<>>),
   Bad(Get, <<"/">>, <<"HTTP/", "1", ".", "2">>, <<>>, <<>>),
   Bad(Get, <<"s", ":", "/", "u">>, Http, <<>>, <<>>),
   Bad(Get, <<"s", ":", "/", "/", "u", "@", "@">>, Http, <<>>, <<>>),
   Bad(Post, <<"/">>, Http, LengthLine(<<"3", "9">>), <<"u">>),
   Bad(Post, <<"/">>, Http, LengthLine(<<"3", "3">>), <<"u">>),
   Bad(Post, <<"/">>, Http, LengthLine(<<"1", "u">>), <<"u">>),
   Bad(Post, <<"/">>, Http, LengthLine(<<>>), <<>>),
   Bad(Post, <<"/">>, Http, LengthLine(<<"1">>) \o LengthLine(<<"1">>), <<"u">>),
   Bad(Post, <<"/">>, Http, LengthLine(<<"1">>) \o ChunkedLine, <<"u">>),
   Bad(Post, <<"/">>, Http, ChunkedLine \o LengthLine(<<"1">>), <<"u">>),
   Bad(Post, <<"/">>, Http, Line(<<"transfer-encoding">>, <<"chunked", ",", " ", "s">>), <<"u">>),
   Bad(Post, <<"/">>, Http, Line(<<"transfer-encoding">>, <<"s", ",", " ", "s">>), <<"u">>),
   Bad(Post, <<"/">>, Http, ChunkedLine, <<"2", "0", CR, LF>>),
   Bad(Post, <<"/">>, Http, ChunkedLine, <<"1", CR, LF, "u", "u", CR, LF>>)}
MCRequests == WellFormed \cup Malformed
MCBehind == {RtspGet}
=============================================================================
