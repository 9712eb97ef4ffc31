---------------------------- MODULE HttpRequest ----------------------------
(***************************************************************************)
(* A request being put together (lib/http_request.c): the callbacks that   *)
(* the parser of module Llhttp runs whenever it has a piece of the URL, of *)
(* a header or of the body.  A piece is what one call of recv holds of it, *)
(* so that a callback may run any number of times for one URL or header.   *)
(*                                                                         *)
(* Text is a sequence of units.  A unit stands for the characters the      *)
(* parser tells apart: a separator, a digit, a part of a name or a value.  *)
(***************************************************************************)
EXTENDS Integers, Sequences, SequencesExt

\* A header entry not yet allocated.
Null == <<"null">>

\* What eight characters behind the URL are when recv has not brought them
\* yet: whatever an earlier call left in the buffer.
Stale == "stale"

\* "HTTP/1.1" and its like are eight characters in four units.
ProtocolUnits == 4

EmptyRequest == [url |-> <<>>, protocol |-> <<>>, headers |-> <<>>, index |-> 0,
                 data |-> <<>>, complete |-> FALSE, name |-> "null"]

\* The URL grows; the protocol is copied from behind this piece of it, from
\* the bytes after the next one.  `after' is what the buffer holds there.
on_url(r, text, after) ==
  [r EXCEPT !.url = @ \o text,
            !.protocol = [k \in 1..ProtocolUnits |->
               IF k + 1 <= Len(after) THEN after[k + 1] ELSE Stale]]

\* Entry number i of the headers, counted from 0 as in the code.
Entry(r, i) == r.headers[i + 1]

AppendEntry(r, i, text) ==
  [r EXCEPT !.headers[i + 1] = IF @ = Null THEN text ELSE @ \o text, !.index = i]

on_header_field(r, text) ==
  LET i == IF r.index % 2 = 1 THEN r.index + 1 ELSE r.index
      hs == IF i = Len(r.headers) THEN r.headers \o <<Null, Null>> ELSE r.headers
  IN  AppendEntry([r EXCEPT !.headers = hs], i, text)

\* Slip: each piece of a value takes the place of those before it.
MutOnHeaderValue(r, text) ==
  LET i == IF r.index % 2 = 0 THEN r.index + 1 ELSE r.index
  IN  [r EXCEPT !.headers[i + 1] = text, !.index = i]

on_header_value(r, text) ==
  LET i == IF r.index % 2 = 0 THEN r.index + 1 ELSE r.index
  IN  AppendEntry(r, i, text)

on_body(r, text) == [r EXCEPT !.data = @ \o text]

\* llhttp_method_name of the parser's method.
on_message_complete(r, method) == [r EXCEPT !.complete = TRUE, !.name = method]

\* The value of the first header of that name, Null if there is none.
http_request_get_header(r, name) ==
  LET at == {i \in 1..Len(r.headers) : i % 2 = 1 /\ r.headers[i] = name}
  IN  IF at = {} THEN Null ELSE r.headers[(CHOOSE i \in at : \A j \in at : i <= j) + 1]
=============================================================================
