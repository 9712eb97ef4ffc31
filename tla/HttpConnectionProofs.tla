----------------------- MODULE HttpConnectionProofs -----------------------
(***************************************************************************)
(* Proof that requests are served as they were sent, however their bytes   *)
(* are cut.                                                                *)
(*                                                                         *)
(* It is a simulation between two runs of the parser: one gets a request   *)
(* in pieces, one gets it whole.  They go through the same nodes of the    *)
(* generated graph, and what one has handed over to the callbacks, with    *)
(* what it would hand over next, is what the other has.  Only the protocol *)
(* they need not agree on, which is read from the bytes that happen to be  *)
(* in the buffer behind a piece of the URL.                                *)
(***************************************************************************)
EXTENDS Server, Modular, SequenceTheorems

-----------------------------------------------------------------------------
\* Requests in pieces.

\* What a request is made of.
Units == STRING \ {"null"}
Entries == Seq(Units) \cup {Http!Null}
RequestFields == {"url", "protocol", "headers", "index", "data", "complete", "name"}
IsRequest(r) ==
  /\ r = [f \in RequestFields |-> r[f]]
  /\ r.url \in Seq(Units) /\ r.data \in Seq(Units)
  /\ r.headers \in Seq(Entries) /\ r.index \in Nat

\* Two requests are the same but for the protocol, which the parser reads from
\* what happens to be behind the URL.
Agrees(q, r) ==
  /\ q.url = r.url /\ q.headers = r.headers /\ q.index = r.index
  /\ q.data = r.data /\ q.complete = r.complete /\ q.name = r.name

\* A request after a callback with a piece of text.
Handed(kind, r, text) ==
  CASE kind = "url" -> [r EXCEPT !.url = @ \o text]
    [] kind = "field" -> Http!on_header_field(r, text)
    [] kind = "value" -> Http!on_header_value(r, text)
    [] kind = "body" -> [r EXCEPT !.data = @ \o text]
    [] OTHER -> r

\* The entry a piece of text goes to, and what it then is.
Joint(e, text) == IF e = Http!Null THEN text ELSE e \o text

\* No text is what stands for an entry not yet there.
LEMMA NoTextIsNull == \A t \in Seq(Units) : t # Http!Null
<1> SUFFICES ASSUME NEW t \in Seq(Units), t = Http!Null PROVE FALSE
  OBVIOUS
<1>1. Len(t) = 1 /\ t[1] = "null"
  BY DEF Http!Null
<1>2. t[1] \in Units
  BY <1>1, ElementOfSeq
<1> QED BY <1>1, <1>2 DEF Units

\* An entry to which a piece was added is a text, and it does not matter
\* whether two pieces come as one.
LEMMA JointIs ==
  ASSUME NEW e \in Entries, NEW t \in Seq(Units), NEW u \in Seq(Units)
  PROVE  /\ Joint(e, t) \in Seq(Units)
         /\ Joint(Joint(e, t), u) = Joint(e, t \o u)
<1>1. Joint(e, t) \in Seq(Units)
  <2>1. CASE e = Http!Null
    BY <2>1 DEF Joint
  <2>2. CASE e # Http!Null
    <3>1. e \in Seq(Units)
      BY <2>2 DEF Entries
    <3>2. e \o t \in Seq(Units)
      BY <3>1, ConcatProperties
    <3> QED BY <2>2, <3>2 DEF Joint
  <2> QED BY <2>1, <2>2
<1>2. Joint(Joint(e, t), u) = Joint(e, t) \o u
  BY <1>1, NoTextIsNull DEF Joint
<1>3. Joint(e, t) \o u = Joint(e, t \o u)
  <2>1. CASE e = Http!Null
    BY <2>1 DEF Joint
  <2>2. CASE e # Http!Null
    <3>1. e \in Seq(Units)
      BY <2>2 DEF Entries
    <3>2. (e \o t) \o u = e \o (t \o u)
      BY <3>1, ConcatAssociative
    <3> QED BY <2>2, <3>2 DEF Joint
  <2> QED BY <2>1, <2>2
<1> QED BY <1>1, <1>2, <1>3

\* The entries when a piece was added to number i of them, counted from 0.
Added(hs, i, text) == [hs EXCEPT ![i + 1] = Joint(@, text)]

\* Adding two pieces to an entry is adding both at once.
LEMMA AddedIs ==
  ASSUME NEW hs \in Seq(Entries), NEW i \in Nat, NEW t \in Seq(Units), NEW u \in Seq(Units)
  PROVE  /\ Added(hs, i, t) \in Seq(Entries) /\ Len(Added(hs, i, t)) = Len(hs)
         /\ Added(Added(hs, i, t), i, u) = Added(hs, i, t \o u)
<1>1. \A n \in 1 .. Len(hs) : hs[n] \in Entries
  BY ElementOfSeq
<1>2. \A e \in Entries : Joint(e, t) \in Entries /\ Joint(Joint(e, t), u) = Joint(e, t \o u)
  BY JointIs DEF Entries
<1>3. Added(hs, i, t) \in [1 .. Len(hs) -> Entries]
  <2>1. hs \in [1 .. Len(hs) -> Entries]
    OBVIOUS
  <2> DEFINE D == 1 .. Len(hs)
  <2>2. hs \in [D -> Entries]
    BY <2>1
  <2> HIDE DEF D
  <2>3. Added(hs, i, t) \in [D -> Entries]
    BY <1>2, <2>2 DEF Added
  <2> QED BY <2>3 DEF D
<1>4. Len(hs) \in Nat
  OBVIOUS
<1>5. Added(hs, i, t) \in Seq(Entries) /\ Len(Added(hs, i, t)) = Len(hs)
  <2> DEFINE a == Added(hs, i, t)
  <2> HIDE DEF a
  <2>1. a \in [1 .. Len(hs) -> Entries]
    BY <1>3 DEF a
  <2>2. a \in Seq(Entries) /\ Len(a) = Len(hs)
    BY <1>4, <2>1, SMTT(40)
  <2> QED BY <2>2 DEF a
<1>6. Added(Added(hs, i, t), i, u) = Added(hs, i, t \o u)
  <2>1. DOMAIN hs = 1 .. Len(hs)
    OBVIOUS
  <2> QED BY <1>1, <1>2, <2>1 DEF Added
<1> QED BY <1>5, <1>6

\* The entry of a name is an even one, and has one for its value behind it.
Even(n) == IF n % 2 = 1 THEN n + 1 ELSE n
Odd(n) == IF n % 2 = 0 THEN n + 1 ELSE n
Room(hs, i) == IF i = Len(hs) THEN hs \o <<Http!Null, Http!Null>> ELSE hs

LEMMA Parity ==
  ASSUME NEW n \in Nat
  PROVE  /\ Even(n) \in Nat /\ Even(Even(n)) = Even(n)
         /\ Odd(n) \in Nat /\ Odd(Odd(n)) = Odd(n)
<1>1. n % 2 \in {0, 1}
  OBVIOUS
<1>2. CASE n % 2 = 0
  <2>1. (n + 1) % 2 = 1
    BY <1>2
  <2> QED BY <1>2, <2>1 DEF Even, Odd
<1>3. CASE n % 2 = 1
  <2>1. (n + 1) % 2 = 0
    BY <1>3
  <2> QED BY <1>3, <2>1 DEF Even, Odd
<1> QED BY <1>1, <1>2, <1>3

LEMMA RoomIs ==
  ASSUME NEW hs \in Seq(Entries), NEW i \in Nat
  PROVE  /\ Room(hs, i) \in Seq(Entries)
         /\ \A k \in Seq(Entries) : Len(k) = Len(Room(hs, i)) => Room(k, i) = k
<1> DEFINE two == <<Http!Null, Http!Null>>
<1>1. Len(hs) \in Nat
  OBVIOUS
<1>2. CASE i = Len(hs)
  <2>1. two \in Seq(Entries) /\ Len(two) = 2
    BY DEF Entries
  <2> HIDE DEF two
  <2>5. hs \in Seq(Entries) /\ two \in Seq(Entries)
    BY <2>1
  <2>6. hs \o two \in Seq(Entries) /\ Len(hs \o two) = Len(hs) + Len(two)
    BY <2>5, ConcatProperties
  <2>2. hs \o two \in Seq(Entries) /\ Len(hs \o two) = Len(hs) + 2
    BY <2>1, <2>6
  <2>3. Room(hs, i) = hs \o two
    BY <1>2 DEF Room, two
  <2>4. Len(Room(hs, i)) # i
    BY <1>1, <1>2, <2>2, <2>3
  <2> QED BY <2>2, <2>3, <2>4 DEF Room
<1>3. CASE i # Len(hs)
  BY <1>3 DEF Room
<1> QED BY <1>2, <1>3

\* What the two callbacks of headers do.
LEMMA HeaderCallbacks ==
  ASSUME NEW r, IsRequest(r), NEW t
  PROVE  /\ Http!on_header_field(r, t) =
              [r EXCEPT !.headers = Added(Room(r.headers, Even(r.index)), Even(r.index), t),
                        !.index = Even(r.index)]
         /\ Http!on_header_value(r, t) =
              [r EXCEPT !.headers = Added(r.headers, Odd(r.index), t), !.index = Odd(r.index)]
<1>1. ASSUME NEW q, NEW i, q = [r EXCEPT !.headers = q.headers]
      PROVE  Http!AppendEntry(q, i, t) =
               [r EXCEPT !.headers = Added(q.headers, i, t), !.index = i]
  BY <1>1 DEF Http!AppendEntry, Added, Joint, IsRequest, RequestFields
<1>2. Http!on_header_value(r, t) =
        [r EXCEPT !.headers = Added(r.headers, Odd(r.index), t), !.index = Odd(r.index)]
  <2>1. r = [r EXCEPT !.headers = r.headers]
    BY DEF IsRequest, RequestFields
  <2>2. Http!on_header_value(r, t) = Http!AppendEntry(r, Odd(r.index), t)
    BY DEF Http!on_header_value, Odd
  <2> QED BY <1>1, <2>1, <2>2
<1>3. Http!on_header_field(r, t) =
        [r EXCEPT !.headers = Added(Room(r.headers, Even(r.index)), Even(r.index), t),
                  !.index = Even(r.index)]
  <2> DEFINE q == [r EXCEPT !.headers = Room(r.headers, Even(r.index))]
  <2>1. q.headers = Room(r.headers, Even(r.index)) /\ q = [r EXCEPT !.headers = q.headers]
    BY DEF IsRequest, RequestFields
  <2>2. Http!on_header_field(r, t) = Http!AppendEntry(q, Even(r.index), t)
    BY DEF Http!on_header_field, Even, Room
  <2> HIDE DEF q
  <2>3. Http!AppendEntry(q, Even(r.index), t) =
          [r EXCEPT !.headers = Added(q.headers, Even(r.index), t), !.index = Even(r.index)]
    BY <1>1, <2>1, Zenon
  <2> QED BY <2>1, <2>2, <2>3, Zenon
<1> QED BY <1>2, <1>3


\* What a callback makes of the parts of a request.
LEMMA HandedParts ==
  ASSUME NEW r, IsRequest(r), NEW t \in Seq(Units), NEW kind
  PROVE  LET h == Handed(kind, r, t) IN
         /\ IsRequest(h)
         /\ h.url = IF kind = "url" THEN r.url \o t ELSE r.url
         /\ h.headers = IF kind = "field" THEN Added(Room(r.headers, Even(r.index)), Even(r.index), t)
                        ELSE IF kind = "value" THEN Added(r.headers, Odd(r.index), t)
                        ELSE r.headers
         /\ h.index = IF kind = "field" THEN Even(r.index)
                      ELSE IF kind = "value" THEN Odd(r.index) ELSE r.index
         /\ h.data = IF kind = "body" THEN r.data \o t ELSE r.data
         /\ h.complete = r.complete /\ h.name = r.name /\ h.protocol = r.protocol
<1> DEFINE h == Handed(kind, r, t)
           i == Even(r.index)
           j == Odd(r.index)
<1>0. /\ r.url \in Seq(Units) /\ r.data \in Seq(Units) /\ r.headers \in Seq(Entries) /\ r.index \in Nat
      /\ r = [f \in RequestFields |-> r[f]]
  BY DEF IsRequest, RequestFields
<1>1. CASE kind = "url"
  <2>1. h = [r EXCEPT !.url = r.url \o t]
    BY <1>1 DEF Handed
  <2>2. r.url \o t \in Seq(Units)
    BY <1>0, ConcatProperties
  <2> QED BY <1>0, <1>1, <2>1, <2>2 DEF IsRequest, RequestFields
<1>2. CASE kind = "body"
  <2>1. h = [r EXCEPT !.data = r.data \o t]
    BY <1>2 DEF Handed
  <2>2. r.data \o t \in Seq(Units)
    BY <1>0, ConcatProperties
  <2> QED BY <1>0, <1>2, <2>1, <2>2 DEF IsRequest, RequestFields
<1>3. CASE kind = "field"
  <2>1. h = [r EXCEPT !.headers = Added(Room(r.headers, i), i, t), !.index = i]
    BY <1>3, HeaderCallbacks DEF Handed
  <2>2. i \in Nat
    BY <1>0, Parity
  <2>3. Room(r.headers, i) \in Seq(Entries)
    BY <1>0, <2>2, RoomIs
  <2>4. Added(Room(r.headers, i), i, t) \in Seq(Entries)
    BY <2>2, <2>3, AddedIs
  <2> HIDE DEF i
  <2> QED BY <1>0, <1>3, <2>1, <2>2, <2>4 DEF IsRequest, RequestFields, i
<1>4. CASE kind = "value"
  <2>1. h = [r EXCEPT !.headers = Added(r.headers, j, t), !.index = j]
    BY <1>4, HeaderCallbacks DEF Handed
  <2>2. j \in Nat
    BY <1>0, Parity
  <2>4. Added(r.headers, j, t) \in Seq(Entries)
    BY <1>0, <2>2, AddedIs
  <2> HIDE DEF j
  <2> QED BY <1>0, <1>4, <2>1, <2>2, <2>4 DEF IsRequest, RequestFields, j
<1>5. CASE kind \notin {"url", "body", "field", "value"}
  <2>1. h = r
    BY <1>5 DEF Handed
  <2> QED BY <1>0, <1>5, <2>1 DEF IsRequest, RequestFields
<1> QED BY <1>1, <1>2, <1>3, <1>4, <1>5

\* Two pieces of a text come to what the text comes to in one.
LEMMA HandedTwice ==
  ASSUME NEW r, IsRequest(r), NEW t \in Seq(Units), NEW u \in Seq(Units), NEW kind
  PROVE  Agrees(Handed(kind, Handed(kind, r, t), u), Handed(kind, r, t \o u))
<1> DEFINE h == Handed(kind, r, t)
           g == Handed(kind, h, u)
           f == Handed(kind, r, t \o u)
           w == t \o u
<1>0. r.url \in Seq(Units) /\ r.data \in Seq(Units) /\ r.headers \in Seq(Entries) /\ r.index \in Nat
  BY DEF IsRequest, RequestFields
<1>1. w \in Seq(Units)
  BY ConcatProperties
<1>2. IsRequest(h)
  BY HandedParts
<1>3. /\ (r.url \o t) \o u = r.url \o w /\ (r.data \o t) \o u = r.data \o w
  <2>1. ASSUME NEW x \in Seq(Units) PROVE (x \o t) \o u = x \o w
    BY ConcatAssociative
  <2> QED BY <1>0, <2>1, Zenon
<1> DEFINE i == Even(r.index)
           j == Odd(r.index)
           hs == Room(r.headers, i)
<1>4. /\ i \in Nat /\ j \in Nat /\ Even(i) = i /\ Odd(j) = j /\ hs \in Seq(Entries)
      /\ Added(Added(hs, i, t), i, u) = Added(hs, i, w)
      /\ Added(Added(r.headers, j, t), j, u) = Added(r.headers, j, w)
      /\ Room(Added(hs, i, t), i) = Added(hs, i, t)
  <2>1. i \in Nat /\ j \in Nat /\ Even(i) = i /\ Odd(j) = j
    BY <1>0, Parity
  <2>2. hs \in Seq(Entries) /\ \A k \in Seq(Entries) : Len(k) = Len(hs) => Room(k, i) = k
    BY <1>0, <2>1, RoomIs
  <2> HIDE DEF hs, i, j, w
  <2>3. Added(hs, i, t) \in Seq(Entries) /\ Len(Added(hs, i, t)) = Len(hs)
    BY <2>1, <2>2, AddedIs
  <2>4. Added(Added(hs, i, t), i, u) = Added(hs, i, w)
    BY <2>1, <2>2, AddedIs DEF w
  <2>5. Added(Added(r.headers, j, t), j, u) = Added(r.headers, j, w)
    BY <1>0, <2>1, AddedIs DEF w
  <2> QED BY <2>1, <2>2, <2>3, <2>4, <2>5
<1> HIDE DEF w
<1>5. /\ h.url = IF kind = "url" THEN r.url \o t ELSE r.url
      /\ h.headers = IF kind = "field" THEN Added(hs, i, t)
                     ELSE IF kind = "value" THEN Added(r.headers, j, t) ELSE r.headers
      /\ h.index = IF kind = "field" THEN i ELSE IF kind = "value" THEN j ELSE r.index
      /\ h.data = IF kind = "body" THEN r.data \o t ELSE r.data
      /\ h.complete = r.complete /\ h.name = r.name
  BY HandedParts
<1>6. /\ f.url = IF kind = "url" THEN r.url \o w ELSE r.url
      /\ f.headers = IF kind = "field" THEN Added(hs, i, w)
                     ELSE IF kind = "value" THEN Added(r.headers, j, w) ELSE r.headers
      /\ f.index = IF kind = "field" THEN i ELSE IF kind = "value" THEN j ELSE r.index
      /\ f.data = IF kind = "body" THEN r.data \o w ELSE r.data
      /\ f.complete = r.complete /\ f.name = r.name
  <2>1. f = Handed(kind, r, w)
    BY Zenon DEF w
  <2> HIDE DEF f
  <2> QED BY <1>1, <2>1, HandedParts
<1> HIDE DEF h
<1>7. /\ g.url = IF kind = "url" THEN h.url \o u ELSE h.url
      /\ g.headers = IF kind = "field" THEN Added(Room(h.headers, Even(h.index)), Even(h.index), u)
                     ELSE IF kind = "value" THEN Added(h.headers, Odd(h.index), u) ELSE h.headers
      /\ g.index = IF kind = "field" THEN Even(h.index)
                   ELSE IF kind = "value" THEN Odd(h.index) ELSE h.index
      /\ g.data = IF kind = "body" THEN h.data \o u ELSE h.data
      /\ g.complete = h.complete /\ g.name = h.name
  BY <1>2, HandedParts
<1> HIDE DEF f, g, hs, i, j
<1>8. Agrees(g, f)
  BY <1>3, <1>4, <1>5, <1>6, <1>7 DEF Agrees
<1> QED BY <1>8 DEF f, g, h, w

\* Callbacks with the same text keep requests the same.
LEMMA HandedAgrees ==
  ASSUME NEW q, IsRequest(q), NEW r, IsRequest(r), Agrees(q, r), NEW t \in Seq(Units), NEW kind
  PROVE  Agrees(Handed(kind, q, t), Handed(kind, r, t))
<1> DEFINE f == Handed(kind, q, t)
           g == Handed(kind, r, t)
<1>1. /\ f.url = IF kind = "url" THEN q.url \o t ELSE q.url
      /\ f.headers = IF kind = "field" THEN Added(Room(q.headers, Even(q.index)), Even(q.index), t)
                     ELSE IF kind = "value" THEN Added(q.headers, Odd(q.index), t) ELSE q.headers
      /\ f.index = IF kind = "field" THEN Even(q.index)
                   ELSE IF kind = "value" THEN Odd(q.index) ELSE q.index
      /\ f.data = IF kind = "body" THEN q.data \o t ELSE q.data
      /\ f.complete = q.complete /\ f.name = q.name
  BY HandedParts
<1>2. /\ g.url = IF kind = "url" THEN r.url \o t ELSE r.url
      /\ g.headers = IF kind = "field" THEN Added(Room(r.headers, Even(r.index)), Even(r.index), t)
                     ELSE IF kind = "value" THEN Added(r.headers, Odd(r.index), t) ELSE r.headers
      /\ g.index = IF kind = "field" THEN Even(r.index)
                   ELSE IF kind = "value" THEN Odd(r.index) ELSE r.index
      /\ g.data = IF kind = "body" THEN r.data \o t ELSE r.data
      /\ g.complete = r.complete /\ g.name = r.name
  BY HandedParts
<1> HIDE DEF f, g
<1>3. Agrees(f, g)
  BY <1>1, <1>2 DEF Agrees
<1> QED BY <1>3 DEF f, g

-----------------------------------------------------------------------------
\* Two parsers at the same place of what they read.  One has it in pieces,
\* the other one has not; they differ in their buffers, and in what of an
\* open span was handed over.

\* A parser while it runs, which looks at unit number p of its buffer.
Fields == {"node", "error", "flags", "header_state", "content_length", "method", "major", "minor",
           "upgrade", "seen", "span", "start", "buf", "p", "request"}
IsParser(s) == s = [f \in Fields |-> s[f]]

Looking(s) ==
  /\ IsParser(s) /\ IsRequest(s.request)
  /\ s.buf \in Seq(Units) /\ s.p \in 1 .. Len(s.buf) /\ s.start \in 1 .. s.p

\* The request, were the part of the open span before the present unit handed
\* over, and were the unit so as well.
Before(s) == Handed(s.span, s.request, SubSeq(s.buf, s.start, s.p - 1))
After(s) == Handed(s.span, s.request, SubSeq(s.buf, s.start, s.p))

\* What a parser knows of a message.
SameControl(a, b) ==
  /\ a.node = b.node /\ a.error = b.error /\ a.flags = b.flags
  /\ a.header_state = b.header_state /\ a.content_length = b.content_length
  /\ a.method = b.method /\ a.major = b.major /\ a.minor = b.minor
  /\ a.upgrade = b.upgrade /\ a.seen = b.seen /\ a.span = b.span

\* C is what the two buffers hold and where they are looked at, and some
\* protocols: that of the one that reads pieces is among them.
Context(a, b, C) ==
  /\ a.request.protocol \in C.protocols
  /\ <<a.buf, a.p, b.buf, b.p>> = C.place
Near(a, b, C) ==
  /\ Looking(a) /\ Looking(b) /\ SameControl(a, b)
  /\ a.buf[a.p] = b.buf[b.p]
  /\ Agrees(Before(a), Before(b))
  /\ Context(a, b, C)

\* And they go on.
With(a, b, C) == Near(a, b, C) /\ a.error # "PAUSED_UPGRADE"

\* The parts of a parser that steps which end no span leave as they are.
Parts(s) == <<s.buf, s.p, s.start, s.span, s.request>>

LEMMA NearKept ==
  ASSUME NEW a, NEW b, NEW C, With(a, b, C), NEW x, NEW y,
         IsParser(x), IsParser(y), SameControl(x, y),
         Parts(x) = Parts(a), Parts(y) = Parts(b)
  PROVE  Near(x, y, C) /\ x.span = a.span
<1>1. /\ x.buf = a.buf /\ x.p = a.p /\ x.start = a.start /\ x.span = a.span /\ x.request = a.request
      /\ y.buf = b.buf /\ y.p = b.p /\ y.start = b.start /\ y.span = b.span /\ y.request = b.request
  BY DEF Parts
<1>2. Looking(a) /\ Looking(b) /\ a.buf[a.p] = b.buf[b.p] /\ Context(a, b, C)
      /\ Agrees(Before(a), Before(b))
  BY DEF With, Near
<1>3. Before(x) = Before(a) /\ Before(y) = Before(b)
  BY <1>1 DEF Before
<1>4. Looking(x) /\ Looking(y)
  BY <1>1, <1>2 DEF Looking
<1>5. x.buf[x.p] = y.buf[y.p] /\ Context(x, y, C)
  BY <1>1, <1>2 DEF Context
<1> QED BY <1>1, <1>2, <1>3, <1>4, <1>5 DEF Near

LEMMA WithKept ==
  ASSUME NEW a, NEW b, NEW C, With(a, b, C), NEW x, NEW y,
         IsParser(x), IsParser(y), SameControl(x, y),
         Parts(x) = Parts(a), Parts(y) = Parts(b), x.error # "PAUSED_UPGRADE"
  PROVE  With(x, y, C) /\ x.span = a.span
BY NearKept DEF With

\* Steps that change what is known, and the node.
LEMMA WithTo ==
  ASSUME NEW a, NEW b, NEW C, With(a, b, C), NEW n
  PROVE  LET x == Http!To(a, n)
             y == Http!To(b, n)
         IN  With(x, y, C) /\ x.span = a.span /\ x.node = n /\ x.error = a.error
             /\ x.header_state = a.header_state /\ x.flags = a.flags /\ x.request = a.request
<1> DEFINE x == Http!To(a, n)
           y == Http!To(b, n)
<1>1. IsParser(a) /\ IsParser(b) /\ SameControl(a, b) /\ a.error # "PAUSED_UPGRADE"
  BY DEF With, Near, Looking
<1>2. IsParser(x) /\ Parts(x) = Parts(a) /\ IsParser(y) /\ Parts(y) = Parts(b)
  BY <1>1 DEF Http!To, IsParser, Fields, Parts
<1>3. SameControl(x, y) /\ x.node = n /\ x.error = a.error
      /\ x.header_state = a.header_state /\ x.flags = a.flags /\ x.request = a.request
  BY <1>1 DEF Http!To, IsParser, Fields, SameControl
<1> HIDE DEF x, y
<1>4. With(x, y, C) /\ x.span = a.span
  BY <1>1, <1>2, <1>3, WithKept
<1> QED BY <1>3, <1>4 DEF x, y

LEMMA WithHeader ==
  ASSUME NEW a, NEW b, NEW C, With(a, b, C), NEW h
  PROVE  LET x == Http!Header(a, h)
             y == Http!Header(b, h)
         IN  With(x, y, C) /\ x.span = a.span /\ x.node = a.node /\ x.error = a.error
             /\ x.header_state = h /\ x.flags = a.flags /\ x.request = a.request
<1> DEFINE x == Http!Header(a, h)
           y == Http!Header(b, h)
<1>1. IsParser(a) /\ IsParser(b) /\ SameControl(a, b) /\ a.error # "PAUSED_UPGRADE"
  BY DEF With, Near, Looking
<1>2. IsParser(x) /\ Parts(x) = Parts(a) /\ IsParser(y) /\ Parts(y) = Parts(b)
  BY <1>1 DEF Http!Header, IsParser, Fields, Parts
<1>3. SameControl(x, y) /\ x.node = a.node /\ x.error = a.error
      /\ x.header_state = h /\ x.flags = a.flags /\ x.request = a.request
  BY <1>1 DEF Http!Header, IsParser, Fields, SameControl
<1> HIDE DEF x, y
<1>4. With(x, y, C) /\ x.span = a.span
  BY <1>1, <1>2, <1>3, WithKept
<1> QED BY <1>3, <1>4 DEF x, y

LEMMA WithFail ==
  ASSUME NEW a, NEW b, NEW C, With(a, b, C), NEW e, e # "PAUSED_UPGRADE"
  PROVE  LET x == Http!Fail(a, e)
             y == Http!Fail(b, e)
         IN  With(x, y, C) /\ x.span = a.span /\ x.error = e
<1> DEFINE x == Http!Fail(a, e)
           y == Http!Fail(b, e)
<1>1. IsParser(a) /\ IsParser(b) /\ SameControl(a, b)
  BY DEF With, Near, Looking
<1>2. IsParser(x) /\ Parts(x) = Parts(a) /\ IsParser(y) /\ Parts(y) = Parts(b)
  BY <1>1 DEF Http!Fail, IsParser, Fields, Parts
<1>3. SameControl(x, y) /\ x.error = e
  BY <1>1 DEF Http!Fail, IsParser, Fields, SameControl
<1> HIDE DEF x, y
<1>4. With(x, y, C) /\ x.span = a.span
  BY <1>2, <1>3, WithKept
<1> QED BY <1>3, <1>4 DEF x, y

\* Other steps that only change what is known.
Noted(s, f, h) == [s EXCEPT !.flags = f, !.header_state = h]
Counted(s, l, f, n) == [s EXCEPT !.flags = f, !.content_length = l, !.node = n]
Turned(s, g, e, n) == [s EXCEPT !.upgrade = g, !.error = e, !.node = n]
Lined(s, m, v, w, z, n) == [s EXCEPT !.method = m, !.major = v, !.minor = w, !.seen = z, !.node = n]

LEMMA WithFlags ==
  ASSUME NEW a, NEW b, NEW C, With(a, b, C), NEW f, NEW h
  PROVE  LET x == Noted(a, f, h)
             y == Noted(b, f, h)
         IN  With(x, y, C) /\ x.span = a.span /\ x.node = a.node /\ x.error = a.error
             /\ x.header_state = h /\ x.flags = f
<1> DEFINE x == Noted(a, f, h)
           y == Noted(b, f, h)
<1>1. IsParser(a) /\ IsParser(b) /\ SameControl(a, b) /\ a.error # "PAUSED_UPGRADE"
  BY DEF With, Near, Looking
<1>2. IsParser(x) /\ Parts(x) = Parts(a) /\ IsParser(y) /\ Parts(y) = Parts(b)
  BY <1>1 DEF Noted, IsParser, Fields, Parts
<1>3. SameControl(x, y) /\ x.node = a.node /\ x.error = a.error /\ x.header_state = h /\ x.flags = f
  BY <1>1 DEF Noted, IsParser, Fields, SameControl
<1> HIDE DEF x, y
<1>4. With(x, y, C) /\ x.span = a.span
  BY <1>1, <1>2, <1>3, WithKept
<1> QED BY <1>3, <1>4 DEF x, y

LEMMA WithLength ==
  ASSUME NEW a, NEW b, NEW C, With(a, b, C), NEW n, NEW f, NEW l
  PROVE  LET x == Counted(a, l, f, n)
             y == Counted(b, l, f, n)
         IN  With(x, y, C) /\ x.span = a.span /\ x.node = n /\ x.error = a.error
             /\ x.content_length = l /\ x.request = a.request
<1> DEFINE x == Counted(a, l, f, n)
           y == Counted(b, l, f, n)
<1>1. IsParser(a) /\ IsParser(b) /\ SameControl(a, b) /\ a.error # "PAUSED_UPGRADE"
  BY DEF With, Near, Looking
<1>2. IsParser(x) /\ Parts(x) = Parts(a) /\ IsParser(y) /\ Parts(y) = Parts(b)
  BY <1>1 DEF Counted, IsParser, Fields, Parts
<1>3. SameControl(x, y) /\ x.node = n /\ x.error = a.error /\ x.content_length = l
      /\ x.request = a.request
  BY <1>1 DEF Counted, IsParser, Fields, SameControl
<1> HIDE DEF x, y
<1>4. With(x, y, C) /\ x.span = a.span
  BY <1>1, <1>2, <1>3, WithKept
<1> QED BY <1>3, <1>4 DEF x, y

LEMMA WithUpgrade ==
  ASSUME NEW a, NEW b, NEW C, With(a, b, C), NEW n, NEW e, NEW g
  PROVE  LET x == Turned(a, g, e, n)
             y == Turned(b, g, e, n)
         IN  Near(x, y, C) /\ x.span = a.span /\ x.node = n /\ x.error = e /\ x.request = a.request
<1> DEFINE x == Turned(a, g, e, n)
           y == Turned(b, g, e, n)
<1>1. IsParser(a) /\ IsParser(b) /\ SameControl(a, b)
  BY DEF With, Near, Looking
<1>2. IsParser(x) /\ Parts(x) = Parts(a) /\ IsParser(y) /\ Parts(y) = Parts(b)
  BY <1>1 DEF Turned, IsParser, Fields, Parts
<1>3. SameControl(x, y) /\ x.node = n /\ x.error = e /\ x.request = a.request
  BY <1>1 DEF Turned, IsParser, Fields, SameControl
<1> HIDE DEF x, y
<1>4. Near(x, y, C) /\ x.span = a.span
  BY <1>2, <1>3, NearKept
<1> QED BY <1>3, <1>4 DEF x, y

LEMMA WithLine ==
  ASSUME NEW a, NEW b, NEW C, With(a, b, C), NEW m, NEW v, NEW w, NEW z, NEW n
  PROVE  LET x == Lined(a, m, v, w, z, n)
             y == Lined(b, m, v, w, z, n)
         IN  With(x, y, C) /\ x.span = a.span /\ x.node = n /\ x.error = a.error /\ x.request = a.request
<1> DEFINE x == Lined(a, m, v, w, z, n)
           y == Lined(b, m, v, w, z, n)
<1>1. IsParser(a) /\ IsParser(b) /\ SameControl(a, b) /\ a.error # "PAUSED_UPGRADE"
  BY DEF With, Near, Looking
<1>2. IsParser(x) /\ Parts(x) = Parts(a) /\ IsParser(y) /\ Parts(y) = Parts(b)
  BY <1>1 DEF Lined, IsParser, Fields, Parts
<1>3. SameControl(x, y) /\ x.node = n /\ x.error = a.error /\ x.request = a.request
  BY <1>1 DEF Lined, IsParser, Fields, SameControl
<1> HIDE DEF x, y
<1>4. With(x, y, C) /\ x.span = a.span
  BY <1>1, <1>2, <1>3, WithKept
<1> QED BY <1>3, <1>4 DEF x, y

\* A request without an open span has everything that was read.
LEMMA BeforeNone ==
  ASSUME NEW s, s.span = "none"
  PROVE  Before(s) = s.request /\ After(s) = s.request
BY DEF Before, After, Handed

\* The text of an open span.
LEMMA TextIs ==
  ASSUME NEW s, Looking(s)
  PROVE  /\ SubSeq(s.buf, s.start, s.p - 1) \in Seq(Units)
         /\ SubSeq(s.buf, s.start, s.p) \in Seq(Units)
         /\ SubSeq(s.buf, s.start, s.p) = SubSeq(s.buf, s.start, s.p - 1) \o <<s.buf[s.p]>>
         /\ s.buf[s.p] \in Units
<1>1. s.buf \in Seq(Units) /\ s.p \in 1 .. Len(s.buf) /\ s.start \in 1 .. s.p
  BY DEF Looking
<1>2. PICK z \in Seq(Units) : z = s.buf
  BY <1>1
<1>3. PICK p \in Nat : p = s.p /\ p \in 1 .. Len(z)
  BY <1>1, <1>2
<1>4. PICK k \in Nat : k = s.start /\ k \in 1 .. p
  BY <1>1, <1>3
<1>5. \A n \in 1 .. Len(z) : z[n] \in Units
  BY ElementOfSeq
<1>6. SubSeq(z, k, p - 1) \in Seq(Units) /\ SubSeq(z, k, p) \in Seq(Units)
  <2>1. ASSUME NEW n \in Nat, n <= Len(z) PROVE SubSeq(z, k, n) \in Seq(Units)
    BY <1>4, <1>5, <2>1
  <2> QED BY <1>3, <2>1
<1>7. SubSeq(z, k, p) = SubSeq(z, k, p - 1) \o <<z[p]>>
  <2>1. k \in 1 .. Len(z) /\ p \in k .. Len(z)
    BY <1>3, <1>4
  <2> QED BY <2>1, SubSeqRecursiveSecond
<1> QED BY <1>2, <1>3, <1>4, <1>5, <1>6, <1>7

\* What a protocol may be: none yet, or some units from behind a piece of the URL.
Protocols == {<<>>} \cup [1 .. Http!ProtocolUnits -> Units \cup {Http!Stale}]

\* The callback of an open span hands over its text; that of the URL looks for
\* the protocol as well.
LEMMA CallbackIs ==
  ASSUME NEW s, Looking(s), NEW last \in {s.p - 1, s.p}
  PROVE  LET x == Http!SpanCallback(s, last)
             h == Handed(s.span, s.request, SubSeq(s.buf, s.start, last))
         IN  /\ x = [s EXCEPT !.request = x.request]
             /\ IsRequest(x.request) /\ Agrees(x.request, h)
             /\ s.span # "url" => x.request.protocol = s.request.protocol
             /\ x.request.protocol \in Protocols \cup {s.request.protocol}
<1> DEFINE x == Http!SpanCallback(s, last)
           t == SubSeq(s.buf, s.start, last)
           after == SubSeq(s.buf, last + 1, Len(s.buf))
           h == Handed(s.span, s.request, t)
           v == [k \in 1 .. Http!ProtocolUnits |->
                   IF k + 1 <= Len(after) THEN after[k + 1] ELSE Http!Stale]
<1>1. IsParser(s) /\ IsRequest(s.request) /\ s.buf \in Seq(Units)
  BY DEF Looking
<1>2. t \in Seq(Units)
  BY TextIs
<1>3. IsRequest(h) /\ h.protocol = s.request.protocol
  <2> HIDE DEF t
  <2> QED BY <1>1, <1>2, HandedParts
<1>4. v \in Protocols
  <2>1. PICK z \in Seq(Units) : z = s.buf
    BY <1>1
  <2>2. PICK m \in Int : m = last + 1
    BY DEF Looking
  <2>3. PICK n \in Nat : n = Len(z)
    BY <2>1
  <2>4. after = SubSeq(z, m, n)
    BY <2>1, <2>2, <2>3
  <2>5. m >= 1
    BY <2>2 DEF Looking
  <2>6. \A i \in m .. n : z[i] \in Units
    BY <2>1, <2>3, <2>5, ElementOfSeq
  <2>7. after \in Seq(Units)
    <3>1. SubSeq(z, m, n) \in Seq(Units)
      BY <2>6, SubSeqProperties
    <3> QED BY <2>4, <3>1
  <2> HIDE DEF after
  <2>8. ASSUME NEW k \in Nat, k + 1 <= Len(after) PROVE after[k + 1] \in Units
    BY <2>7, <2>8, ElementOfSeq
  <2>9. \A k \in 1 .. Http!ProtocolUnits : k \in Nat
    BY DEF Http!ProtocolUnits
  <2> QED BY <2>8, <2>9 DEF Protocols
<1>5. ASSUME NEW r, x = [s EXCEPT !.request = r]
      PROVE  x.request = r /\ x = [s EXCEPT !.request = x.request]
  BY <1>1, <1>5 DEF IsParser, Fields
<1>6. CASE s.span = "url"
  <2>1. x = [s EXCEPT !.request = [s.request EXCEPT !.url = @ \o t, !.protocol = v]]
    BY <1>6 DEF Http!SpanCallback, Http!on_url
  <2> DEFINE q == [s.request EXCEPT !.url = @ \o t, !.protocol = v]
  <2>2. h = [s.request EXCEPT !.url = @ \o t]
    BY <1>6 DEF Handed
  <2> HIDE DEF v, t
  <2>5. PICK w : w = s.request.url \o t
    OBVIOUS
  <2>6. /\ q.url = w /\ q.protocol = v /\ q.headers = s.request.headers
        /\ q.index = s.request.index /\ q.data = s.request.data
        /\ q.complete = s.request.complete /\ q.name = s.request.name
        /\ q = [f \in RequestFields |-> q[f]]
    BY <1>1, <2>5 DEF IsRequest, RequestFields
  <2>7. /\ h.url = w /\ h.headers = s.request.headers
        /\ h.index = s.request.index /\ h.data = s.request.data
        /\ h.complete = s.request.complete /\ h.name = s.request.name
    BY <1>1, <2>2, <2>5 DEF IsRequest, RequestFields
  <2>8. w \in Seq(Units) /\ s.request.headers \in Seq(Entries) /\ s.request.index \in Nat
        /\ s.request.data \in Seq(Units)
    BY <1>1, <1>2, <2>5, ConcatProperties DEF IsRequest, RequestFields
  <2> HIDE DEF q, h
  <2>3. Agrees(q, h) /\ q.protocol = v /\ IsRequest(q)
    BY <2>6, <2>7, <2>8 DEF IsRequest, RequestFields, Agrees
  <2> HIDE DEF x
  <2>4. x.request = q /\ x = [s EXCEPT !.request = x.request]
    BY <1>5, <2>1 DEF q
  <2> QED BY <1>3, <1>4, <1>6, <2>3, <2>4 DEF x, h, t
<1>7. CASE s.span \in {"field", "value", "body"}
  <2>1. x = [s EXCEPT !.request = h]
    BY <1>7 DEF Http!SpanCallback, Handed, Http!on_body
  <2> HIDE DEF x, h
  <2>2. x.request = h /\ x = [s EXCEPT !.request = x.request]
    BY <1>5, <2>1
  <2> QED BY <1>3, <1>7, <2>2 DEF x, h, Agrees
<1>8. CASE s.span \notin {"url", "field", "value", "body"}
  <2>1. x = s /\ h = s.request
    BY <1>8 DEF Http!SpanCallback, Handed
  <2>2. x = [s EXCEPT !.request = s.request]
    BY <1>1, <2>1 DEF IsParser, Fields
  <2> QED BY <1>1, <1>5, <2>1, <2>2 DEF Agrees
<1> QED BY <1>6, <1>7, <1>8

\* Two parsers at the same place have the same after it.
LEMMA AfterAgrees ==
  ASSUME NEW a, NEW b, NEW C, Near(a, b, C)
  PROVE  Agrees(After(a), After(b))
<1>1. Looking(a) /\ Looking(b) /\ a.span = b.span /\ a.buf[a.p] = b.buf[b.p] /\ Agrees(Before(a), Before(b))
  BY DEF With, Near, SameControl
<1>2. IsRequest(a.request) /\ IsRequest(b.request)
  BY <1>1 DEF Looking
<1> DEFINE k == a.span
           q == a.request
           r == b.request
           t == SubSeq(a.buf, a.start, a.p - 1)
           z == SubSeq(b.buf, b.start, b.p - 1)
           u == <<a.buf[a.p]>>
<1>3. t \in Seq(Units) /\ z \in Seq(Units) /\ u \in Seq(Units)
      /\ SubSeq(a.buf, a.start, a.p) = t \o u /\ SubSeq(b.buf, b.start, b.p) = z \o u
  <2>1. u \in Seq(Units)
    <3>1. PICK w : w = a.buf[a.p]
      OBVIOUS
    <3>2. w \in Units
      BY <1>1, <3>1, TextIs
    <3> QED BY <3>1, <3>2
  <2> QED BY <1>1, <2>1, TextIs
<1>4. Before(a) = Handed(k, q, t) /\ Before(b) = Handed(k, r, z)
      /\ After(a) = Handed(k, q, t \o u) /\ After(b) = Handed(k, r, z \o u)
  BY <1>1, <1>3 DEF Before, After
<1> HIDE DEF k, q, r, t, z, u
<1>5. IsRequest(q) /\ IsRequest(r)
  BY <1>2 DEF q, r
<1>6. IsRequest(Handed(k, q, t)) /\ IsRequest(Handed(k, r, z))
  BY <1>3, <1>5, HandedParts
<1>7. Agrees(Handed(k, Handed(k, q, t), u), Handed(k, Handed(k, r, z), u))
  BY <1>1, <1>3, <1>4, <1>6, HandedAgrees
<1>8. Agrees(Handed(k, Handed(k, q, t), u), Handed(k, q, t \o u))
      /\ Agrees(Handed(k, Handed(k, r, z), u), Handed(k, r, z \o u))
  BY <1>3, <1>5, HandedTwice
<1> QED BY <1>4, <1>7, <1>8 DEF Agrees

\* A span starts where none is open.
LEMMA WithSpanStart ==
  ASSUME NEW a, NEW b, NEW C, With(a, b, C), a.span = "none", NEW k
  PROVE  LET x == Http!SpanStart(a, k)
             y == Http!SpanStart(b, k)
         IN  With(x, y, C) /\ x.span = k /\ x.node = a.node /\ x.error = a.error
             /\ x.header_state = a.header_state /\ x.flags = a.flags /\ x.request = a.request
             /\ x.content_length = a.content_length
<1> DEFINE x == Http!SpanStart(a, k)
           y == Http!SpanStart(b, k)
<1>1. Looking(a) /\ Looking(b) /\ SameControl(a, b) /\ a.buf[a.p] = b.buf[b.p]
      /\ Agrees(Before(a), Before(b)) /\ Context(a, b, C)
      /\ a.error # "PAUSED_UPGRADE"
  BY DEF With, Near
<1>2. IsParser(a) /\ IsParser(b)
  BY <1>1 DEF Looking
<1>3. /\ IsParser(x) /\ x.request = a.request /\ x.buf = a.buf /\ x.p = a.p /\ x.start = a.p /\ x.span = k
      /\ IsParser(y) /\ y.request = b.request /\ y.buf = b.buf /\ y.p = b.p /\ y.start = b.p /\ y.span = k
  BY <1>2 DEF Http!SpanStart, IsParser, Fields
<1>4. SameControl(x, y) /\ x.node = a.node /\ x.error = a.error
      /\ x.header_state = a.header_state /\ x.flags = a.flags /\ x.request = a.request
      /\ x.content_length = a.content_length
  BY <1>1, <1>2 DEF Http!SpanStart, IsParser, Fields, SameControl
<1> HIDE DEF x, y
<1>5. Looking(x) /\ Looking(y)
  BY <1>1, <1>3 DEF Looking
<1>6. Before(x) = Handed(k, a.request, <<>>) /\ Before(y) = Handed(k, b.request, <<>>)
  <2>1. ASSUME NEW z, NEW p \in Nat PROVE SubSeq(z, p, p - 1) = <<>>
    BY SubSeqEmpty
  <2>2. a.p \in Nat /\ b.p \in Nat
    BY <1>1 DEF Looking
  <2>3. SubSeq(x.buf, x.start, x.p - 1) = <<>> /\ SubSeq(y.buf, y.start, y.p - 1) = <<>>
    BY <1>3, <2>1, <2>2
  <2> QED BY <1>3, <2>3 DEF Before
<1>7. Agrees(a.request, b.request) /\ IsRequest(a.request) /\ IsRequest(b.request)
  BY <1>1, BeforeNone DEF SameControl, Looking
<1>8. Agrees(Before(x), Before(y))
  <2>1. <<>> \in Seq(Units)
    OBVIOUS
  <2>2. Agrees(Handed(k, a.request, <<>>), Handed(k, b.request, <<>>))
    BY <1>7, <2>1, HandedAgrees
  <2> QED BY <1>6, <2>2
<1>9. With(x, y, C)
  BY <1>1, <1>3, <1>4, <1>5, <1>8 DEF With, Near, Context
<1> QED BY <1>3, <1>4, <1>9 DEF x, y

\* A span that is handed over, up to the present unit or with it.
LEMMA AtEnd ==
  ASSUME NEW s, Looking(s), NEW last \in {s.p - 1, s.p}
  PROVE  LET x == [Http!SpanCallback(s, last) EXCEPT !.span = "none"]
         IN  /\ Looking(x) /\ x.span = "none" /\ x.buf = s.buf /\ x.p = s.p
             /\ x = [s EXCEPT !.request = x.request, !.span = "none"]
             /\ Agrees(x.request, Handed(s.span, s.request, SubSeq(s.buf, s.start, last)))
             /\ s.span # "url" => x.request.protocol = s.request.protocol
             /\ x.request.protocol \in Protocols \cup {s.request.protocol}
<1> DEFINE c == Http!SpanCallback(s, last)
           x == [c EXCEPT !.span = "none"]
<1>1. /\ c = [s EXCEPT !.request = c.request] /\ IsRequest(c.request)
      /\ Agrees(c.request, Handed(s.span, s.request, SubSeq(s.buf, s.start, last)))
      /\ s.span # "url" => c.request.protocol = s.request.protocol
      /\ c.request.protocol \in Protocols \cup {s.request.protocol}
  BY CallbackIs
<1> HIDE DEF c
<1>2. PICK r : r = c.request
  OBVIOUS
<1>3. c = [s EXCEPT !.request = r]
  BY <1>1, <1>2
<1>4. IsParser(s) /\ s.buf \in Seq(Units) /\ s.p \in 1 .. Len(s.buf) /\ s.start \in 1 .. s.p
  BY DEF Looking
<1>5. IsParser(x) /\ x.request = r /\ x.span = "none" /\ x.buf = s.buf /\ x.p = s.p /\ x.start = s.start
  BY <1>3, <1>4 DEF IsParser, Fields
<1>6. x = [s EXCEPT !.request = r, !.span = "none"]
  BY <1>3, <1>4 DEF IsParser, Fields
<1> HIDE DEF x
<1>7. Looking(x)
  BY <1>1, <1>2, <1>4, <1>5 DEF Looking
<1> QED BY <1>1, <1>2, <1>5, <1>6, <1>7 DEF x, c

\* No callback of a span completes the request.
LEMMA CompleteIs ==
  ASSUME NEW s, Looking(s)
  PROVE  Before(s).complete = s.request.complete /\ After(s).complete = s.request.complete
<1> DEFINE t == SubSeq(s.buf, s.start, s.p - 1)
           u == SubSeq(s.buf, s.start, s.p)
<1>1. t \in Seq(Units) /\ u \in Seq(Units)
  BY TextIs
<1>2. Before(s) = Handed(s.span, s.request, t) /\ After(s) = Handed(s.span, s.request, u)
  BY DEF Before, After
<1> HIDE DEF t, u
<1> QED BY <1>1, <1>2, HandedParts DEF Looking

\* What both have handed over of a span is the same.
LEMMA WithEnded ==
  ASSUME NEW a, NEW b, NEW C, With(a, b, C), a.span # "url" \/ Protocols \subseteq C.protocols,
         NEW x, NEW y, Looking(x), Looking(y), SameControl(x, y), x.span = "none",
         x.buf = a.buf, x.p = a.p, y.buf = b.buf, y.p = b.p, x.error = a.error,
         a.span # "url" => x.request.protocol = a.request.protocol,
         x.request.protocol \in Protocols \cup {a.request.protocol},
         \/ Agrees(x.request, Before(a)) /\ Agrees(y.request, Before(b))
         \/ Agrees(x.request, After(a)) /\ Agrees(y.request, After(b))
  PROVE  With(x, y, C)
<1>1. a.buf[a.p] = b.buf[b.p] /\ Agrees(Before(a), Before(b)) /\ Context(a, b, C) /\ Looking(a)
      /\ a.error # "PAUSED_UPGRADE"
  BY DEF With, Near
<1>0. Near(a, b, C)
  BY DEF With
<1>2. Agrees(After(a), After(b))
  BY <1>0, AfterAgrees, Zenon
<1>3. y.span = "none"
  BY DEF SameControl
<1>4. Before(x) = x.request /\ Before(y) = y.request
  BY <1>3, BeforeNone
<1>5. Agrees(x.request, y.request)
  BY <1>1, <1>2 DEF Agrees
<1>6. Context(x, y, C)
  BY <1>1 DEF Context
<1>7. Before(a).complete = a.request.complete /\ After(a).complete = a.request.complete
  BY <1>1, CompleteIs
<1>8. x.request.complete = a.request.complete
  BY <1>7 DEF Agrees
<1> QED BY <1>1, <1>4, <1>5, <1>6, <1>8 DEF With, Near

LEMMA WithSpanEnd ==
  ASSUME NEW a, NEW b, NEW C, With(a, b, C), a.span # "url" \/ Protocols \subseteq C.protocols
  PROVE  LET x == Http!SpanEnd(a)
             y == Http!SpanEnd(b)
         IN  With(x, y, C) /\ x.span = "none" /\ x.node = a.node /\ x.error = a.error
             /\ x.header_state = a.header_state /\ x.flags = a.flags
<1> DEFINE x == Http!SpanEnd(a)
           y == Http!SpanEnd(b)
<1>1. Looking(a) /\ Looking(b) /\ SameControl(a, b)
  BY SMTT(40) DEF With, Near
<1>2. /\ Looking(x) /\ x.span = "none" /\ x.buf = a.buf /\ x.p = a.p
      /\ x = [a EXCEPT !.request = x.request, !.span = "none"]
      /\ Agrees(x.request, Before(a))
      /\ a.span # "url" => x.request.protocol = a.request.protocol
      /\ x.request.protocol \in Protocols \cup {a.request.protocol}
  BY <1>1, AtEnd, ZenonT(60) DEF Http!SpanEnd, Before
<1>3. /\ Looking(y) /\ y.span = "none" /\ y.buf = b.buf /\ y.p = b.p
      /\ y = [b EXCEPT !.request = y.request, !.span = "none"]
      /\ Agrees(y.request, Before(b))
  BY <1>1, AtEnd, ZenonT(60) DEF Http!SpanEnd, Before
<1> HIDE DEF x, y
<1>4. SameControl(x, y) /\ x.node = a.node /\ x.error = a.error
      /\ x.header_state = a.header_state /\ x.flags = a.flags
  <2>1. IsParser(a) /\ IsParser(b)
    BY <1>1 DEF Looking
  <2>2. PICK q, r : q = x.request /\ r = y.request
    OBVIOUS
  <2>3. x = [a EXCEPT !.request = q, !.span = "none"] /\ y = [b EXCEPT !.request = r, !.span = "none"]
    BY <1>2, <1>3, <2>2
  <2> QED BY <1>1, <2>1, <2>3 DEF IsParser, Fields, SameControl
<1>5. With(x, y, C)
  BY <1>2, <1>3, <1>4, WithEnded
<1> QED BY <1>2, <1>4, <1>5 DEF x, y

\* A byte of a body.
LEMMA WithConsume ==
  ASSUME NEW a, NEW b, NEW C, With(a, b, C), a.span \in {"none", "body"}
  PROVE  LET x == Http!Consume(a)
             y == Http!Consume(b)
         IN  With(x, y, C) /\ x.span \in {"none", "body"} /\ x.node = a.node /\ x.error = a.error
             /\ (x.content_length = 0 => x.span = "none")
             /\ x.content_length = y.content_length
<1> DEFINE o == IF a.span = "body" THEN a ELSE Http!SpanStart(a, "body")
           w == IF b.span = "body" THEN b ELSE Http!SpanStart(b, "body")
           l == o.content_length - 1
           c == [o EXCEPT !.content_length = l]
           d == [w EXCEPT !.content_length = l]
           x == Http!Consume(a)
           y == Http!Consume(b)
<1> SUFFICES With(x, y, C) /\ x.span \in {"none", "body"} /\ x.node = a.node /\ x.error = a.error
             /\ (x.content_length = 0 => x.span = "none") /\ x.content_length = y.content_length
  OBVIOUS
<1>1. a.span = b.span /\ a.content_length = b.content_length
  BY DEF With, Near, SameControl
<1>2. With(o, w, C) /\ o.span = "body" /\ o.node = a.node /\ o.error = a.error
  <2>1. CASE a.span = "body"
    BY <1>1, <2>1
  <2>2. CASE a.span = "none"
    <3>1. PICK k : k = "body"
      OBVIOUS
    <3>2. With(Http!SpanStart(a, k), Http!SpanStart(b, k), C) /\ Http!SpanStart(a, k).span = k
          /\ Http!SpanStart(a, k).node = a.node /\ Http!SpanStart(a, k).error = a.error
      BY <2>2, WithSpanStart
    <3> QED BY <1>1, <2>2, <3>1, <3>2
  <2> QED BY <2>1, <2>2
<1> HIDE DEF o, w
<1>3. w.content_length = o.content_length
  BY <1>2 DEF With, Near, SameControl
<1>4. With(c, d, C) /\ c.span = "body" /\ c.node = a.node /\ c.error = a.error /\ c.content_length = l
  <2>1. PICK k : k = l
    OBVIOUS
  <2>2. c = Counted(o, k, o.flags, o.node)
    BY <1>2, <2>1 DEF Counted, With, Near, Looking, IsParser, Fields
  <2>3. d = Counted(w, k, o.flags, o.node)
    BY <1>2, <2>1, ZenonT(60) DEF Counted, With, Near, SameControl, Looking, IsParser, Fields
  <2> HIDE DEF c, d, l
  <2>4. With(c, d, C) /\ c.span = o.span /\ c.node = o.node /\ c.error = o.error /\ c.content_length = k
    BY <1>2, <2>2, <2>3, WithLength
  <2> QED BY <1>2, <2>1, <2>4
<1>5. x = IF c.content_length = 0 THEN [Http!SpanCallback(c, c.p) EXCEPT !.span = "none"] ELSE c
  BY DEF Http!Consume, o
<1>6. y = IF d.content_length = 0 THEN [Http!SpanCallback(d, d.p) EXCEPT !.span = "none"] ELSE d
  BY <1>3 DEF Http!Consume, w
<1> HIDE DEF c, d, l, x, y
<1>7. d.content_length = c.content_length
  BY <1>4 DEF With, Near, SameControl
<1>8. CASE c.content_length # 0
  BY <1>4, <1>5, <1>6, <1>7, <1>8
<1>9. CASE c.content_length = 0
  <2>1. Looking(c) /\ Looking(d) /\ SameControl(c, d)
    BY <1>4, SMTT(40) DEF With, Near
  <2>2. /\ Looking(x) /\ x.span = "none" /\ x.buf = c.buf /\ x.p = c.p
        /\ x = [c EXCEPT !.request = x.request, !.span = "none"]
        /\ Agrees(x.request, After(c))
        /\ c.span # "url" => x.request.protocol = c.request.protocol
        /\ x.request.protocol \in Protocols \cup {c.request.protocol}
    BY <1>5, <1>9, <2>1, AtEnd, ZenonT(60) DEF After
  <2>3. /\ Looking(y) /\ y.span = "none" /\ y.buf = d.buf /\ y.p = d.p
        /\ y = [d EXCEPT !.request = y.request, !.span = "none"]
        /\ Agrees(y.request, After(d))
    BY <1>6, <1>7, <1>9, <2>1, AtEnd, ZenonT(60) DEF After
  <2>4. SameControl(x, y) /\ x.node = c.node /\ x.error = c.error /\ x.content_length = c.content_length
    <3>1. IsParser(c) /\ IsParser(d)
      BY <2>1 DEF Looking
    <3>2. PICK q, r : q = x.request /\ r = y.request
      OBVIOUS
    <3>3. x = [c EXCEPT !.request = q, !.span = "none"] /\ y = [d EXCEPT !.request = r, !.span = "none"]
      BY <2>2, <2>3, <3>2
    <3> QED BY <2>1, <3>1, <3>3 DEF IsParser, Fields, SameControl
  <2>5. With(x, y, C)
    BY <1>4, <2>2, <2>3, <2>4, WithEnded
  <2>6. x.content_length = y.content_length
    BY <2>4 DEF SameControl
  <2> QED BY <1>4, <2>2, <2>4, <2>5, <2>6
<1> QED BY <1>8, <1>9

-----------------------------------------------------------------------------
\* The nodes of the parser, and what a step from one to another keeps.

LineNodes == {"start", "after_start_req_rest", "req_first_space_before_url", "req_spaces_before_url"}
UrlNodes == {"url_schema", "url_schema_delim", "url_schema_delim_1", "url_server",
             "url_server_with_at", "url_path", "url_query", "url_fragment"}
FieldNodes == {"header_field_2", "header_field_colon", "header_field_general"}
ValueNodes == {"header_value", "header_value_connection", "header_value_connection_ws",
               "header_value_connection_token", "header_value_content_length",
               "header_value_content_length_ws", "header_value_te_token",
               "header_value_te_token_ows", "header_value_te_chunked_last"}
BodyNodes == {"body_identity", "chunk_data"}
PlainNodes == {"url_to_http", "url_skip_lf_to_http09_1", "url_to_http_09",
               "req_http_start", "req_http_major", "req_http_dot", "req_http_minor",
               "req_http_complete", "req_http_complete_crlf", "headers_start",
               "header_field_start", "header_value_discard_ws",
               "header_value_discard_ws_almost_done", "header_value_discard_lws",
               "header_value_almost_done", "header_value_lws", "headers_almost_done",
               "chunk_size_digit", "chunk_size", "chunk_extensions", "chunk_extension_name",
               "chunk_extension_value", "chunk_extension_quoted_value",
               "chunk_extension_quoted_value_done", "chunk_size_almost_done",
               "chunk_data_almost_done", "chunk_data_almost_done_1", "closed"}

\* The nodes up to the end of the URL.
EarlyNodes == LineNodes \cup UrlNodes

\* The spans that may be open at a node.
SpanOpen(node, span) ==
  \/ span = "none" /\ node \in LineNodes \cup PlainNodes \cup BodyNodes
  \/ span = "url" /\ node \in UrlNodes
  \/ span = "field" /\ node \in FieldNodes
  \/ span = "value" /\ node \in ValueNodes
  \/ span = "body" /\ node \in BodyNodes

\* Where two parsers have come to: the same, and unless the request is complete
\* not to a node of E.
Reached(a, b, C, E) ==
  /\ Near(a, b, C)
  /\ a.error = "OK" =>
       SpanOpen(a.node, a.span) /\ (a.node \notin E \/ (a.request.complete /\ a.span = "none"))
  /\ a.error = "PAUSED_UPGRADE" => a.request.complete /\ a.span = "none"

LEMMA ReachedTo ==
  ASSUME NEW a, NEW b, NEW C, NEW E, With(a, b, C), NEW n, n \notin E, SpanOpen(n, a.span)
  PROVE  Reached(Http!To(a, n), Http!To(b, n), C, E)
<1> DEFINE x == Http!To(a, n)
           y == Http!To(b, n)
<1>1. With(x, y, C) /\ x.span = a.span /\ x.node = n
  BY WithTo
<1> HIDE DEF x, y
<1>2. Reached(x, y, C, E)
  BY <1>1 DEF Reached, With
<1> QED BY <1>2 DEF x, y

LEMMA ReachedFail ==
  ASSUME NEW a, NEW b, NEW C, NEW E, With(a, b, C), NEW e, e # "OK", e # "PAUSED_UPGRADE"
  PROVE  Reached(Http!Fail(a, e), Http!Fail(b, e), C, E)
<1> DEFINE x == Http!Fail(a, e)
           y == Http!Fail(b, e)
<1>1. With(x, y, C) /\ x.error = e
  BY WithFail
<1> HIDE DEF x, y
<1>2. Reached(x, y, C, E)
  BY <1>1 DEF Reached, With
<1> QED BY <1>2 DEF x, y

LEMMA Same ==
  ASSUME NEW a, NEW b, NEW C, With(a, b, C)
  PROVE  /\ a.node = b.node /\ a.error = b.error /\ a.flags = b.flags
         /\ a.header_state = b.header_state /\ a.content_length = b.content_length
         /\ a.method = b.method /\ a.major = b.major /\ a.minor = b.minor
         /\ a.upgrade = b.upgrade /\ a.seen = b.seen /\ a.span = b.span
BY DEF With, Near, SameControl

\* No line feed is read where something else is expected.
LEMMA LineFeedIs ==
  /\ Http!LF \notin Http!Url \cup Http!Letters \cup {"?", "#", "@"}
  /\ Http!LF \notin {"T", "ST", "ECT", "CE", "I", "TE", "UP", "ORD"}
  /\ Http!LF # Http!SP
<1>1. Http!LF \notin Http!Url
  BY Zenon DEF Http!LF, Http!Url
<1>2. Http!LF \notin {"T", "ST", "ECT", "CE", "I", "TE", "UP", "ORD"}
  BY Zenon DEF Http!LF
<1>3. Http!LF \notin {"?", "#", "@"} /\ Http!LF \notin Http!Letters
  BY Zenon DEF Http!LF, Http!Letters
<1>4. Http!LF # Http!SP
  BY Zenon DEF Http!LF, Http!SP
<1> QED BY <1>1, <1>2, <1>3, <1>4

\* The request is complete, and has what it had.
LEMMA WithComplete ==
  ASSUME NEW a, NEW b, NEW C, With(a, b, C), a.span = "none"
  PROVE  LET x == Http!MessageComplete(a)
             y == Http!MessageComplete(b)
         IN  With(x, y, C) /\ x.span = "none" /\ x.error = a.error /\ x.node = a.node
             /\ x.request.complete
<1> DEFINE x == Http!MessageComplete(a)
           y == Http!MessageComplete(b)
           q == Http!on_message_complete(a.request, a.method)
           r == Http!on_message_complete(b.request, b.method)
<1>1. Looking(a) /\ Looking(b) /\ SameControl(a, b) /\ a.buf[a.p] = b.buf[b.p]
      /\ Agrees(Before(a), Before(b)) /\ Context(a, b, C)
      /\ a.error # "PAUSED_UPGRADE"
  BY DEF With, Near
<1>2. a.method = b.method /\ b.span = "none" /\ IsRequest(a.request) /\ IsRequest(b.request)
      /\ IsParser(a) /\ IsParser(b)
  BY <1>1 DEF SameControl, Looking
<1>3. Agrees(a.request, b.request)
  BY <1>1, <1>2, BeforeNone
<1>4. IsRequest(q) /\ IsRequest(r) /\ Agrees(q, r) /\ q.protocol = a.request.protocol /\ q.complete
  BY <1>2, <1>3 DEF Http!on_message_complete, IsRequest, RequestFields, Agrees
<1>5. x = [a EXCEPT !.request = q] /\ y = [b EXCEPT !.request = r]
  BY DEF Http!MessageComplete
<1> HIDE DEF q, r, x, y
<1>6. /\ IsParser(x) /\ x.request = q /\ x.buf = a.buf /\ x.p = a.p /\ x.start = a.start /\ x.span = "none"
      /\ IsParser(y) /\ y.request = r /\ y.buf = b.buf /\ y.p = b.p /\ y.start = b.start /\ y.span = "none"
  BY <1>2, <1>5 DEF IsParser, Fields
<1>7. SameControl(x, y) /\ x.error = a.error /\ x.node = a.node
  BY <1>1, <1>2, <1>5 DEF SameControl, IsParser, Fields
<1>8. Looking(x) /\ Looking(y)
  BY <1>1, <1>4, <1>6 DEF Looking
<1>9. Agrees(Before(x), Before(y))
  BY <1>4, <1>6, BeforeNone
<1>10. With(x, y, C)
  BY <1>1, <1>4, <1>6, <1>7, <1>8, <1>9 DEF With, Near, Context
<1> QED BY <1>4, <1>6, <1>7, <1>10 DEF x, y

LEMMA ReachedComplete ==
  ASSUME NEW a, NEW b, NEW C, With(a, b, C), a.span = "none", a.request.complete, NEW E
  PROVE  /\ Reached(Http!PauseUpgrade(a), Http!PauseUpgrade(b), C, E)
         /\ Reached(Http!llhttp__after_message_complete(a), Http!llhttp__after_message_complete(b), C, E)
<1>1. Reached(Http!PauseUpgrade(a), Http!PauseUpgrade(b), C, E)
  <2> DEFINE x == Http!PauseUpgrade(a)
             y == Http!PauseUpgrade(b)
  <2>1. x = Turned(a, a.upgrade, "PAUSED_UPGRADE", "after_message_complete")
    BY DEF With, Near, Looking, IsParser, Fields, Turned, Http!PauseUpgrade
  <2>4. a.upgrade = b.upgrade
    BY Same
  <2>2. y = Turned(b, a.upgrade, "PAUSED_UPGRADE", "after_message_complete")
    BY <2>4 DEF With, Near, Looking, IsParser, Fields, Turned, Http!PauseUpgrade
  <2> HIDE DEF x, y
  <2>3. Near(x, y, C) /\ x.span = a.span /\ x.error = "PAUSED_UPGRADE" /\ x.request = a.request
    BY <2>1, <2>2, WithUpgrade
  <2>5. Reached(x, y, C, E)
    BY <2>3 DEF Reached
  <2> QED BY <2>5 DEF x, y
<1>2. ASSUME NEW n \in {"start", "closed"}, NEW l
      PROVE  Reached(Counted(a, l, {}, n), Counted(b, l, {}, n), C, E)
  <2> DEFINE x == Counted(a, l, {}, n)
             y == Counted(b, l, {}, n)
  <2>1. With(x, y, C) /\ x.span = a.span /\ x.node = n /\ x.request = a.request
    BY WithLength
  <2> HIDE DEF x, y
  <2>2. Reached(x, y, C, E)
    BY <2>1 DEF Reached, With, SpanOpen, PlainNodes, LineNodes
  <2> QED BY <2>2 DEF x, y
<1>3. ASSUME NEW s, IsParser(s)
      PROVE  Http!llhttp__after_message_complete(s) =
               IF Http!llhttp_should_keep_alive(s) THEN Counted(s, 0, {}, "start")
                                                   ELSE Counted(s, s.content_length, {}, "closed")
  <2>1. CASE Http!llhttp_should_keep_alive(s)
    BY <2>1, Zenon DEF Http!llhttp__after_message_complete, Counted
  <2>2. CASE ~ Http!llhttp_should_keep_alive(s)
    BY <1>3, <2>2 DEF Http!llhttp__after_message_complete, Counted, IsParser, Fields
  <2> QED BY <2>1, <2>2
<1>4. Http!llhttp_should_keep_alive(a) = Http!llhttp_should_keep_alive(b)
      /\ a.content_length = b.content_length /\ IsParser(a) /\ IsParser(b)
  BY Same DEF Http!llhttp_should_keep_alive, With, Near, Looking
<1>5. Reached(Http!llhttp__after_message_complete(a), Http!llhttp__after_message_complete(b), C, E)
  BY <1>2, <1>3, <1>4
<1> QED BY <1>1, <1>5

LEMMA CompleteBodyReached ==
  ASSUME NEW a, NEW b, NEW C, With(a, b, C), a.span = "none", NEW E
  PROVE  Reached(Http!CompleteBody(a), Http!CompleteBody(b), C, E)
<1> DEFINE x == Http!MessageComplete(a)
           y == Http!MessageComplete(b)
<1>1. With(x, y, C) /\ x.span = "none" /\ x.request.complete
  BY WithComplete
<1> HIDE DEF x, y
<1>2. x.upgrade = y.upgrade
  BY <1>1, Same
<1> QED BY <1>1, <1>2, ReachedComplete DEF Http!CompleteBody, x, y

\* A digit of a length.
LEMMA WithMulAdd ==
  ASSUME NEW a, NEW b, NEW C, With(a, b, C), NEW base, NEW u
  PROVE  LET x == Http!MulAdd(a, base, u)
             y == Http!MulAdd(b, base, u)
         IN  With(x, y, C) /\ x.span = a.span /\ x.node = a.node /\ x.error \in {a.error, "overflow"}
<1> DEFINE x == Http!MulAdd(a, base, u)
           y == Http!MulAdd(b, base, u)
           l == a.content_length * base + Http!Value(u)
<1>1. a.content_length = b.content_length /\ a.flags = b.flags /\ a.node = b.node
      /\ IsParser(a) /\ IsParser(b)
  BY Same DEF With, Near, Looking
<1>2. \/ x = Http!Fail(a, "overflow") /\ y = Http!Fail(b, "overflow")
      \/ x = [a EXCEPT !.content_length = l] /\ y = [b EXCEPT !.content_length = l]
  <2> DEFINE big == a.content_length > MAXLEN \div base
             over == a.content_length * base > MAXLEN - Http!Value(u)
  <2>1. x = IF big THEN Http!Fail(a, "overflow") ELSE IF over THEN Http!Fail(a, "overflow")
            ELSE [a EXCEPT !.content_length = l]
    BY DEF Http!MulAdd
  <2>2. y = IF big THEN Http!Fail(b, "overflow") ELSE IF over THEN Http!Fail(b, "overflow")
            ELSE [b EXCEPT !.content_length = l]
    BY <1>1 DEF Http!MulAdd
  <2> HIDE DEF big, over, x, y, l
  <2> QED BY <2>1, <2>2
<1> HIDE DEF x, y, l
<1>3. CASE x = Http!Fail(a, "overflow") /\ y = Http!Fail(b, "overflow")
  <2>1. PICK e : e = "overflow" /\ e # "PAUSED_UPGRADE"
    OBVIOUS
  <2>2. x = Http!Fail(a, e) /\ y = Http!Fail(b, e)
    BY <1>3, <2>1
  <2>3. x.node = a.node
    BY <1>1, <2>2 DEF Http!Fail, IsParser, Fields
  <2>4. With(x, y, C) /\ x.span = a.span /\ x.error = e
    BY <2>1, <2>2, WithFail
  <2> QED BY <2>1, <2>3, <2>4 DEF x, y
<1>4. CASE x = [a EXCEPT !.content_length = l] /\ y = [b EXCEPT !.content_length = l]
  <2>1. x = Counted(a, l, a.flags, a.node) /\ y = Counted(b, l, a.flags, a.node)
    BY <1>1, <1>4 DEF Counted, IsParser, Fields
  <2>2. With(x, y, C) /\ x.span = a.span /\ x.node = a.node /\ x.error = a.error
    BY <2>1, WithLength
  <2> QED BY <2>2 DEF x, y
<1> QED BY <1>2, <1>3, <1>4

LEMMA HeadersCompleteReached ==
  ASSUME NEW a, NEW b, NEW C, With(a, b, C), a.span = "none"
  PROVE  Reached(Http!HeadersComplete(a), Http!HeadersComplete(b), C, EarlyNodes)
<1> DEFINE g == IF {"upgrade", "connection_upgrade"} \subseteq a.flags
                THEN TRUE ELSE a.method = <<"CONN", "ECT">>
           h == Http!llhttp__before_headers_complete(a)
           k == Http!llhttp__before_headers_complete(b)
<1>1. h = [a EXCEPT !.upgrade = g] /\ k = [b EXCEPT !.upgrade = g]
  <2>1. a.flags = b.flags /\ a.method = b.method
    BY Same
  <2> QED BY <2>1 DEF Http!llhttp__before_headers_complete
<1>2. With(h, k, C) /\ h.span = "none"
  <2> HIDE DEF g, h, k
  <2>1. a.error = b.error /\ a.node = b.node
    BY Same
  <2>2. h = Turned(a, g, a.error, a.node) /\ k = Turned(b, g, a.error, a.node)
    BY <1>1, <2>1 DEF Turned, With, Near, Looking, IsParser, Fields
  <2>3. Near(h, k, C) /\ h.span = a.span /\ h.error = a.error
    BY <2>2, WithUpgrade
  <2> QED BY <2>3 DEF With
<1> HIDE DEF g, h, k
<1>3. Http!AfterHeaders(h) = Http!AfterHeaders(k)
  BY <1>2, Same DEF Http!AfterHeaders
<1> DEFINE next == Http!AfterHeaders(h)
           x == Http!MessageComplete(h)
           y == Http!MessageComplete(k)
<1>4. With(x, y, C) /\ x.span = "none" /\ x.request.complete
  BY <1>2, WithComplete
<1>5. Reached([h EXCEPT !.content_length = 0, !.node = "chunk_size_digit"],
              [k EXCEPT !.content_length = 0, !.node = "chunk_size_digit"], C, EarlyNodes)
  <2> DEFINE v == [h EXCEPT !.content_length = 0, !.node = "chunk_size_digit"]
             w == [k EXCEPT !.content_length = 0, !.node = "chunk_size_digit"]
  <2>1. h.flags = k.flags
    BY <1>2, Same
  <2>2. v = Counted(h, 0, h.flags, "chunk_size_digit") /\ w = Counted(k, 0, h.flags, "chunk_size_digit")
    BY <1>2, <2>1 DEF Counted, With, Near, Looking, IsParser, Fields
  <2> HIDE DEF v, w
  <2>3. With(v, w, C) /\ v.span = "none" /\ v.node = "chunk_size_digit"
    BY <1>2, <2>2, WithLength
  <2>4. Reached(v, w, C, EarlyNodes)
    BY <2>3 DEF Reached, With, SpanOpen, EarlyNodes, LineNodes, UrlNodes, PlainNodes
  <2> QED BY <2>4 DEF v, w
<1>6. /\ Reached(Http!To(h, "body_identity"), Http!To(k, "body_identity"), C, EarlyNodes)
      /\ Reached(Http!Fail(h, "INVALID_TRANSFER_ENCODING"), Http!Fail(k, "INVALID_TRANSFER_ENCODING"), C, EarlyNodes)
  BY <1>2, ReachedTo, ReachedFail DEF SpanOpen, EarlyNodes, LineNodes, UrlNodes, BodyNodes
<1>7. /\ Reached(Http!PauseUpgrade(x), Http!PauseUpgrade(y), C, EarlyNodes)
      /\ Reached(Http!llhttp__after_message_complete(x), Http!llhttp__after_message_complete(y), C, EarlyNodes)
  BY <1>4, ReachedComplete
<1>8. ASSUME NEW s
      PROVE  Http!HeadersComplete(s) =
               LET v == Http!llhttp__before_headers_complete(s)
                   z == Http!AfterHeaders(v)
               IN  CASE z = "pause" -> Http!PauseUpgrade(Http!MessageComplete(v))
                     [] z = "chunk_size_start" -> [v EXCEPT !.content_length = 0, !.node = "chunk_size_digit"]
                     [] z = "body_identity" -> Http!To(v, "body_identity")
                     [] z = "invalid" -> Http!Fail(v, "INVALID_TRANSFER_ENCODING")
                     [] OTHER -> Http!llhttp__after_message_complete(Http!MessageComplete(v))
  BY DEF Http!HeadersComplete
<1> HIDE DEF x, y
<1> QED BY <1>3, <1>5, <1>6, <1>7, <1>8 DEF h, k, x, y

LEMMA ReachedStay ==
  ASSUME NEW a, NEW b, NEW C, NEW E, With(a, b, C), SpanOpen(a.node, a.span), a.node \notin E
  PROVE  Reached(a, b, C, E)
BY DEF Reached, With

\* Bodies.
LEMMA BodyReached ==
  ASSUME NEW a, NEW b, NEW C, With(a, b, C), NEW u,
         a.node \in BodyNodes, a.span \in {"none", "body"}
  PROVE  /\ Reached(Http!BodyIdentity(a, u), Http!BodyIdentity(b, u), C, EarlyNodes)
         /\ Reached(Http!ChunkData(a, u), Http!ChunkData(b, u), C, EarlyNodes)
<1> DEFINE x == Http!Consume(a)
           y == Http!Consume(b)
<1>1. With(x, y, C) /\ x.span \in {"none", "body"} /\ x.node = a.node
      /\ (x.content_length = 0 => x.span = "none") /\ x.content_length = y.content_length
  BY WithConsume
<1> HIDE DEF x, y
<1>2. Reached(x, y, C, EarlyNodes)
  BY <1>1, ReachedStay DEF SpanOpen, EarlyNodes, LineNodes, UrlNodes, BodyNodes
<1>3. CASE x.content_length = 0
  <2>1. Reached(Http!CompleteBody(x), Http!CompleteBody(y), C, EarlyNodes)
    BY <1>1, <1>3, CompleteBodyReached
  <2>2. Reached(Http!To(x, "chunk_data_almost_done"), Http!To(y, "chunk_data_almost_done"), C, EarlyNodes)
    BY <1>1, <1>3, ReachedTo DEF SpanOpen, EarlyNodes, LineNodes, UrlNodes, PlainNodes
  <2> QED BY <1>1, <1>3, <2>1, <2>2 DEF Http!BodyIdentity, Http!ChunkData, x, y
<1>4. CASE x.content_length # 0
  BY <1>1, <1>2, <1>4 DEF Http!BodyIdentity, Http!ChunkData, x, y
<1> QED BY <1>3, <1>4

\* Chunks.
LEMMA ChunkReached ==
  ASSUME NEW a, NEW b, NEW C, With(a, b, C), NEW u, a.node \in PlainNodes, a.span = "none"
  PROVE  /\ Reached(Http!ChunkDataAlmostDone(a, u), Http!ChunkDataAlmostDone(b, u), C, EarlyNodes)
         /\ Reached(Http!ChunkSizeAlmostDone(a, u), Http!ChunkSizeAlmostDone(b, u), C, EarlyNodes)
         /\ Reached(Http!ChunkExtensionQuoted(a, u), Http!ChunkExtensionQuoted(b, u), C, EarlyNodes)
         /\ Reached(Http!ChunkExtensionValue(a, u), Http!ChunkExtensionValue(b, u), C, EarlyNodes)
         /\ Reached(Http!ChunkExtensions(a, u), Http!ChunkExtensions(b, u), C, EarlyNodes)
         /\ Reached(Http!ChunkSizeOtherwise(a, u), Http!ChunkSizeOtherwise(b, u), C, EarlyNodes)
         /\ Reached(Http!ChunkSize(a, u), Http!ChunkSize(b, u), C, EarlyNodes)
         /\ Reached(Http!ChunkSizeDigit(a, u), Http!ChunkSizeDigit(b, u), C, EarlyNodes)
<1>0. a.node = b.node /\ a.flags = b.flags /\ a.content_length = b.content_length
  BY Same
<1>1. /\ \A n \in PlainNodes \cup BodyNodes : Reached(Http!To(a, n), Http!To(b, n), C, EarlyNodes)
      /\ \A e : e # "OK" /\ e # "PAUSED_UPGRADE" => Reached(Http!Fail(a, e), Http!Fail(b, e), C, EarlyNodes)
      /\ Reached(a, b, C, EarlyNodes)
  BY ReachedTo, ReachedFail, ReachedStay
     DEF SpanOpen, EarlyNodes, LineNodes, UrlNodes, PlainNodes, BodyNodes
<1>2. ASSUME NEW l, NEW f, NEW n \in PlainNodes
      PROVE  Reached(Counted(a, l, f, n), Counted(b, l, f, n), C, EarlyNodes)
  BY WithLength, ReachedStay DEF SpanOpen, EarlyNodes, LineNodes, UrlNodes, PlainNodes
<1>3. Reached(Http!ChunkDataAlmostDone(a, u), Http!ChunkDataAlmostDone(b, u), C, EarlyNodes)
  <2>1. ASSUME NEW s, IsParser(s)
        PROVE  [s EXCEPT !.content_length = 0, !.node = "chunk_size_digit"] =
                 Counted(s, 0, s.flags, "chunk_size_digit")
    BY <2>1 DEF Counted, IsParser, Fields
  <2>2. Reached([a EXCEPT !.content_length = 0, !.node = "chunk_size_digit"],
                [b EXCEPT !.content_length = 0, !.node = "chunk_size_digit"], C, EarlyNodes)
    <3>1. /\ [a EXCEPT !.content_length = 0, !.node = "chunk_size_digit"] = Counted(a, 0, a.flags, "chunk_size_digit")
          /\ [b EXCEPT !.content_length = 0, !.node = "chunk_size_digit"] = Counted(b, 0, a.flags, "chunk_size_digit")
      BY <1>0, <2>1 DEF With, Near, Looking
    <3>2. Reached(Counted(a, 0, a.flags, "chunk_size_digit"), Counted(b, 0, a.flags, "chunk_size_digit"), C, EarlyNodes)
      BY <1>2 DEF PlainNodes
    <3> QED BY <3>1, <3>2, Zenon
  <2> QED BY <1>0, <1>1, <2>2 DEF Http!ChunkDataAlmostDone, PlainNodes
<1>4. Reached(Http!ChunkSizeAlmostDone(a, u), Http!ChunkSizeAlmostDone(b, u), C, EarlyNodes)
  <2> DEFINE f == a.flags \cup {"trailing"}
  <2>1. ASSUME NEW s, IsParser(s), s.flags = a.flags
        PROVE  [s EXCEPT !.flags = @ \cup {"trailing"}, !.node = "header_field_start"] =
                 Counted(s, s.content_length, f, "header_field_start")
    BY <2>1 DEF Counted, IsParser, Fields
  <2> HIDE DEF f
  <2>2. Reached([a EXCEPT !.flags = @ \cup {"trailing"}, !.node = "header_field_start"],
                [b EXCEPT !.flags = @ \cup {"trailing"}, !.node = "header_field_start"], C, EarlyNodes)
    <3>1. /\ [a EXCEPT !.flags = @ \cup {"trailing"}, !.node = "header_field_start"] =
               Counted(a, a.content_length, f, "header_field_start")
          /\ [b EXCEPT !.flags = @ \cup {"trailing"}, !.node = "header_field_start"] =
               Counted(b, a.content_length, f, "header_field_start")
      BY <1>0, <2>1 DEF With, Near, Looking
    <3>2. Reached(Counted(a, a.content_length, f, "header_field_start"),
                  Counted(b, a.content_length, f, "header_field_start"), C, EarlyNodes)
      BY <1>2 DEF PlainNodes
    <3> QED BY <3>1, <3>2, Zenon
  <2> QED BY <1>0, <1>1, <2>2 DEF Http!ChunkSizeAlmostDone, PlainNodes, BodyNodes
<1>5. /\ Reached(Http!ChunkExtensionQuoted(a, u), Http!ChunkExtensionQuoted(b, u), C, EarlyNodes)
      /\ Reached(Http!ChunkExtensionValue(a, u), Http!ChunkExtensionValue(b, u), C, EarlyNodes)
  <2>1. Reached(Http!ChunkExtensionQuoted(a, u), Http!ChunkExtensionQuoted(b, u), C, EarlyNodes)
    BY <1>0, <1>1 DEF Http!ChunkExtensionQuoted, PlainNodes
  <2>2. Reached(Http!ChunkExtensionValue(a, u), Http!ChunkExtensionValue(b, u), C, EarlyNodes)
    BY <1>0, <1>1 DEF Http!ChunkExtensionValue, PlainNodes
  <2> QED BY <2>1, <2>2
<1>6. /\ Reached(Http!ChunkExtensions(a, u), Http!ChunkExtensions(b, u), C, EarlyNodes)
      /\ Reached(Http!ChunkSizeOtherwise(a, u), Http!ChunkSizeOtherwise(b, u), C, EarlyNodes)
  <2>1. Reached(Http!ChunkExtensions(a, u), Http!ChunkExtensions(b, u), C, EarlyNodes)
    BY <1>0, <1>1 DEF Http!ChunkExtensions, PlainNodes
  <2>2. Reached(Http!ChunkSizeOtherwise(a, u), Http!ChunkSizeOtherwise(b, u), C, EarlyNodes)
    BY <1>0, <1>1 DEF Http!ChunkSizeOtherwise, PlainNodes
  <2> QED BY <2>1, <2>2
<1>7. /\ Reached(Http!ChunkSize(a, u), Http!ChunkSize(b, u), C, EarlyNodes)
      /\ Reached(Http!ChunkSizeDigit(a, u), Http!ChunkSizeDigit(b, u), C, EarlyNodes)
  <2> DEFINE x == Http!MulAdd(a, 16, u)
             y == Http!MulAdd(b, 16, u)
  <2>1. With(x, y, C) /\ x.span = "none" /\ x.node = a.node
    BY WithMulAdd
  <2> HIDE DEF x, y
  <2>2. Reached(x, y, C, EarlyNodes) /\ Reached(Http!To(x, "chunk_size"), Http!To(y, "chunk_size"), C, EarlyNodes)
    BY <2>1, ReachedTo, ReachedStay DEF SpanOpen, EarlyNodes, LineNodes, UrlNodes, PlainNodes
  <2> QED BY <1>1, <1>6, <2>2 DEF Http!ChunkSize, Http!ChunkSizeDigit, x, y
<1> QED BY <1>3, <1>4, <1>5, <1>6, <1>7

\* Names of headers.
LEMMA FieldStartReached ==
  ASSUME NEW a, NEW b, NEW C, With(a, b, C), NEW u, a.span = "none"
  PROVE  /\ Reached(Http!HeaderFieldStart(a, u), Http!HeaderFieldStart(b, u), C, EarlyNodes)
         /\ Reached(Http!HeadersStart(a, u), Http!HeadersStart(b, u), C, EarlyNodes)
<1>1. Reached(Http!HeaderField(a, u), Http!HeaderField(b, u), C, EarlyNodes)
  BY WithSpanStart, WithHeader, ReachedTo, ReachedFail
     DEF SpanOpen, EarlyNodes, LineNodes, UrlNodes, FieldNodes, Http!HeaderField
<1>2. Reached(Http!HeaderFieldStart(a, u), Http!HeaderFieldStart(b, u), C, EarlyNodes)
  BY <1>1, ReachedTo, ReachedFail DEF SpanOpen, EarlyNodes, LineNodes, UrlNodes, PlainNodes, Http!HeaderFieldStart
<1> QED BY <1>2, ReachedFail DEF Http!HeadersStart

LEMMA FieldReached ==
  ASSUME NEW a, NEW b, NEW C, With(a, b, C), NEW u, a.span = "field", a.node \in FieldNodes
  PROVE  /\ Reached(Http!HeaderFieldGeneral(a, u), Http!HeaderFieldGeneral(b, u), C, EarlyNodes)
         /\ Reached(Http!HeaderFieldColon(a, u), Http!HeaderFieldColon(b, u), C, EarlyNodes)
         /\ Reached(Http!HeaderField2(a, u), Http!HeaderField2(b, u), C, EarlyNodes)
<1>1. ASSUME NEW x, NEW y, With(x, y, C), x.span = "field", x.node \in FieldNodes
      PROVE  /\ Reached(Http!FieldComplete(x), Http!FieldComplete(y), C, EarlyNodes)
             /\ Reached(Http!HeaderFieldGeneral(x, u), Http!HeaderFieldGeneral(y, u), C, EarlyNodes)
             /\ Reached(Http!Fail(Http!SpanEnd(x), "INVALID_HEADER_TOKEN"),
                        Http!Fail(Http!SpanEnd(y), "INVALID_HEADER_TOKEN"), C, EarlyNodes)
  <2> DEFINE v == Http!SpanEnd(x)
             w == Http!SpanEnd(y)
  <2>1. With(v, w, C) /\ v.span = "none"
    BY <1>1, WithSpanEnd
  <2> HIDE DEF v, w
  <2>2. v.header_state = w.header_state /\ v.flags = w.flags
    BY <2>1, Same
  <2>3. /\ Reached(Http!To(v, "header_value_discard_ws"), Http!To(w, "header_value_discard_ws"), C, EarlyNodes)
        /\ \A e : e # "OK" /\ e # "PAUSED_UPGRADE" => Reached(Http!Fail(v, e), Http!Fail(w, e), C, EarlyNodes)
    BY <2>1, ReachedTo, ReachedFail DEF SpanOpen, EarlyNodes, LineNodes, UrlNodes, PlainNodes
  <2>4. Reached(Http!FieldComplete(x), Http!FieldComplete(y), C, EarlyNodes)
    BY <2>2, <2>3 DEF Http!FieldComplete, v, w
  <2>5. Reached(x, y, C, EarlyNodes)
    BY <1>1, ReachedStay DEF SpanOpen, EarlyNodes, LineNodes, UrlNodes, FieldNodes
  <2>6. Reached(Http!HeaderFieldGeneral(x, u), Http!HeaderFieldGeneral(y, u), C, EarlyNodes)
    BY <2>3, <2>4, <2>5 DEF Http!HeaderFieldGeneral, v, w
  <2> QED BY <2>3, <2>4, <2>6 DEF v, w
<1> DEFINE x == Http!To(Http!Header(a, "general"), "header_field_general")
           y == Http!To(Http!Header(b, "general"), "header_field_general")
<1>2. With(x, y, C) /\ x.span = "field" /\ x.node = "header_field_general"
  BY WithHeader, WithTo
<1> HIDE DEF x, y
<1>3. Reached(Http!HeaderFieldGeneral(x, u), Http!HeaderFieldGeneral(y, u), C, EarlyNodes)
  BY <1>1, <1>2 DEF FieldNodes
<1>4. Reached(Http!HeaderFieldColon(a, u), Http!HeaderFieldColon(b, u), C, EarlyNodes)
  BY <1>1, <1>3 DEF Http!HeaderFieldColon, x, y
<1>5. Reached(Http!HeaderField2(a, u), Http!HeaderField2(b, u), C, EarlyNodes)
  BY <1>3, WithHeader, ReachedTo DEF SpanOpen, EarlyNodes, LineNodes, UrlNodes, FieldNodes, Http!HeaderField2, x, y
<1> QED BY <1>1, <1>4, <1>5

\* Values of headers.
LEMMA WithApply ==
  ASSUME NEW a, NEW b, NEW C, With(a, b, C)
  PROVE  LET x == Http!ApplyHeaderState(a)
             y == Http!ApplyHeaderState(b)
         IN  With(x, y, C) /\ x.span = a.span /\ x.node = a.node
<1> DEFINE x == Http!ApplyHeaderState(a)
           y == Http!ApplyHeaderState(b)
<1>1. a.flags = b.flags /\ a.header_state = b.header_state
  BY Same, SMTT(40)
<1>2. PICK f, h : x = Noted(a, f, h) /\ y = Noted(b, f, h)
  BY <1>1, ZenonT(60) DEF Http!ApplyHeaderState, Noted
<1> HIDE DEF x, y
<1>3. With(x, y, C) /\ x.span = a.span /\ x.node = a.node
  BY <1>2, WithFlags
<1> QED BY <1>3 DEF x, y

LEMMA ValueEndReached ==
  ASSUME NEW a, NEW b, NEW C, With(a, b, C), NEW u, a.span = "value"
  PROVE  /\ Reached(Http!HeaderValueOtherwise(a, u), Http!HeaderValueOtherwise(b, u), C, EarlyNodes)
         /\ Reached(Http!HeaderValue(a, u), Http!HeaderValue(b, u), C, EarlyNodes)
         /\ \A e : e # "OK" /\ e # "PAUSED_UPGRADE" =>
              Reached(Http!Fail(Http!SpanEnd(a), e), Http!Fail(Http!SpanEnd(b), e), C, EarlyNodes)
         /\ \A n \in ValueNodes : Reached(Http!To(a, n), Http!To(b, n), C, EarlyNodes)
<1> DEFINE v == Http!SpanEnd(a)
           w == Http!SpanEnd(b)
<1>1. With(v, w, C) /\ v.span = "none"
  BY WithSpanEnd
<1> HIDE DEF v, w
<1>2. /\ Reached(Http!To(v, "header_value_almost_done"), Http!To(w, "header_value_almost_done"), C, EarlyNodes)
      /\ \A e : e # "OK" /\ e # "PAUSED_UPGRADE" => Reached(Http!Fail(v, e), Http!Fail(w, e), C, EarlyNodes)
  BY <1>1, ReachedTo, ReachedFail DEF SpanOpen, EarlyNodes, LineNodes, UrlNodes, PlainNodes
<1>3. Reached(Http!HeaderValueOtherwise(a, u), Http!HeaderValueOtherwise(b, u), C, EarlyNodes)
  BY <1>2 DEF Http!HeaderValueOtherwise, v, w
<1>4. \A n \in ValueNodes : Reached(Http!To(a, n), Http!To(b, n), C, EarlyNodes)
  BY ReachedTo DEF SpanOpen, EarlyNodes, LineNodes, UrlNodes, ValueNodes
<1>5. Reached(Http!HeaderValue(a, u), Http!HeaderValue(b, u), C, EarlyNodes)
  BY <1>3, <1>4 DEF Http!HeaderValue, ValueNodes
<1> QED BY <1>2, <1>3, <1>4, <1>5 DEF v, w

LEMMA ConnectionReached ==
  ASSUME NEW a, NEW b, NEW C, With(a, b, C), NEW u, a.span = "value"
  PROVE  /\ Reached(Http!ConnectionToken(a, u), Http!ConnectionToken(b, u), C, EarlyNodes)
         /\ Reached(Http!Connection(a, u), Http!Connection(b, u), C, EarlyNodes)
         /\ a.node \in ValueNodes => Reached(Http!ConnectionWs(a, u), Http!ConnectionWs(b, u), C, EarlyNodes)
<1>1. ASSUME NEW x, NEW y, With(x, y, C), x.span = "value"
      PROVE  Reached(Http!ConnectionToken(x, u), Http!ConnectionToken(y, u), C, EarlyNodes)
  BY <1>1, ValueEndReached DEF Http!ConnectionToken, ValueNodes
<1>2. \A h : With(Http!Header(a, h), Http!Header(b, h), C) /\ Http!Header(a, h).span = "value"
  BY WithHeader
<1>3. \A h : \A n \in ValueNodes :
        Reached(Http!To(Http!Header(a, h), n), Http!To(Http!Header(b, h), n), C, EarlyNodes)
  BY <1>2, ValueEndReached
<1>4. Reached(Http!Connection(a, u), Http!Connection(b, u), C, EarlyNodes)
  BY <1>1, <1>3, ValueEndReached DEF Http!Connection, ValueNodes
<1>5. ASSUME a.node \in ValueNodes
      PROVE  Reached(Http!ConnectionWs(a, u), Http!ConnectionWs(b, u), C, EarlyNodes)
  <2> DEFINE x == Http!ApplyHeaderState(a)
             y == Http!ApplyHeaderState(b)
  <2>1. With(x, y, C) /\ x.span = "value"
    BY WithApply
  <2> HIDE DEF x, y
  <2>2. Reached(Http!To(x, "header_value_connection"), Http!To(y, "header_value_connection"), C, EarlyNodes)
    BY <2>1, ValueEndReached DEF ValueNodes
  <2>3. Reached(a, b, C, EarlyNodes)
    BY <1>5, ReachedStay DEF SpanOpen, EarlyNodes, LineNodes, UrlNodes, ValueNodes
  <2>4. Reached(Http!ConnectionToken(Http!Header(a, "general"), u),
                Http!ConnectionToken(Http!Header(b, "general"), u), C, EarlyNodes)
    BY <1>1, <1>2
  <2> QED BY <2>2, <2>3, <2>4, ValueEndReached DEF Http!ConnectionWs, x, y
<1> QED BY <1>1, <1>4, <1>5

LEMMA LengthReached ==
  ASSUME NEW a, NEW b, NEW C, With(a, b, C), NEW u, a.span = "value", a.error = "OK"
  PROVE  /\ Reached(Http!ContentLengthWs(a, u), Http!ContentLengthWs(b, u), C, EarlyNodes)
         /\ Reached(Http!ContentLength(a, u), Http!ContentLength(b, u), C, EarlyNodes)
<1>1. Reached(Http!ContentLengthWs(a, u), Http!ContentLengthWs(b, u), C, EarlyNodes)
  <2> DEFINE x == [a EXCEPT !.flags = @ \cup {"content_length"}]
             y == [b EXCEPT !.flags = @ \cup {"content_length"}]
             f == a.flags \cup {"content_length"}
  <2>1. a.flags = b.flags /\ a.header_state = b.header_state /\ IsParser(a) /\ IsParser(b)
    BY Same DEF With, Near, Looking
  <2>2. x = Noted(a, f, a.header_state) /\ y = Noted(b, f, a.header_state)
    BY <2>1 DEF Noted, IsParser, Fields
  <2> HIDE DEF x, y, f
  <2>3. With(x, y, C) /\ x.span = "value"
    BY <2>2, WithFlags
  <2>4. Reached(Http!HeaderValueOtherwise(x, u), Http!HeaderValueOtherwise(y, u), C, EarlyNodes)
    BY <2>3, ValueEndReached
  <2> QED BY <2>4, ValueEndReached DEF Http!ContentLengthWs, ValueNodes, x, y
<1>2. Reached(Http!ContentLength(a, u), Http!ContentLength(b, u), C, EarlyNodes)
  <2> DEFINE x == Http!MulAdd(a, 10, u)
             y == Http!MulAdd(b, 10, u)
             v == Http!SpanEnd(x)
             w == Http!SpanEnd(y)
  <2>1. With(x, y, C) /\ x.span = "value" /\ x.error \in {a.error, "overflow"}
    BY WithMulAdd
  <2> HIDE DEF x, y
  <2>3. x.error = y.error
    BY <2>1, Same
  <2>4. Reached(Http!To(x, "header_value_content_length"), Http!To(y, "header_value_content_length"), C, EarlyNodes)
    BY <2>1, ValueEndReached DEF ValueNodes
  <2>5. With(v, w, C) /\ v.span = "none" /\ v.error = x.error
    BY <2>1, WithSpanEnd
  <2> HIDE DEF v, w
  <2>6. CASE x.error = "OK"
    BY <1>1, <2>3, <2>4, <2>6 DEF Http!ContentLength, x, y
  <2>7. CASE x.error # "OK"
    <3>1. Reached(v, w, C, EarlyNodes)
      BY <2>1, <2>5, <2>7 DEF Reached, With
    <3> QED BY <1>1, <2>3, <2>7, <3>1 DEF Http!ContentLength, x, y, v, w
  <2> QED BY <2>6, <2>7
<1> QED BY <1>1, <1>2

LEMMA EncodingReached ==
  ASSUME NEW a, NEW b, NEW C, With(a, b, C), NEW u, a.span = "value"
  PROVE  /\ Reached(Http!TeToken(a, u), Http!TeToken(b, u), C, EarlyNodes)
         /\ Reached(Http!TeChunked(a, u), Http!TeChunked(b, u), C, EarlyNodes)
         /\ a.node \in ValueNodes => Reached(Http!TeTokenOws(a, u), Http!TeTokenOws(b, u), C, EarlyNodes)
         /\ a.node \in ValueNodes => Reached(Http!TeChunkedLast(a, u), Http!TeChunkedLast(b, u), C, EarlyNodes)
<1>1. \A h : With(Http!Header(a, h), Http!Header(b, h), C) /\ Http!Header(a, h).span = "value"
  BY WithHeader
<1>2. \A h : /\ Reached(Http!HeaderValue(Http!Header(a, h), u), Http!HeaderValue(Http!Header(b, h), u), C, EarlyNodes)
             /\ Reached(Http!HeaderValueOtherwise(Http!Header(a, h), u),
                        Http!HeaderValueOtherwise(Http!Header(b, h), u), C, EarlyNodes)
  BY <1>1, ValueEndReached
<1>3. Reached(Http!TeToken(a, u), Http!TeToken(b, u), C, EarlyNodes)
  BY <1>2, ValueEndReached DEF Http!TeToken, ValueNodes
<1>4. Reached(Http!TeChunked(a, u), Http!TeChunked(b, u), C, EarlyNodes)
  BY <1>3, ValueEndReached DEF Http!TeChunked, ValueNodes
<1>5. ASSUME a.node \in ValueNodes
      PROVE  /\ Reached(Http!TeTokenOws(a, u), Http!TeTokenOws(b, u), C, EarlyNodes)
             /\ Reached(Http!TeChunkedLast(a, u), Http!TeChunkedLast(b, u), C, EarlyNodes)
  <2>1. Reached(a, b, C, EarlyNodes)
    BY <1>5, ReachedStay DEF SpanOpen, EarlyNodes, LineNodes, UrlNodes, ValueNodes
  <2>2. Reached(Http!TeTokenOws(a, u), Http!TeTokenOws(b, u), C, EarlyNodes)
    BY <1>4, <2>1 DEF Http!TeTokenOws
  <2>3. Reached(Http!TeChunkedLast(a, u), Http!TeChunkedLast(b, u), C, EarlyNodes)
    BY <1>2, <1>3, <2>1, ValueEndReached DEF Http!TeChunkedLast
  <2> QED BY <2>2, <2>3
<1> QED BY <1>3, <1>4, <1>5

LEMMA ValueStartReached ==
  ASSUME NEW a, NEW b, NEW C, With(a, b, C), NEW u, a.span = "none", a.error = "OK"
  PROVE  Reached(Http!HeaderValueStart(a, u), Http!HeaderValueStart(b, u), C, EarlyNodes)
<1> DEFINE o == Http!SpanStart(a, "value")
           w == Http!SpanStart(b, "value")
<1>1. With(o, w, C) /\ o.span = "value" /\ o.error = "OK"
  BY WithSpanStart
<1> HIDE DEF o, w
<1>2. o.flags = w.flags /\ o.header_state = w.header_state /\ IsParser(o) /\ IsParser(w)
  BY <1>1, Same, SMTT(40) DEF With, Near, Looking
<1>3. ASSUME NEW x, NEW y, NEW f, NEW h, x = Noted(o, f, h), y = Noted(w, f, h)
      PROVE  /\ Reached(Http!HeaderValue(x, u), Http!HeaderValue(y, u), C, EarlyNodes)
             /\ Reached(Http!TeChunked(x, u), Http!TeChunked(y, u), C, EarlyNodes)
  <2>1. With(x, y, C) /\ x.span = "value"
    BY <1>1, <1>3, WithFlags
  <2> QED BY <2>1, ValueEndReached, EncodingReached
<1> DEFINE x == [o EXCEPT !.flags = (@ \cup {"transfer_encoding"}) \ {"chunked"}]
           y == [w EXCEPT !.flags = (@ \cup {"transfer_encoding"}) \ {"chunked"}]
           p == [o EXCEPT !.flags = @ \cup {"upgrade"}, !.header_state = "general"]
           q == [w EXCEPT !.flags = @ \cup {"upgrade"}, !.header_state = "general"]
<1>4. Reached(Http!TeChunked(x, u), Http!TeChunked(y, u), C, EarlyNodes)
  <2> DEFINE f == (o.flags \cup {"transfer_encoding"}) \ {"chunked"}
  <2>1. x = Noted(o, f, o.header_state) /\ y = Noted(w, f, o.header_state)
    BY <1>2 DEF Noted, IsParser, Fields
  <2> HIDE DEF f, x, y
  <2> QED BY <1>3, <2>1
<1>5. Reached(Http!HeaderValue(p, u), Http!HeaderValue(q, u), C, EarlyNodes)
  <2> DEFINE f == o.flags \cup {"upgrade"}
  <2>1. p = Noted(o, f, "general") /\ q = Noted(w, f, "general")
    BY <1>2 DEF Noted, IsParser, Fields
  <2> HIDE DEF f, p, q
  <2> QED BY <1>3, <2>1
<1>6. Reached(Http!HeaderValue(o, u), Http!HeaderValue(w, u), C, EarlyNodes)
      /\ Reached(Http!Connection(o, u), Http!Connection(w, u), C, EarlyNodes)
      /\ Reached(Http!ContentLength(o, u), Http!ContentLength(w, u), C, EarlyNodes)
  BY <1>1, ValueEndReached, ConnectionReached, LengthReached
<1>7. \A e : e # "OK" /\ e # "PAUSED_UPGRADE" =>
        Reached(Http!Fail(Http!SpanEnd(o), e), Http!Fail(Http!SpanEnd(w), e), C, EarlyNodes)
  BY <1>1, ValueEndReached
<1> HIDE DEF x, y, p, q
<1> QED BY <1>2, <1>4, <1>5, <1>6, <1>7 DEF Http!HeaderValueStart, o, w, x, y, p, q

\* The ends of values, and what begins a line.
LEMMA LineReached ==
  ASSUME NEW a, NEW b, NEW C, With(a, b, C), NEW u, a.span = "none", a.error = "OK", a.node \in PlainNodes
  PROVE  /\ Reached(Http!HeaderValueDiscardWs(a, u), Http!HeaderValueDiscardWs(b, u), C, EarlyNodes)
         /\ Reached(Http!HeaderValueDiscardLws(a, u), Http!HeaderValueDiscardLws(b, u), C, EarlyNodes)
         /\ Reached(Http!HeaderValueLws(a, u), Http!HeaderValueLws(b, u), C, EarlyNodes)
         /\ Reached(Http!HeadersAlmostDone(a, u), Http!HeadersAlmostDone(b, u), C, EarlyNodes)
         /\ \A n \in PlainNodes : \A e : e # "OK" /\ e # "PAUSED_UPGRADE" =>
              Reached(Http!LineFeed(a, u, n, e), Http!LineFeed(b, u, n, e), C, EarlyNodes)
<1>1. /\ \A n \in PlainNodes : Reached(Http!To(a, n), Http!To(b, n), C, EarlyNodes)
      /\ \A e : e # "OK" /\ e # "PAUSED_UPGRADE" => Reached(Http!Fail(a, e), Http!Fail(b, e), C, EarlyNodes)
      /\ Reached(a, b, C, EarlyNodes)
  BY ReachedTo, ReachedFail, ReachedStay DEF SpanOpen, EarlyNodes, LineNodes, UrlNodes, PlainNodes
<1>2. a.flags = b.flags /\ a.header_state = b.header_state /\ IsParser(a) /\ IsParser(b)
  BY Same DEF With, Near, Looking
<1>3. Reached(Http!HeaderValueDiscardWs(a, u), Http!HeaderValueDiscardWs(b, u), C, EarlyNodes)
  BY <1>1, ValueStartReached DEF Http!HeaderValueDiscardWs, PlainNodes
<1> DEFINE x == Http!ApplyHeaderState(a)
           y == Http!ApplyHeaderState(b)
<1>4. With(x, y, C) /\ x.span = "none"
  BY WithApply
<1> HIDE DEF x, y
<1>5. Reached(Http!HeaderValueDiscardLws(a, u), Http!HeaderValueDiscardLws(b, u), C, EarlyNodes)
  <2> DEFINE v == Http!SpanEnd(Http!SpanStart(x, "value"))
             w == Http!SpanEnd(Http!SpanStart(y, "value"))
  <2>1. With(v, w, C) /\ v.span = "none"
    BY <1>4, WithSpanStart, WithSpanEnd
  <2> HIDE DEF v, w
  <2>2. Reached(Http!HeaderFieldStart(v, u), Http!HeaderFieldStart(w, u), C, EarlyNodes)
    BY <2>1, FieldStartReached
  <2> QED BY <1>1, <1>2, <2>2 DEF Http!HeaderValueDiscardLws, x, y, v, w
<1>6. Reached(Http!HeaderValueLws(a, u), Http!HeaderValueLws(b, u), C, EarlyNodes)
  <2> DEFINE g == IF a.header_state = "te_chunked" THEN "general" ELSE a.header_state
             v == [a EXCEPT !.header_state = IF @ = "te_chunked" THEN "general" ELSE @]
             w == [b EXCEPT !.header_state = IF @ = "te_chunked" THEN "general" ELSE @]
  <2>1. v = Http!Header(a, g) /\ w = Http!Header(b, g)
    BY <1>2 DEF Http!Header
  <2> HIDE DEF v, w, g
  <2>2. With(v, w, C) /\ v.span = "none" /\ v.error = "OK"
    BY <2>1, WithHeader
  <2>3. Reached(Http!HeaderValueStart(v, u), Http!HeaderValueStart(w, u), C, EarlyNodes)
    BY <2>2, ValueStartReached
  <2>4. Reached(Http!HeaderFieldStart(x, u), Http!HeaderFieldStart(y, u), C, EarlyNodes)
    BY <1>4, FieldStartReached
  <2> QED BY <2>3, <2>4 DEF Http!HeaderValueLws, v, w, x, y
<1>7. Reached(Http!HeadersAlmostDone(a, u), Http!HeadersAlmostDone(b, u), C, EarlyNodes)
  BY <1>1, <1>2, CompleteBodyReached, HeadersCompleteReached DEF Http!HeadersAlmostDone
<1>8. ASSUME NEW n \in PlainNodes, NEW e, e # "OK", e # "PAUSED_UPGRADE"
      PROVE  Reached(Http!LineFeed(a, u, n, e), Http!LineFeed(b, u, n, e), C, EarlyNodes)
  BY <1>1, <1>8 DEF Http!LineFeed
<1> QED BY <1>3, <1>5, <1>6, <1>7, <1>8

\* The request line.  A line feed ends it, and nothing but the end of a request
\* leads back to the start.
Ahead(u) == IF u = Http!LF THEN EarlyNodes ELSE {"start"}

LEMMA MethodReached ==
  ASSUME NEW a, NEW b, NEW C, With(a, b, C), NEW u, a.span = "none"
  PROVE  /\ u \notin {Http!CR, Http!LF} =>
              Reached(Http!Start(a, u), Http!Start(b, u), C, Ahead(u))
         /\ Reached(Http!AfterStartReqRest(a, u), Http!AfterStartReqRest(b, u), C, Ahead(u))
<1>1. \A e, E : e # "OK" /\ e # "PAUSED_UPGRADE" => Reached(Http!Fail(a, e), Http!Fail(b, e), C, E)
  BY ReachedFail
<1>2. a.method = b.method /\ a.seen = b.seen /\ a.major = b.major /\ a.minor = b.minor
      /\ IsParser(a) /\ IsParser(b)
  BY Same DEF With, Near, Looking
<1>3. ASSUME NEW m, NEW z, NEW n \in LineNodes \ {"start"}, u # Http!LF
      PROVE  Reached(Lined(a, m, a.major, a.minor, z, n), Lined(b, m, a.major, a.minor, z, n), C, Ahead(u))
  <2>1. With(Lined(a, m, a.major, a.minor, z, n), Lined(b, m, a.major, a.minor, z, n), C)
        /\ Lined(a, m, a.major, a.minor, z, n).span = "none" /\ Lined(a, m, a.major, a.minor, z, n).node = n
    BY WithLine
  <2>2. SpanOpen(n, "none") /\ n \notin Ahead(u)
    BY <1>3 DEF SpanOpen, Ahead
  <2> QED BY <2>1, <2>2 DEF Reached, With
<1>4. ASSUME u \notin {Http!CR, Http!LF}
      PROVE  Reached(Http!Start(a, u), Http!Start(b, u), C, Ahead(u))
  <2>1. ASSUME NEW s, IsParser(s), s.method = a.method, s.major = a.major, s.minor = a.minor
        PROVE  [s EXCEPT !.seen = u, !.node = "after_start_req_rest"] =
                 Lined(s, a.method, a.major, a.minor, u, "after_start_req_rest")
    BY <2>1 DEF Lined, IsParser, Fields
  <2>2. /\ [a EXCEPT !.seen = u, !.node = "after_start_req_rest"] =
             Lined(a, a.method, a.major, a.minor, u, "after_start_req_rest")
        /\ [b EXCEPT !.seen = u, !.node = "after_start_req_rest"] =
             Lined(b, a.method, a.major, a.minor, u, "after_start_req_rest")
    BY <1>2, <2>1
  <2>3. Reached(Lined(a, a.method, a.major, a.minor, u, "after_start_req_rest"),
                Lined(b, a.method, a.major, a.minor, u, "after_start_req_rest"), C, Ahead(u))
    BY <1>3, <1>4 DEF LineNodes
  <2> QED BY <1>1, <1>4, <2>2, <2>3 DEF Http!Start, Http!AfterStartReq
<1>5. Reached(Http!AfterStartReqRest(a, u), Http!AfterStartReqRest(b, u), C, Ahead(u))
  <2> DEFINE m == <<a.seen, u>>
             n == "req_first_space_before_url"
  <2>1. ASSUME NEW s, IsParser(s), s.seen = a.seen, s.major = a.major, s.minor = a.minor
        PROVE  [s EXCEPT !.method = <<s.seen, u>>, !.seen = "", !.node = n] =
                 Lined(s, m, a.major, a.minor, "", n)
    BY <2>1 DEF Lined, IsParser, Fields
  <2>2. /\ [a EXCEPT !.method = <<a.seen, u>>, !.seen = "", !.node = n] = Lined(a, m, a.major, a.minor, "", n)
        /\ [b EXCEPT !.method = <<b.seen, u>>, !.seen = "", !.node = n] = Lined(b, m, a.major, a.minor, "", n)
    BY <1>2, <2>1
  <2>3. <<a.seen, u>> \in Http!Methods => u # Http!LF
    BY LineFeedIs DEF Http!Methods
  <2>4. u # Http!LF => Reached(Lined(a, m, a.major, a.minor, "", n), Lined(b, m, a.major, a.minor, "", n), C, Ahead(u))
    BY <1>3 DEF LineNodes
  <2> QED BY <1>1, <1>2, <2>2, <2>3, <2>4 DEF Http!AfterStartReqRest
<1> QED BY <1>4, <1>5

LEMMA UrlReached ==
  ASSUME NEW a, NEW b, NEW C, With(a, b, C), Protocols \subseteq C.protocols, NEW u,
         a.span = "url"
  PROVE  /\ Reached(Http!UrlFragment(a, u), Http!UrlFragment(b, u), C, Ahead(u))
         /\ Reached(Http!UrlQuery(a, u), Http!UrlQuery(b, u), C, Ahead(u))
         /\ Reached(Http!UrlPath(a, u), Http!UrlPath(b, u), C, Ahead(u))
         /\ Reached(Http!UrlServer(a, u), Http!UrlServer(b, u), C, Ahead(u))
         /\ a.node \in UrlNodes => Reached(Http!UrlSchema(a, u), Http!UrlSchema(b, u), C, Ahead(u))
<1> DEFINE v == Http!SpanEnd(a)
           w == Http!SpanEnd(b)
<1>1. With(v, w, C) /\ v.span = "none"
  BY WithSpanEnd
<1> HIDE DEF v, w
<1>2. Reached(Http!UrlEnd(a, u), Http!UrlEnd(b, u), C, Ahead(u))
  BY <1>1, ReachedTo DEF SpanOpen, EarlyNodes, LineNodes, UrlNodes, PlainNodes, Ahead, Http!UrlEnd, v, w
<1>3. /\ \A e : e # "OK" /\ e # "PAUSED_UPGRADE" => Reached(Http!Fail(a, e), Http!Fail(b, e), C, Ahead(u))
      /\ u # Http!LF => \A n \in UrlNodes : Reached(Http!To(a, n), Http!To(b, n), C, Ahead(u))
      /\ u # Http!LF /\ a.node \in UrlNodes => Reached(a, b, C, Ahead(u))
  BY ReachedFail, ReachedTo, ReachedStay DEF SpanOpen, UrlNodes, Ahead
<1>4. a.node = b.node
  BY Same
<1>5. Reached(Http!UrlFragment(a, u), Http!UrlFragment(b, u), C, Ahead(u))
  BY <1>2, <1>3, LineFeedIs DEF Http!UrlFragment, UrlNodes
<1>6. Reached(Http!UrlQuery(a, u), Http!UrlQuery(b, u), C, Ahead(u))
  BY <1>2, <1>3, LineFeedIs DEF Http!UrlQuery, UrlNodes
<1>7. Reached(Http!UrlPath(a, u), Http!UrlPath(b, u), C, Ahead(u))
  BY <1>2, <1>3, LineFeedIs DEF Http!UrlPath, UrlNodes
<1>8. Reached(Http!UrlServer(a, u), Http!UrlServer(b, u), C, Ahead(u))
  BY <1>2, <1>3, <1>4, LineFeedIs DEF Http!UrlServer, UrlNodes, Http!Url
<1>9. a.node \in UrlNodes => Reached(Http!UrlSchema(a, u), Http!UrlSchema(b, u), C, Ahead(u))
  BY <1>3, <1>4, LineFeedIs DEF Http!UrlSchema, UrlNodes, Http!Url
<1> QED BY <1>5, <1>6, <1>7, <1>8, <1>9

LEMMA BeforeUrlReached ==
  ASSUME NEW a, NEW b, NEW C, With(a, b, C), Protocols \subseteq C.protocols, NEW u,
         a.span = "none", a.node \in LineNodes \ {"start"}
  PROVE  Reached(Http!ReqSpacesBeforeUrl(a, u), Http!ReqSpacesBeforeUrl(b, u), C, Ahead(u))
<1> DEFINE v == Http!SpanStart(a, "url")
           w == Http!SpanStart(b, "url")
<1>1. With(v, w, C) /\ v.span = "url"
  BY WithSpanStart
<1> HIDE DEF v, w
<1>2. Reached(Http!UrlServer(v, u), Http!UrlServer(w, u), C, Ahead(u))
  BY <1>1, UrlReached
<1>3. u # Http!LF => \A n \in UrlNodes : Reached(Http!To(v, n), Http!To(w, n), C, Ahead(u))
  BY <1>1, ReachedTo DEF SpanOpen, UrlNodes, Ahead
<1>4. \A e : e # "OK" /\ e # "PAUSED_UPGRADE" =>
        Reached(Http!Fail(v, e), Http!Fail(w, e), C, Ahead(u)) /\ Reached(Http!Fail(a, e), Http!Fail(b, e), C, Ahead(u))
  BY <1>1, ReachedFail
<1>5. Reached(Http!UrlStart(a, u), Http!UrlStart(b, u), C, Ahead(u))
  BY <1>3, <1>4, LineFeedIs DEF Http!UrlStart, Http!Url, UrlNodes, v, w
<1>6. u # Http!LF => Reached(Http!To(a, "req_spaces_before_url"), Http!To(b, "req_spaces_before_url"), C, Ahead(u))
  BY ReachedTo DEF SpanOpen, LineNodes, Ahead
<1>7. a.node = b.node /\ a.method = b.method
  BY Same
<1> QED BY <1>2, <1>4, <1>5, <1>6, <1>7, LineFeedIs DEF Http!ReqSpacesBeforeUrl, v, w

\* Behind the URL.
LEMMA VersionReached ==
  ASSUME NEW a, NEW b, NEW C, With(a, b, C), NEW u, a.span = "none", a.error = "OK"
  PROVE  /\ Reached(Http!UrlToHttp(a, u), Http!UrlToHttp(b, u), C, EarlyNodes)
         /\ Reached(Http!ReqHttpStart(a, u), Http!ReqHttpStart(b, u), C, EarlyNodes)
         /\ Reached(Http!UrlToHttp09(a, u), Http!UrlToHttp09(b, u), C, EarlyNodes)
         /\ Reached(Http!ReqHttpMajor(a, u), Http!ReqHttpMajor(b, u), C, EarlyNodes)
         /\ Reached(Http!ReqHttpDot(a, u), Http!ReqHttpDot(b, u), C, EarlyNodes)
         /\ Reached(Http!ReqHttpMinor(a, u), Http!ReqHttpMinor(b, u), C, EarlyNodes)
         /\ Reached(Http!ReqHttpComplete(a, u), Http!ReqHttpComplete(b, u), C, EarlyNodes)
<1>1. /\ \A n \in PlainNodes : Reached(Http!To(a, n), Http!To(b, n), C, EarlyNodes)
      /\ \A e : e # "OK" /\ e # "PAUSED_UPGRADE" => Reached(Http!Fail(a, e), Http!Fail(b, e), C, EarlyNodes)
  BY ReachedTo, ReachedFail DEF SpanOpen, EarlyNodes, LineNodes, UrlNodes, PlainNodes
<1>2. a.node = b.node /\ a.method = b.method /\ a.seen = b.seen /\ a.major = b.major /\ a.minor = b.minor
      /\ IsParser(a) /\ IsParser(b)
  BY Same DEF With, Near, Looking
<1>3. ASSUME NEW v, NEW w, NEW n \in PlainNodes
      PROVE  Reached(Lined(a, a.method, v, w, a.seen, n), Lined(b, a.method, v, w, a.seen, n), C, EarlyNodes)
  BY WithLine, ReachedStay DEF SpanOpen, EarlyNodes, LineNodes, UrlNodes, PlainNodes
<1>4. Reached(Http!ReqHttpStart(a, u), Http!ReqHttpStart(b, u), C, EarlyNodes)
  BY <1>1, <1>2 DEF Http!ReqHttpStart, PlainNodes
<1>5. Reached(Http!UrlToHttp(a, u), Http!UrlToHttp(b, u), C, EarlyNodes)
  BY <1>1, <1>4 DEF Http!UrlToHttp
<1>6. Reached(Http!ReqHttpDot(a, u), Http!ReqHttpDot(b, u), C, EarlyNodes)
  BY <1>1 DEF Http!ReqHttpDot, PlainNodes
<1>7. Reached(Http!ReqHttpComplete(a, u), Http!ReqHttpComplete(b, u), C, EarlyNodes)
  BY <1>1, <1>2 DEF Http!ReqHttpComplete, PlainNodes
<1>8. Reached(Http!ReqHttpMajor(a, u), Http!ReqHttpMajor(b, u), C, EarlyNodes)
  <2> DEFINE v == Http!Value(u)
             n == "req_http_dot"
  <2>1. ASSUME NEW s, IsParser(s), s.method = a.method, s.minor = a.minor, s.seen = a.seen
        PROVE  [s EXCEPT !.major = v, !.node = n] = Lined(s, a.method, v, a.minor, a.seen, n)
    BY <2>1 DEF Lined, IsParser, Fields
  <2>2. /\ [a EXCEPT !.major = v, !.node = n] = Lined(a, a.method, v, a.minor, a.seen, n)
        /\ [b EXCEPT !.major = v, !.node = n] = Lined(b, a.method, v, a.minor, a.seen, n)
    BY <1>2, <2>1
  <2>3. Reached(Lined(a, a.method, v, a.minor, a.seen, n), Lined(b, a.method, v, a.minor, a.seen, n), C, EarlyNodes)
    BY <1>3 DEF PlainNodes
  <2> QED BY <1>1, <2>2, <2>3 DEF Http!ReqHttpMajor
<1>9. Reached(Http!ReqHttpMinor(a, u), Http!ReqHttpMinor(b, u), C, EarlyNodes)
  <2> DEFINE v == Http!Value(u)
             n == "req_http_complete"
  <2>1. ASSUME NEW s, IsParser(s), s.method = a.method, s.major = a.major, s.seen = a.seen
        PROVE  [s EXCEPT !.minor = v, !.node = n] = Lined(s, a.method, a.major, v, a.seen, n)
    BY <2>1 DEF Lined, IsParser, Fields
  <2>2. /\ [a EXCEPT !.minor = v, !.node = n] = Lined(a, a.method, a.major, v, a.seen, n)
        /\ [b EXCEPT !.minor = v, !.node = n] = Lined(b, a.method, a.major, v, a.seen, n)
    BY <1>2, <2>1
  <2>3. Reached(Lined(a, a.method, a.major, v, a.seen, n), Lined(b, a.method, a.major, v, a.seen, n), C, EarlyNodes)
    BY <1>3 DEF PlainNodes
  <2> QED BY <1>1, <1>2, <2>2, <2>3 DEF Http!ReqHttpMinor
<1>10. Reached(Http!UrlToHttp09(a, u), Http!UrlToHttp09(b, u), C, EarlyNodes)
  <2> DEFINE x == [a EXCEPT !.major = 0, !.minor = 9]
             y == [b EXCEPT !.major = 0, !.minor = 9]
  <2>1. ASSUME NEW s, IsParser(s), s.method = a.method, s.node = a.node, s.seen = a.seen
        PROVE  [s EXCEPT !.major = 0, !.minor = 9] = Lined(s, a.method, 0, 9, a.seen, a.node)
    BY <2>1 DEF Lined, IsParser, Fields
  <2>2. x = Lined(a, a.method, 0, 9, a.seen, a.node) /\ y = Lined(b, a.method, 0, 9, a.seen, a.node)
    BY <1>2, <2>1
  <2> HIDE DEF x, y
  <2>3. With(x, y, C) /\ x.span = "none"
    BY <2>2, WithLine
  <2>4. Reached(Http!HeadersStart(x, u), Http!HeadersStart(y, u), C, EarlyNodes)
    BY <2>3, FieldStartReached
  <2> QED BY <1>1, <2>4 DEF Http!UrlToHttp09, x, y
<1> QED BY <1>4, <1>5, <1>6, <1>7, <1>8, <1>9, <1>10

\* What a node does with a unit.
LEMMA NodeIs ==
  ASSUME NEW s, NEW u
  PROVE  /\ s.node = "start" => Http!Node(s, u) = Http!Start(s, u)
         /\ s.node = "after_start_req_rest" => Http!Node(s, u) = Http!AfterStartReqRest(s, u)
         /\ s.node \in {"req_first_space_before_url", "req_spaces_before_url"} =>
              Http!Node(s, u) = Http!ReqSpacesBeforeUrl(s, u)
         /\ s.node \in {"url_schema", "url_schema_delim", "url_schema_delim_1"} =>
              Http!Node(s, u) = Http!UrlSchema(s, u)
         /\ s.node \in {"url_server", "url_server_with_at"} => Http!Node(s, u) = Http!UrlServer(s, u)
         /\ s.node = "url_path" => Http!Node(s, u) = Http!UrlPath(s, u)
         /\ s.node = "url_query" => Http!Node(s, u) = Http!UrlQuery(s, u)
         /\ s.node = "url_fragment" => Http!Node(s, u) = Http!UrlFragment(s, u)
         /\ s.node = "url_to_http" => Http!Node(s, u) = Http!UrlToHttp(s, u)
         /\ s.node = "url_skip_lf_to_http09_1" =>
              Http!Node(s, u) = Http!LineFeed(s, u, "url_to_http_09", "INVALID_URL")
         /\ s.node = "url_to_http_09" => Http!Node(s, u) = Http!UrlToHttp09(s, u)
         /\ s.node = "req_http_start" => Http!Node(s, u) = Http!ReqHttpStart(s, u)
         /\ s.node = "req_http_major" => Http!Node(s, u) = Http!ReqHttpMajor(s, u)
         /\ s.node = "req_http_dot" => Http!Node(s, u) = Http!ReqHttpDot(s, u)
         /\ s.node = "req_http_minor" => Http!Node(s, u) = Http!ReqHttpMinor(s, u)
         /\ s.node = "req_http_complete" => Http!Node(s, u) = Http!ReqHttpComplete(s, u)
         /\ s.node = "req_http_complete_crlf" =>
              Http!Node(s, u) = Http!LineFeed(s, u, "headers_start", "STRICT")
         /\ s.node = "headers_start" => Http!Node(s, u) = Http!HeadersStart(s, u)
         /\ s.node = "header_field_start" => Http!Node(s, u) = Http!HeaderFieldStart(s, u)
         /\ s.node = "header_field_2" => Http!Node(s, u) = Http!HeaderField2(s, u)
         /\ s.node = "header_field_colon" => Http!Node(s, u) = Http!HeaderFieldColon(s, u)
         /\ s.node = "header_field_general" => Http!Node(s, u) = Http!HeaderFieldGeneral(s, u)
         /\ s.node = "header_value_discard_ws" => Http!Node(s, u) = Http!HeaderValueDiscardWs(s, u)
         /\ s.node = "header_value_discard_ws_almost_done" =>
              Http!Node(s, u) = Http!LineFeed(s, u, "header_value_discard_lws", "STRICT")
         /\ s.node = "header_value_discard_lws" => Http!Node(s, u) = Http!HeaderValueDiscardLws(s, u)
         /\ s.node = "header_value" => Http!Node(s, u) = Http!HeaderValue(s, u)
         /\ s.node = "header_value_connection" => Http!Node(s, u) = Http!Connection(s, u)
         /\ s.node = "header_value_connection_ws" => Http!Node(s, u) = Http!ConnectionWs(s, u)
         /\ s.node = "header_value_connection_token" => Http!Node(s, u) = Http!ConnectionToken(s, u)
         /\ s.node = "header_value_content_length" => Http!Node(s, u) = Http!ContentLength(s, u)
         /\ s.node = "header_value_content_length_ws" => Http!Node(s, u) = Http!ContentLengthWs(s, u)
         /\ s.node = "header_value_te_token" => Http!Node(s, u) = Http!TeToken(s, u)
         /\ s.node = "header_value_te_token_ows" => Http!Node(s, u) = Http!TeTokenOws(s, u)
         /\ s.node = "header_value_te_chunked_last" => Http!Node(s, u) = Http!TeChunkedLast(s, u)
         /\ s.node = "header_value_almost_done" =>
              Http!Node(s, u) = Http!LineFeed(s, u, "header_value_lws", "LF_EXPECTED")
         /\ s.node = "header_value_lws" => Http!Node(s, u) = Http!HeaderValueLws(s, u)
         /\ s.node = "headers_almost_done" => Http!Node(s, u) = Http!HeadersAlmostDone(s, u)
         /\ s.node = "body_identity" => Http!Node(s, u) = Http!BodyIdentity(s, u)
         /\ s.node = "chunk_size_digit" => Http!Node(s, u) = Http!ChunkSizeDigit(s, u)
         /\ s.node = "chunk_size" => Http!Node(s, u) = Http!ChunkSize(s, u)
         /\ s.node \in {"chunk_extensions", "chunk_extension_name"} =>
              Http!Node(s, u) = Http!ChunkExtensions(s, u)
         /\ s.node = "chunk_extension_value" => Http!Node(s, u) = Http!ChunkExtensionValue(s, u)
         /\ s.node \in {"chunk_extension_quoted_value", "chunk_extension_quoted_value_done"} =>
              Http!Node(s, u) = Http!ChunkExtensionQuoted(s, u)
         /\ s.node = "chunk_size_almost_done" => Http!Node(s, u) = Http!ChunkSizeAlmostDone(s, u)
         /\ s.node = "chunk_data" => Http!Node(s, u) = Http!ChunkData(s, u)
         /\ s.node \in {"chunk_data_almost_done", "chunk_data_almost_done_1"} =>
              Http!Node(s, u) = Http!ChunkDataAlmostDone(s, u)
         /\ s.node = "closed" => Http!Node(s, u) = Http!Closed(s, u)
<1>1. s.node = "start" => Http!Node(s, u) = Http!Start(s, u)
  BY DEF Http!Node
<1>2. s.node = "after_start_req_rest" => Http!Node(s, u) = Http!AfterStartReqRest(s, u)
  BY SMTT(40) DEF Http!Node
<1>3. s.node \in {"req_first_space_before_url", "req_spaces_before_url"} =>
       Http!Node(s, u) = Http!ReqSpacesBeforeUrl(s, u)
  BY SMTT(40) DEF Http!Node
<1>4. s.node \in {"url_schema", "url_schema_delim", "url_schema_delim_1"} =>
       Http!Node(s, u) = Http!UrlSchema(s, u)
  BY SMTT(40) DEF Http!Node
<1>5. s.node \in {"url_server", "url_server_with_at"} => Http!Node(s, u) = Http!UrlServer(s, u)
  BY DEF Http!Node
<1>6. s.node = "url_path" => Http!Node(s, u) = Http!UrlPath(s, u)
  BY DEF Http!Node
<1>7. s.node = "url_query" => Http!Node(s, u) = Http!UrlQuery(s, u)
  BY DEF Http!Node
<1>8. s.node = "url_fragment" => Http!Node(s, u) = Http!UrlFragment(s, u)
  BY DEF Http!Node
<1>9. s.node = "url_to_http" => Http!Node(s, u) = Http!UrlToHttp(s, u)
  BY DEF Http!Node
<1>10. s.node = "url_skip_lf_to_http09_1" =>
       Http!Node(s, u) = Http!LineFeed(s, u, "url_to_http_09", "INVALID_URL")
  BY DEF Http!Node
<1>11. s.node = "url_to_http_09" => Http!Node(s, u) = Http!UrlToHttp09(s, u)
  BY DEF Http!Node
<1>12. s.node = "req_http_start" => Http!Node(s, u) = Http!ReqHttpStart(s, u)
  BY DEF Http!Node
<1>13. s.node = "req_http_major" => Http!Node(s, u) = Http!ReqHttpMajor(s, u)
  BY DEF Http!Node
<1>14. s.node = "req_http_dot" => Http!Node(s, u) = Http!ReqHttpDot(s, u)
  BY DEF Http!Node
<1>15. s.node = "req_http_minor" => Http!Node(s, u) = Http!ReqHttpMinor(s, u)
  BY DEF Http!Node
<1>16. s.node = "req_http_complete" => Http!Node(s, u) = Http!ReqHttpComplete(s, u)
  BY DEF Http!Node
<1>17. s.node = "req_http_complete_crlf" =>
       Http!Node(s, u) = Http!LineFeed(s, u, "headers_start", "STRICT")
  BY DEF Http!Node
<1>18. s.node = "headers_start" => Http!Node(s, u) = Http!HeadersStart(s, u)
  BY DEF Http!Node
<1>19. s.node = "header_field_start" => Http!Node(s, u) = Http!HeaderFieldStart(s, u)
  BY DEF Http!Node
<1>20. s.node = "header_field_2" => Http!Node(s, u) = Http!HeaderField2(s, u)
  BY DEF Http!Node
<1>21. s.node = "header_field_colon" => Http!Node(s, u) = Http!HeaderFieldColon(s, u)
  BY DEF Http!Node
<1>22. s.node = "header_field_general" => Http!Node(s, u) = Http!HeaderFieldGeneral(s, u)
  BY DEF Http!Node
<1>23. s.node = "header_value_discard_ws" => Http!Node(s, u) = Http!HeaderValueDiscardWs(s, u)
  BY DEF Http!Node
<1>24. s.node = "header_value_discard_ws_almost_done" =>
       Http!Node(s, u) = Http!LineFeed(s, u, "header_value_discard_lws", "STRICT")
  BY DEF Http!Node
<1>25. s.node = "header_value_discard_lws" => Http!Node(s, u) = Http!HeaderValueDiscardLws(s, u)
  BY DEF Http!Node
<1>26. s.node = "header_value" => Http!Node(s, u) = Http!HeaderValue(s, u)
  BY DEF Http!Node
<1>27. s.node = "header_value_connection" => Http!Node(s, u) = Http!Connection(s, u)
  BY DEF Http!Node
<1>28. s.node = "header_value_connection_ws" => Http!Node(s, u) = Http!ConnectionWs(s, u)
  BY DEF Http!Node
<1>29. s.node = "header_value_connection_token" => Http!Node(s, u) = Http!ConnectionToken(s, u)
  BY DEF Http!Node
<1>30. s.node = "header_value_content_length" => Http!Node(s, u) = Http!ContentLength(s, u)
  BY DEF Http!Node
<1>31. s.node = "header_value_content_length_ws" => Http!Node(s, u) = Http!ContentLengthWs(s, u)
  BY DEF Http!Node
<1>32. s.node = "header_value_te_token" => Http!Node(s, u) = Http!TeToken(s, u)
  BY DEF Http!Node
<1>33. s.node = "header_value_te_token_ows" => Http!Node(s, u) = Http!TeTokenOws(s, u)
  BY DEF Http!Node
<1>34. s.node = "header_value_te_chunked_last" => Http!Node(s, u) = Http!TeChunkedLast(s, u)
  BY DEF Http!Node
<1>35. s.node = "header_value_almost_done" =>
       Http!Node(s, u) = Http!LineFeed(s, u, "header_value_lws", "LF_EXPECTED")
  BY DEF Http!Node
<1>36. s.node = "header_value_lws" => Http!Node(s, u) = Http!HeaderValueLws(s, u)
  BY DEF Http!Node
<1>37. s.node = "headers_almost_done" => Http!Node(s, u) = Http!HeadersAlmostDone(s, u)
  BY DEF Http!Node
<1>38. s.node = "body_identity" => Http!Node(s, u) = Http!BodyIdentity(s, u)
  BY DEF Http!Node
<1>39. s.node = "chunk_size_digit" => Http!Node(s, u) = Http!ChunkSizeDigit(s, u)
  BY DEF Http!Node
<1>40. s.node = "chunk_size" => Http!Node(s, u) = Http!ChunkSize(s, u)
  BY DEF Http!Node
<1>41. s.node \in {"chunk_extensions", "chunk_extension_name"} =>
       Http!Node(s, u) = Http!ChunkExtensions(s, u)
  BY DEF Http!Node
<1>42. s.node = "chunk_extension_value" => Http!Node(s, u) = Http!ChunkExtensionValue(s, u)
  BY DEF Http!Node
<1>43. s.node \in {"chunk_extension_quoted_value", "chunk_extension_quoted_value_done"} =>
       Http!Node(s, u) = Http!ChunkExtensionQuoted(s, u)
  BY DEF Http!Node
<1>44. s.node = "chunk_size_almost_done" => Http!Node(s, u) = Http!ChunkSizeAlmostDone(s, u)
  BY DEF Http!Node
<1>45. s.node = "chunk_data" => Http!Node(s, u) = Http!ChunkData(s, u)
  BY DEF Http!Node
<1>46. s.node \in {"chunk_data_almost_done", "chunk_data_almost_done_1"} =>
       Http!Node(s, u) = Http!ChunkDataAlmostDone(s, u)
  BY DEF Http!Node
<1>47. s.node = "closed" => Http!Node(s, u) = Http!Closed(s, u)
  BY DEF Http!Node
<1> QED
  BY <1>1, <1>2, <1>3, <1>4, <1>5, <1>6, <1>7, <1>8, <1>9, <1>10, <1>11, <1>12, <1>13, <1>14,
     <1>15, <1>16, <1>17, <1>18, <1>19, <1>20, <1>21, <1>22, <1>23, <1>24, <1>25, <1>26,
     <1>27, <1>28, <1>29, <1>30, <1>31, <1>32, <1>33, <1>34, <1>35, <1>36, <1>37, <1>38,
     <1>39, <1>40, <1>41, <1>42, <1>43, <1>44, <1>45, <1>46, <1>47

\* Two parsers at the same place, where they were told to stand, come to the same.
LEMMA NodeReached ==
  ASSUME NEW a, NEW b, NEW C, With(a, b, C), NEW u, a.error = "OK",
         SpanOpen(a.node, a.span),
         a.node \in EarlyNodes => Protocols \subseteq C.protocols,
         a.node = "start" => u \notin {Http!CR, Http!LF}
  PROVE  Reached(Http!Node(a, u), Http!Node(b, u), C,
                 IF a.node \in EarlyNodes THEN Ahead(u) ELSE EarlyNodes)
<1>0. a.node = b.node
  BY Same
<1> DEFINE x == Http!Node(a, u)
           y == Http!Node(b, u)
<1> HIDE DEF x, y
<1>1. CASE a.node \in LineNodes
  <2>1. a.span = "none" /\ a.node \in EarlyNodes
    BY <1>1 DEF SpanOpen, EarlyNodes, LineNodes, UrlNodes, FieldNodes, ValueNodes, BodyNodes
  <2>2. CASE a.node = "start"
    <3>1. x = Http!Start(a, u) /\ y = Http!Start(b, u)
      BY <1>0, <2>2, NodeIs DEF x, y
    <3> QED BY <2>1, <2>2, <3>1, MethodReached DEF x, y
  <2>3. CASE a.node = "after_start_req_rest"
    <3>1. x = Http!AfterStartReqRest(a, u) /\ y = Http!AfterStartReqRest(b, u)
      BY <1>0, <2>3, NodeIs DEF x, y
    <3> QED BY <2>1, <3>1, MethodReached DEF x, y
  <2>4. CASE a.node \in LineNodes \ {"start", "after_start_req_rest"}
    <3>1. x = Http!ReqSpacesBeforeUrl(a, u) /\ y = Http!ReqSpacesBeforeUrl(b, u)
      BY <1>0, <2>4, NodeIs DEF x, y, LineNodes
    <3>2. a.node \in LineNodes \ {"start"}
      BY <2>4
    <3> QED BY <2>1, <3>1, <3>2, BeforeUrlReached DEF x, y
  <2> QED BY <1>1, <2>2, <2>3, <2>4
<1>2. CASE a.node \in UrlNodes
  <2>1. a.span = "url" /\ a.node \in EarlyNodes
    BY <1>2 DEF SpanOpen, EarlyNodes, LineNodes, UrlNodes, FieldNodes, ValueNodes, BodyNodes, PlainNodes
  <2>2. \/ x = Http!UrlSchema(a, u) /\ y = Http!UrlSchema(b, u)
        \/ x = Http!UrlServer(a, u) /\ y = Http!UrlServer(b, u)
        \/ x = Http!UrlPath(a, u) /\ y = Http!UrlPath(b, u)
        \/ x = Http!UrlQuery(a, u) /\ y = Http!UrlQuery(b, u)
        \/ x = Http!UrlFragment(a, u) /\ y = Http!UrlFragment(b, u)
    BY <1>0, <1>2, NodeIs DEF x, y, UrlNodes
  <2>3. Reached(x, y, C, Ahead(u))
    BY <1>2, <2>1, <2>2, UrlReached
  <2> QED BY <2>1, <2>3 DEF x, y
<1>3. CASE a.node \in FieldNodes
  <2>1. a.span = "field" /\ a.node \notin EarlyNodes
    BY <1>3 DEF SpanOpen, EarlyNodes, LineNodes, UrlNodes, FieldNodes, ValueNodes, BodyNodes, PlainNodes
  <2>2. \/ x = Http!HeaderFieldGeneral(a, u) /\ y = Http!HeaderFieldGeneral(b, u)
        \/ x = Http!HeaderFieldColon(a, u) /\ y = Http!HeaderFieldColon(b, u)
        \/ x = Http!HeaderField2(a, u) /\ y = Http!HeaderField2(b, u)
    BY <1>0, <1>3, NodeIs DEF x, y, FieldNodes
  <2>3. Reached(x, y, C, EarlyNodes)
    BY <1>3, <2>1, <2>2, FieldReached
  <2> QED BY <2>1, <2>3 DEF x, y
<1>4. CASE a.node \in ValueNodes
  <2>1. a.span = "value" /\ a.node \notin EarlyNodes
    BY <1>4 DEF SpanOpen, EarlyNodes, LineNodes, UrlNodes, FieldNodes, ValueNodes, BodyNodes, PlainNodes
  <2>2. \/ x = Http!HeaderValue(a, u) /\ y = Http!HeaderValue(b, u)
        \/ x = Http!Connection(a, u) /\ y = Http!Connection(b, u)
        \/ x = Http!ConnectionWs(a, u) /\ y = Http!ConnectionWs(b, u)
        \/ x = Http!ConnectionToken(a, u) /\ y = Http!ConnectionToken(b, u)
        \/ x = Http!ContentLength(a, u) /\ y = Http!ContentLength(b, u)
        \/ x = Http!ContentLengthWs(a, u) /\ y = Http!ContentLengthWs(b, u)
        \/ x = Http!TeToken(a, u) /\ y = Http!TeToken(b, u)
        \/ x = Http!TeTokenOws(a, u) /\ y = Http!TeTokenOws(b, u)
        \/ x = Http!TeChunkedLast(a, u) /\ y = Http!TeChunkedLast(b, u)
    BY <1>0, <1>4, NodeIs DEF x, y, ValueNodes
  <2>3. Reached(x, y, C, EarlyNodes)
    BY <1>4, <2>1, <2>2, ValueEndReached, ConnectionReached, LengthReached, EncodingReached
  <2> QED BY <2>1, <2>3 DEF x, y
<1>5. CASE a.node \in BodyNodes
  <2>1. a.span \in {"none", "body"} /\ a.node \notin EarlyNodes
    BY <1>5 DEF SpanOpen, EarlyNodes, LineNodes, UrlNodes, FieldNodes, ValueNodes, BodyNodes, PlainNodes
  <2>2. \/ x = Http!BodyIdentity(a, u) /\ y = Http!BodyIdentity(b, u)
        \/ x = Http!ChunkData(a, u) /\ y = Http!ChunkData(b, u)
    BY <1>0, <1>5, NodeIs DEF x, y, BodyNodes
  <2>3. Reached(x, y, C, EarlyNodes)
    BY <1>5, <2>1, <2>2, BodyReached
  <2> QED BY <2>1, <2>3 DEF x, y
<1>6. CASE a.node \in PlainNodes
  <2>1. a.span = "none" /\ a.node \notin EarlyNodes
    BY <1>6 DEF SpanOpen, EarlyNodes, LineNodes, UrlNodes, FieldNodes, ValueNodes, BodyNodes, PlainNodes
  <2>2. CASE a.node \in {"url_to_http", "req_http_start", "req_http_major", "req_http_dot",
                         "req_http_minor", "req_http_complete", "url_to_http_09"}
    <3>1. \/ x = Http!UrlToHttp(a, u) /\ y = Http!UrlToHttp(b, u)
          \/ x = Http!ReqHttpStart(a, u) /\ y = Http!ReqHttpStart(b, u)
          \/ x = Http!ReqHttpMajor(a, u) /\ y = Http!ReqHttpMajor(b, u)
          \/ x = Http!ReqHttpDot(a, u) /\ y = Http!ReqHttpDot(b, u)
          \/ x = Http!ReqHttpMinor(a, u) /\ y = Http!ReqHttpMinor(b, u)
          \/ x = Http!ReqHttpComplete(a, u) /\ y = Http!ReqHttpComplete(b, u)
          \/ x = Http!UrlToHttp09(a, u) /\ y = Http!UrlToHttp09(b, u)
      BY <1>0, <2>2, NodeIs DEF x, y
    <3>2. Reached(x, y, C, EarlyNodes)
      BY <2>1, <3>1, VersionReached
    <3> QED BY <2>1, <3>2 DEF x, y
  <2>3. CASE a.node \in {"url_skip_lf_to_http09_1", "req_http_complete_crlf",
                         "header_value_discard_ws_almost_done", "header_value_almost_done"}
    <3>1. \E n \in PlainNodes : \E e : /\ e # "OK" /\ e # "PAUSED_UPGRADE"
                                   /\ x = Http!LineFeed(a, u, n, e) /\ y = Http!LineFeed(b, u, n, e)
      <4>1. \/ x = Http!LineFeed(a, u, "url_to_http_09", "INVALID_URL")
               /\ y = Http!LineFeed(b, u, "url_to_http_09", "INVALID_URL")
            \/ x = Http!LineFeed(a, u, "headers_start", "STRICT")
               /\ y = Http!LineFeed(b, u, "headers_start", "STRICT")
            \/ x = Http!LineFeed(a, u, "header_value_discard_lws", "STRICT")
               /\ y = Http!LineFeed(b, u, "header_value_discard_lws", "STRICT")
            \/ x = Http!LineFeed(a, u, "header_value_lws", "LF_EXPECTED")
               /\ y = Http!LineFeed(b, u, "header_value_lws", "LF_EXPECTED")
        BY <1>0, <2>3, NodeIs DEF x, y
      <4> QED BY <4>1 DEF PlainNodes
    <3>2. Reached(x, y, C, EarlyNodes)
      BY <1>6, <2>1, <3>1, LineReached
    <3> QED BY <2>1, <3>2 DEF x, y
  <2>4. CASE a.node \in {"headers_start", "header_field_start", "header_value_discard_ws",
                         "header_value_discard_lws", "header_value_lws", "headers_almost_done"}
    <3>1. \/ x = Http!HeadersStart(a, u) /\ y = Http!HeadersStart(b, u)
          \/ x = Http!HeaderFieldStart(a, u) /\ y = Http!HeaderFieldStart(b, u)
          \/ x = Http!HeaderValueDiscardWs(a, u) /\ y = Http!HeaderValueDiscardWs(b, u)
          \/ x = Http!HeaderValueDiscardLws(a, u) /\ y = Http!HeaderValueDiscardLws(b, u)
          \/ x = Http!HeaderValueLws(a, u) /\ y = Http!HeaderValueLws(b, u)
          \/ x = Http!HeadersAlmostDone(a, u) /\ y = Http!HeadersAlmostDone(b, u)
      BY <1>0, <2>4, NodeIs DEF x, y
    <3>2. Reached(x, y, C, EarlyNodes)
      BY <1>6, <2>1, <3>1, FieldStartReached, LineReached
    <3> QED BY <2>1, <3>2 DEF x, y
  <2>5. CASE a.node \in {"chunk_size_digit", "chunk_size", "chunk_extensions", "chunk_extension_name",
                         "chunk_extension_value", "chunk_extension_quoted_value",
                         "chunk_extension_quoted_value_done", "chunk_size_almost_done",
                         "chunk_data_almost_done", "chunk_data_almost_done_1"}
    <3>1. \/ x = Http!ChunkSizeDigit(a, u) /\ y = Http!ChunkSizeDigit(b, u)
          \/ x = Http!ChunkSize(a, u) /\ y = Http!ChunkSize(b, u)
          \/ x = Http!ChunkExtensions(a, u) /\ y = Http!ChunkExtensions(b, u)
          \/ x = Http!ChunkExtensionValue(a, u) /\ y = Http!ChunkExtensionValue(b, u)
          \/ x = Http!ChunkExtensionQuoted(a, u) /\ y = Http!ChunkExtensionQuoted(b, u)
          \/ x = Http!ChunkSizeAlmostDone(a, u) /\ y = Http!ChunkSizeAlmostDone(b, u)
          \/ x = Http!ChunkDataAlmostDone(a, u) /\ y = Http!ChunkDataAlmostDone(b, u)
      BY <1>0, <2>5, NodeIs DEF x, y
    <3>2. Reached(x, y, C, EarlyNodes)
      BY <1>6, <2>1, <3>1, ChunkReached
    <3> QED BY <2>1, <3>2 DEF x, y
  <2>6. CASE a.node = "closed"
    <3>1. x = Http!Closed(a, u) /\ y = Http!Closed(b, u)
      BY <1>0, <2>6, NodeIs, ZenonT(60) DEF x, y
    <3>2. Reached(a, b, C, EarlyNodes)
      BY <1>6, <2>1, ReachedStay DEF SpanOpen
    <3>3. Reached(Http!Fail(a, "CLOSED_CONNECTION"), Http!Fail(b, "CLOSED_CONNECTION"), C, EarlyNodes)
      BY ReachedFail
    <3> QED BY <2>1, <3>1, <3>2, <3>3 DEF Http!Closed, x, y
  <2> QED BY <1>6, <2>2, <2>3, <2>4, <2>5, <2>6 DEF PlainNodes
<1>7. a.node \in LineNodes \cup UrlNodes \cup FieldNodes \cup ValueNodes \cup BodyNodes \cup PlainNodes
  BY DEF SpanOpen
<1> QED BY <1>1, <1>2, <1>3, <1>4, <1>5, <1>6, <1>7

-----------------------------------------------------------------------------
\* A piece is read.

\* A parser that begins to read a piece, after each unit of it and at its end.
Begun(s, buf) == [s EXCEPT !.buf = buf, !.start = 1]
RunTable(R, s, buf) ==
  /\ R[0] = Begun(s, buf)
  /\ \A k \in 1 .. Len(buf) : R[k] = Http!Run(R[k - 1], k)
RunEnd(r, n) ==
  [(IF r.error = "OK" THEN Http!SpanCallback(r, n) ELSE r) EXCEPT !.buf = <<>>, !.p = 0, !.start = 0]

\* What the parser makes of a piece is what it is after the last unit.
LEMMA Executed ==
  ASSUME NEW s, NEW buf, Len(buf) \in Nat
  PROVE  \E R : RunTable(R, s, buf) /\ Http!llhttp_execute(s, buf) = RunEnd(R[Len(buf)], Len(buf))
<1> DEFINE n == Len(buf)
           T(R, m) == R = [k \in 0 .. m |-> IF k = 0 THEN Begun(s, buf) ELSE Http!Run(R[k - 1], k)]
           S == {m \in Nat : \E R : T(R, m)}
<1>1. 0 \in S
  <2> DEFINE z == [k \in 0 .. 0 |-> Begun(s, buf)]
  <2>1. T(z, 0)
    OBVIOUS
  <2> HIDE DEF z
  <2> QED BY <2>1
<1>2. ASSUME NEW m \in Nat, m \in S PROVE m + 1 \in S
  <2>1. PICK f : T(f, m)
    BY <1>2
  <2> DEFINE v == Http!Run(f[m], m + 1)
             g == [k \in 0 .. m + 1 |-> IF k = m + 1 THEN v ELSE f[k]]
  <2>2. ASSUME NEW k \in 0 .. m
        PROVE  g[k] = f[k] /\ f[k] = IF k = 0 THEN Begun(s, buf) ELSE Http!Run(f[k - 1], k)
    <3>1. g[k] = f[k]
      OBVIOUS
    <3> HIDE DEF g, v
    <3> QED BY <2>1, <3>1
  <2>3. g[m + 1] = v
    OBVIOUS
  <2>4. g = [k \in 0 .. m + 1 |-> g[k]]
    OBVIOUS
  <2> HIDE DEF g
  <2>5. ASSUME NEW k \in 0 .. m + 1
        PROVE  g[k] = IF k = 0 THEN Begun(s, buf) ELSE Http!Run(g[k - 1], k)
    <3>1. CASE k = m + 1
      <4>1. k # 0 /\ k - 1 = m /\ m \in 0 .. m
        BY <3>1
      <4>2. g[k - 1] = f[m]
        BY <2>2, <4>1
      <4> QED BY <2>3, <3>1, <4>1, <4>2
    <3>2. CASE k = 0
      <4>1. k \in 0 .. m
        BY <3>2
      <4> QED BY <2>2, <3>2, <4>1
    <3>3. CASE k # m + 1 /\ k # 0
      <4>1. k \in 0 .. m /\ k - 1 \in 0 .. m
        BY <3>3
      <4> QED BY <2>2, <3>3, <4>1
    <3> QED BY <3>1, <3>2, <3>3
  <2>6. T(g, m + 1)
    BY <2>4, <2>5
  <2> QED BY <2>6
<1> HIDE DEF S
<1>3. n \in S
  BY <1>1, <1>2, EveryNumber
<1> DEFINE R == CHOOSE R : T(R, n)
<1>4. T(R, n)
  <2>1. \E f : T(f, n)
    BY <1>3 DEF S
  <2> QED BY <2>1
<1>5. Http!llhttp_execute(s, buf) = RunEnd(R[n], n)
  BY DEF Http!llhttp_execute, RunEnd, Begun
<1> HIDE DEF R
<1>6. RunTable(R, s, buf)
  <2>1. R[0] = Begun(s, buf)
    BY <1>4
  <2>2. ASSUME NEW k \in 1 .. n PROVE R[k] = Http!Run(R[k - 1], k)
    <3>1. k \in 0 .. n /\ k # 0
      OBVIOUS
    <3> HIDE DEF n
    <3> QED BY <1>4, <3>1
  <2> QED BY <2>1, <2>2 DEF RunTable
<1> QED BY <1>5, <1>6

\* A parser that met an error, or paused, reads no further.
LEMMA ErrorStays ==
  ASSUME NEW s, NEW buf, Len(buf) \in Nat, NEW R, RunTable(R, s, buf),
         NEW i \in 0 .. Len(buf), R[i].error # "OK"
  PROVE  \A k \in i .. Len(buf) : R[k] = R[i]
<1> DEFINE S == {m \in Nat : i + m <= Len(buf) => R[i + m] = R[i]}
<1>1. 0 \in S
  OBVIOUS
<1>2. ASSUME NEW m \in Nat, m \in S PROVE m + 1 \in S
  <2> SUFFICES ASSUME i + (m + 1) <= Len(buf) PROVE R[i + (m + 1)] = R[i]
    OBVIOUS
  <2>1. R[i + m] = R[i]
    BY <1>2
  <2>2. i + (m + 1) \in 1 .. Len(buf) /\ (i + (m + 1)) - 1 = i + m
    OBVIOUS
  <2>3. R[i + (m + 1)] = Http!Run(R[i + m], i + (m + 1))
    BY <2>2 DEF RunTable
  <2> QED BY <2>1, <2>3 DEF Http!Run
<1> HIDE DEF S
<1>3. \A m \in Nat : m \in S
  BY <1>1, <1>2, EveryNumber
<1>4. ASSUME NEW k \in i .. Len(buf) PROVE R[k] = R[i]
  <2>1. k - i \in Nat /\ i + (k - i) = k
    OBVIOUS
  <2>2. k - i \in S
    BY <1>3, <2>1
  <2> QED BY <2>1, <2>2 DEF S
<1> QED BY <1>4

-----------------------------------------------------------------------------
\* Two parsers between two units: x reads pieces and has read k units of
\* buf, y reads all of w and has read j units.

Placed(s, k, buf) ==
  /\ IsParser(s) /\ IsRequest(s.request)
  /\ s.buf = buf /\ s.p = k /\ s.start \in 1 .. k + 1 /\ (k = 0 \/ s.start <= k)

\* It has more to read.
Going(s) == s.error = "OK" /\ ~ s.request.complete

\* Where x stands, when j units are read: only early in its first line is there
\* a protocol to come.
Well(x, w, j, P) ==
  /\ x.request.protocol \in P
  /\ x.error = "PAUSED_UPGRADE" => x.request.complete /\ x.span = "none"
  /\ x.error = "OK" => SpanOpen(x.node, x.span) /\ (x.span = "url" => Protocols \subseteq P)
  /\ Going(x) =>
       /\ x.node \in EarlyNodes => Protocols \subseteq P /\ \A i \in 1 .. j : w[i] # Http!LF
       /\ x.node = "start" => j = 0

Abreast(x, y, buf, k, w, j, P) ==
  /\ Placed(x, k, buf) /\ Placed(y, j, w) /\ SameControl(x, y)
  /\ Agrees(After(x), After(y)) /\ Well(x, w, j, P)

\* The text between two places.
LEMMA PieceIs ==
  ASSUME NEW buf \in Seq(Units), NEW k \in 0 .. Len(buf), NEW i \in 1 .. k + 1
  PROVE  SubSeq(buf, i, k) \in Seq(Units)
<1>1. \A n \in 1 .. Len(buf) : buf[n] \in Units
  BY ElementOfSeq
<1>2. Len(buf) \in Nat
  OBVIOUS
<1>3. \A n \in i .. k : buf[n] \in Units
  BY <1>1, <1>2
<1> QED BY <1>2, <1>3, SubSeqProperties

LEMMA AfterIs ==
  ASSUME NEW s, NEW buf \in Seq(Units), NEW k \in 0 .. Len(buf), Placed(s, k, buf)
  PROVE  IsRequest(After(s)) /\ After(s).complete = s.request.complete
<1> DEFINE t == SubSeq(s.buf, s.start, s.p)
           r == s.request
           h == Handed(s.span, r, t)
<1>1. t \in Seq(Units)
  BY PieceIs DEF Placed
<1>2. IsRequest(r)
  BY DEF Placed
<1>3. h = After(s)
  BY DEF After
<1> HIDE DEF t, r
<1>4. IsRequest(h) /\ h.complete = r.complete
  BY <1>1, <1>2, HandedParts
<1> QED BY <1>3, <1>4 DEF r

\* One unit.
LEMMA AbreastStep ==
  ASSUME NEW buf \in Seq(Units), NEW w \in Seq(Units), NEW P,
         NEW k \in Nat, NEW j \in Nat, k < Len(buf), j < Len(w), buf[k + 1] = w[j + 1],
         w[1] \notin {Http!CR, Http!LF},
         NEW x, NEW y, Abreast(x, y, buf, k, w, j, P), Going(x)
  PROVE  Abreast(Http!Run(x, k + 1), Http!Run(y, j + 1), buf, k + 1, w, j + 1, P)
<1> DEFINE a == [x EXCEPT !.p = k + 1]
           b == [y EXCEPT !.p = j + 1]
           C == [protocols |-> P, place |-> <<buf, k + 1, w, j + 1>>]
           u == w[j + 1]
           f == Http!Node(a, u)
           g == Http!Node(b, u)
           E == IF a.node \in EarlyNodes THEN Ahead(u) ELSE EarlyNodes
<1>1. /\ IsParser(x) /\ IsRequest(x.request) /\ x.buf = buf /\ x.p = k /\ x.start \in 1 .. k + 1
      /\ IsParser(y) /\ IsRequest(y.request) /\ y.buf = w /\ y.p = j /\ y.start \in 1 .. j + 1
      /\ SameControl(x, y) /\ Agrees(After(x), After(y))
  BY DEF Abreast, Placed
<1>2. /\ IsParser(a) /\ a.p = k + 1 /\ a.buf = buf /\ a.start = x.start /\ a.span = x.span
      /\ a.request = x.request /\ a.node = x.node /\ a.error = x.error
      /\ IsParser(b) /\ b.p = j + 1 /\ b.buf = w /\ b.start = y.start /\ b.span = y.span
      /\ b.request = y.request
  BY <1>1 DEF IsParser, Fields
<1>3. SameControl(a, b)
  BY <1>1 DEF IsParser, Fields, SameControl
<1>4. Http!Run(x, k + 1) = f /\ Http!Run(y, j + 1) = g
  BY <1>1 DEF Http!Run, Going, SameControl
<1> HIDE DEF a, b, f, g
<1>5. Looking(a) /\ Looking(b)
  <2>1. a.p \in 1 .. Len(buf) /\ b.p \in 1 .. Len(w) /\ a.start \in 1 .. a.p /\ b.start \in 1 .. b.p
    BY <1>1, <1>2
  <2> QED BY <1>1, <1>2, <2>1 DEF Looking
<1>6. Before(a) = After(x) /\ Before(b) = After(y)
  <2>1. a.p - 1 = k /\ b.p - 1 = j
    BY <1>2
  <2> QED BY <1>1, <1>2, <2>1 DEF Before, After
<1>7. With(a, b, C)
  <2>1. Context(a, b, C)
    BY <1>2 DEF Context, Abreast, Well
  <2> QED BY <1>1, <1>2, <1>3, <1>5, <1>6, <2>1 DEF With, Near, Going
<1>8. Reached(f, g, C, E)
  <2>1. a.error = "OK" /\ SpanOpen(a.node, a.span)
    BY <1>2 DEF Going, Abreast, Well
  <2>2. a.node \in EarlyNodes => Protocols \subseteq C.protocols
    BY <1>2 DEF Abreast, Well
  <2>3. a.node = "start" => u \notin {Http!CR, Http!LF}
    <3>1. a.node = "start" => j = 0
      BY <1>2 DEF Abreast, Well
    <3> QED BY <3>1
  <2> HIDE DEF u, C
  <2> QED BY <1>7, <2>1, <2>2, <2>3, NodeReached DEF f, g
<1>9. Near(f, g, C)
  BY <1>8 DEF Reached
<1>10. Placed(f, k + 1, buf) /\ Placed(g, j + 1, w) /\ SameControl(f, g) /\ f.request.protocol \in P
  <2>1. <<f.buf, f.p, g.buf, g.p>> = <<buf, k + 1, w, j + 1>> /\ f.request.protocol \in P
    BY <1>9 DEF Near, Context
  <2>2. Looking(f) /\ Looking(g) /\ SameControl(f, g)
    BY <1>9 DEF Near
  <2>3. /\ f.start \in 1 .. (k + 1) + 1 /\ f.start <= k + 1
        /\ g.start \in 1 .. (j + 1) + 1 /\ g.start <= j + 1
    BY <2>1, <2>2 DEF Looking
  <2> QED BY <2>1, <2>2, <2>3 DEF Placed, Looking
<1>11. Agrees(After(f), After(g))
  BY <1>9, AfterAgrees
<1>12. /\ f.error = "OK" => SpanOpen(f.node, f.span)
                            /\ (f.node \notin E \/ (f.request.complete /\ f.span = "none"))
       /\ f.error = "PAUSED_UPGRADE" => f.request.complete /\ f.span = "none"
  BY <1>8 DEF Reached
<1>13. "start" \in E /\ (Protocols \subseteq P \/ E = EarlyNodes)
  BY <1>2 DEF EarlyNodes, LineNodes, Ahead, Abreast, Well
<1>14. (\E i \in 1 .. j + 1 : w[i] = Http!LF) => E = EarlyNodes
  <2>1. CASE u = Http!LF
    BY <2>1 DEF Ahead
  <2>2. ASSUME NEW i \in 1 .. j + 1, w[i] = Http!LF, u # Http!LF PROVE E = EarlyNodes
    <3>1. i \in 1 .. j
      BY <2>2
    <3> QED BY <1>2, <2>2, <3>1 DEF Abreast, Well
  <2> QED BY <2>1, <2>2
<1> HIDE DEF E
<1>15. f.error = "OK" /\ f.span = "url" => Protocols \subseteq P
  <2>1. f.error = "OK" /\ f.span = "url" => f.node \in EarlyNodes
    BY <1>12 DEF SpanOpen, EarlyNodes
  <2> QED BY <1>12, <1>13, <2>1
<1>16. Well(f, w, j + 1, P)
  BY <1>10, <1>12, <1>13, <1>14, <1>15 DEF Well, Going
<1> QED BY <1>4, <1>10, <1>11, <1>16 DEF Abreast

\* A parser between two pieces: it is where y is, who has read all of it.
Rest(x, y, w, j, P) ==
  /\ IsParser(x) /\ IsRequest(x.request) /\ x.p = 0
  /\ Placed(y, j, w) /\ SameControl(x, y)
  /\ Agrees(x.request, After(y)) /\ Well(x, w, j, P)

LEMMA BegunAbreast ==
  ASSUME NEW buf \in Seq(Units), NEW w \in Seq(Units), NEW P, NEW j \in 0 .. Len(w),
         NEW x, NEW y, Rest(x, y, w, j, P)
  PROVE  Abreast(Begun(x, buf), y, buf, 0, w, j, P)
<1> DEFINE z == Begun(x, buf)
           t == SubSeq(w, y.start, j)
           none == SubSeq(buf, 1, 0)
           d == x.span
           q == x.request
           r == y.request
<1>1. /\ IsParser(x) /\ IsRequest(q) /\ x.p = 0 /\ Placed(y, j, w)
      /\ SameControl(x, y) /\ Agrees(q, After(y)) /\ Well(x, w, j, P)
  BY DEF Rest
<1>2. IsParser(y) /\ IsRequest(r) /\ y.buf = w /\ y.p = j /\ y.start \in 1 .. j + 1 /\ x.span = y.span
  BY <1>1 DEF Placed, SameControl
<1>3. /\ IsParser(z) /\ z.buf = buf /\ z.p = 0 /\ z.start = 1 /\ z.request = q
      /\ SameControl(z, y) /\ z.node = x.node /\ z.error = x.error /\ z.span = d
  BY <1>1 DEF Begun, IsParser, Fields, SameControl
<1>4. t \in Seq(Units) /\ none \in Seq(Units) /\ t \o none = t
  <2>1. t \in Seq(Units)
    BY <1>2, PieceIs
  <2>2. none = <<>> /\ <<>> \in Seq(Units)
    OBVIOUS
  <2> HIDE DEF t, none
  <2>3. t \o <<>> = t
    BY <2>1, ConcatEmptySeq
  <2> QED BY <2>1, <2>2, <2>3
<1>5. After(y) = Handed(d, r, t) /\ After(z) = Handed(d, q, none)
  BY <1>2, <1>3 DEF After
<1> HIDE DEF z, t, none, q, r, d
<1>6. IsRequest(Handed(d, r, t))
  BY <1>2, <1>4, HandedParts
<1>7. Agrees(Handed(d, q, none), Handed(d, Handed(d, r, t), none))
  BY <1>1, <1>4, <1>5, <1>6, HandedAgrees
<1>8. Agrees(Handed(d, Handed(d, r, t), none), Handed(d, r, t))
  BY <1>2, <1>4, HandedTwice
<1>9. Agrees(After(z), After(y))
  BY <1>5, <1>7, <1>8 DEF Agrees
<1>10. Well(z, w, j, P)
  BY <1>1, <1>3 DEF Well, Going, q, d
<1>11. Placed(z, 0, buf)
  BY <1>1, <1>3 DEF Placed
<1> QED BY <1>1, <1>3, <1>9, <1>10, <1>11 DEF Abreast, z

\* Up to the first j units there was neither an error nor a complete request.
Clear(B, j) == \A i \in 0 .. j - 1 : Going(B[i])

\* The first m units of a piece are those of w behind number n.
PieceOf(buf, m, w, n) == \A k \in 1 .. m : buf[k] = w[n + k]

\* A piece of w, read from where y has read it as well.
LEMMA PieceRead ==
  ASSUME NEW w \in Seq(Units), w[1] \notin {Http!CR, Http!LF}, NEW buf \in Seq(Units), NEW P,
         NEW n \in 0 .. Len(w), NEW m \in 0 .. Len(buf), n + m <= Len(w),
         PieceOf(buf, m, w, n),
         NEW s, NEW B, RunTable(B, s, w),
         NEW x, NEW A, RunTable(A, x, buf), Rest(x, B[n], w, n, P)
  PROVE  \A k \in 0 .. m : Clear(B, n + k) => Abreast(A[k], B[n + k], buf, k, w, n + k, P)
<1> DEFINE S == {k \in Nat : k <= m /\ Clear(B, n + k) =>
                               Abreast(A[k], B[n + k], buf, k, w, n + k, P)}
<1>0. Len(w) \in Nat /\ Len(buf) \in Nat /\ n \in Nat /\ m \in Nat
  OBVIOUS
<1>1. 0 \in S
  <2>1. Abreast(Begun(x, buf), B[n], buf, 0, w, n, P)
    BY BegunAbreast
  <2> QED BY <1>0, <2>1 DEF RunTable
<1>2. ASSUME NEW k \in Nat, k \in S PROVE k + 1 \in S
  <2> SUFFICES ASSUME k + 1 <= m, Clear(B, n + (k + 1))
               PROVE  Abreast(A[k + 1], B[n + (k + 1)], buf, k + 1, w, n + (k + 1), P)
    OBVIOUS
  <2>1. PICK j \in Nat : j = n + k
    BY <1>0
  <2>2. Clear(B, j) /\ Going(B[j]) /\ j < Len(w) /\ k < Len(buf) /\ n + (k + 1) = j + 1
    BY <1>0, <2>1 DEF Clear
  <2>3. Abreast(A[k], B[j], buf, k, w, j, P)
    BY <1>2, <2>1, <2>2
  <2>4. Going(A[k])
    <3>1. k \in 0 .. Len(buf) /\ j \in 0 .. Len(w)
      BY <1>0, <2>2
    <3>2. After(A[k]).complete = A[k].request.complete /\ After(B[j]).complete = B[j].request.complete
      BY <2>3, <3>1, AfterIs DEF Abreast
    <3> QED BY <2>2, <2>3, <3>2 DEF Abreast, Agrees, SameControl, Going
  <2>5. buf[k + 1] = w[j + 1]
    BY <1>0, <2>1, <2>2 DEF PieceOf
  <2>6. Abreast(Http!Run(A[k], k + 1), Http!Run(B[j], j + 1), buf, k + 1, w, j + 1, P)
    BY <2>2, <2>3, <2>4, <2>5, AbreastStep
  <2>7. A[k + 1] = Http!Run(A[k], k + 1) /\ B[j + 1] = Http!Run(B[j], j + 1)
    <3>1. k + 1 \in 1 .. Len(buf) /\ (k + 1) - 1 = k /\ j + 1 \in 1 .. Len(w) /\ (j + 1) - 1 = j
      BY <1>0, <2>2
    <3> QED BY <3>1 DEF RunTable
  <2> QED BY <2>2, <2>6, <2>7
<1> HIDE DEF S
<1>3. \A k \in Nat : k \in S
  BY <1>1, <1>2, EveryNumber
<1> QED BY <1>0, <1>3 DEF S

\* What a parser is when a piece is read without an error.
LEMMA RunEndIs ==
  ASSUME NEW buf \in Seq(Units), NEW w \in Seq(Units), NEW P, NEW j \in 0 .. Len(w),
         buf # <<>>, NEW x, NEW y, Abreast(x, y, buf, Len(buf), w, j, P),
         x.error \in {"OK", "PAUSED_UPGRADE"}
  PROVE  LET z == RunEnd(x, Len(buf)) IN
         /\ IsParser(z) /\ IsRequest(z.request) /\ z.p = 0 /\ SameControl(z, y)
         /\ Agrees(z.request, After(y)) /\ z.request.protocol \in P
         /\ z.node = x.node /\ z.error = x.error /\ z.span = x.span
<1> DEFINE n == Len(buf)
           c == IF x.error = "OK" THEN Http!SpanCallback(x, n) ELSE x
           z == RunEnd(x, n)
<1>1. /\ IsParser(x) /\ IsRequest(x.request) /\ x.buf = buf /\ x.p = n /\ x.start \in 1 .. n + 1
      /\ (n = 0 \/ x.start <= n)
      /\ IsParser(y) /\ SameControl(x, y) /\ Agrees(After(x), After(y)) /\ Well(x, w, j, P)
  BY DEF Abreast, Placed
<1>2. Looking(x)
  <2>1. n \in Nat /\ n # 0
    OBVIOUS
  <2> HIDE DEF n
  <2>2. x.p \in 1 .. n /\ x.start \in 1 .. x.p
    BY <1>1, <2>1
  <2> QED BY <1>1, <2>2 DEF Looking, n
<1>3. /\ c = [x EXCEPT !.request = c.request]
      /\ IsRequest(c.request) /\ Agrees(c.request, After(x)) /\ c.request.protocol \in P
  <2>1. CASE x.error = "OK"
    <3>1. n \in {x.p - 1, x.p} /\ c = Http!SpanCallback(x, n)
      BY <1>1, <2>1
    <3>2. After(x) = Handed(x.span, x.request, SubSeq(x.buf, x.start, n))
      BY <1>1 DEF After
    <3> DEFINE h == Handed(x.span, x.request, SubSeq(x.buf, x.start, n))
               v == Http!SpanCallback(x, n)
    <3>5. /\ v = [x EXCEPT !.request = v.request]
          /\ IsRequest(v.request) /\ Agrees(v.request, h)
          /\ x.span # "url" => v.request.protocol = x.request.protocol
          /\ v.request.protocol \in Protocols \cup {x.request.protocol}
      <4> HIDE DEF n
      <4> QED BY <1>2, <3>1, CallbackIs
    <3> HIDE DEF n, c, h, v
    <3>3. /\ c = [x EXCEPT !.request = c.request]
          /\ IsRequest(c.request) /\ Agrees(c.request, After(x))
          /\ x.span # "url" => c.request.protocol = x.request.protocol
          /\ c.request.protocol \in Protocols \cup {x.request.protocol}
      BY <3>1, <3>2, <3>5 DEF h, v
    <3>4. x.request.protocol \in P /\ (x.span = "url" => Protocols \subseteq P)
      BY <1>1, <2>1 DEF Well
    <3> QED BY <3>3, <3>4
  <2>2. CASE x.error = "PAUSED_UPGRADE"
    <3>1. c = x /\ x.span = "none" /\ x.request.protocol \in P
      BY <1>1, <2>2 DEF Well
    <3>2. After(x) = x.request
      BY <3>1, BeforeNone
    <3>3. x = [x EXCEPT !.request = x.request]
      BY <1>1 DEF IsParser, Fields
    <3> QED BY <1>1, <3>1, <3>2, <3>3 DEF Agrees
  <2> QED BY <2>1, <2>2
<1>4. z = [c EXCEPT !.buf = <<>>, !.p = 0, !.start = 0]
  BY DEF RunEnd
<1> HIDE DEF c, z
<1>5. /\ IsParser(c) /\ c.node = x.node /\ c.error = x.error /\ c.span = x.span /\ SameControl(c, y)
  BY <1>1, <1>3 DEF IsParser, Fields, SameControl
<1>6. /\ IsParser(z) /\ z.request = c.request /\ z.p = 0 /\ SameControl(z, y)
      /\ z.node = x.node /\ z.error = x.error /\ z.span = x.span
  BY <1>4, <1>5 DEF IsParser, Fields, SameControl
<1> QED BY <1>1, <1>3, <1>6 DEF Agrees, z, n

\* An error met on the way is there at the end of the piece.
LEMMA DeadIs ==
  ASSUME NEW buf \in Seq(Units), NEW w, NEW P, NEW x, NEW A, RunTable(A, x, buf),
         NEW k \in 0 .. Len(buf), NEW y, NEW j, Abreast(A[k], y, buf, k, w, j, P),
         A[k].error \notin {"OK", "PAUSED_UPGRADE"}
  PROVE  LET z == RunEnd(A[Len(buf)], Len(buf)) IN
         IsParser(z) /\ z.error \notin {"OK", "PAUSED_UPGRADE"}
<1> DEFINE z == RunEnd(A[Len(buf)], Len(buf))
<1>1. A[Len(buf)] = A[k]
  <2>1. Len(buf) \in Nat /\ Len(buf) \in k .. Len(buf) /\ A[k].error # "OK"
    OBVIOUS
  <2> QED BY <2>1, ErrorStays
<1>2. z = [A[k] EXCEPT !.buf = <<>>, !.p = 0, !.start = 0]
  BY <1>1 DEF RunEnd
<1>3. IsParser(A[k])
  BY DEF Abreast, Placed
<1> HIDE DEF z
<1>4. IsParser(z) /\ z.error = A[k].error
  BY <1>2, <1>3 DEF IsParser, Fields
<1> QED BY <1>4 DEF z

\* A new parser is where one is that has read nothing.
LEMMA NewRests ==
  ASSUME NEW w \in Seq(Units), NEW B, RunTable(B, Http!NewParser, w)
  PROVE  Rest(Http!NewParser, B[0], w, 0, Protocols) /\ Going(B[0])
<1> DEFINE x == Http!NewParser
           y == B[0]
<1>1. /\ IsParser(x) /\ x.p = 0 /\ x.node = "start" /\ x.error = "OK" /\ x.span = "none"
      /\ x.request = Http!EmptyRequest
  BY DEF Http!NewParser, IsParser, Fields
<1>2. IsRequest(x.request) /\ ~ x.request.complete /\ x.request.protocol = <<>>
  BY <1>1 DEF Http!EmptyRequest, IsRequest, RequestFields
<1>3. y = [x EXCEPT !.buf = w, !.start = 1]
  BY DEF RunTable, Begun
<1> HIDE DEF x, y
<1>4. /\ IsParser(y) /\ y.buf = w /\ y.p = 0 /\ y.start = 1 /\ y.request = x.request
      /\ SameControl(x, y) /\ y.error = "OK" /\ y.span = "none"
  BY <1>1, <1>3 DEF IsParser, Fields, SameControl
<1>5. After(y) = x.request
  BY <1>4, BeforeNone
<1>6. Placed(y, 0, w)
  BY <1>2, <1>4 DEF Placed
<1>7. Well(x, w, 0, Protocols)
  BY <1>1, <1>2 DEF Well, Protocols, SpanOpen, LineNodes
<1> QED BY <1>1, <1>2, <1>4, <1>5, <1>6, <1>7 DEF Rest, Agrees, Going, x, y

\* What a new parser makes of the beginning of a request in one piece.
LEMMA PrefixIs ==
  ASSUME NEW w \in Seq(Units), w[1] \notin {Http!CR, Http!LF},
         NEW B, RunTable(B, Http!NewParser, w), NEW n \in 1 .. Len(w), NEW i \in 0 .. n, Clear(B, i)
  PROVE  LET p == Http!OfOnePiece(SubSeq(w, 1, n)) IN
         /\ B[i].error \notin {"OK", "PAUSED_UPGRADE"} => p.error \notin {"OK", "PAUSED_UPGRADE"}
         /\ B[i].error = "PAUSED_UPGRADE" => B[i].request.complete
         /\ i = n /\ B[i].error \in {"OK", "PAUSED_UPGRADE"} =>
              SameControl(p, B[i]) /\ Agrees(p.request, After(B[i]))
              /\ p.request.complete = B[i].request.complete
<1> DEFINE v == SubSeq(w, 1, n)
           p == Http!OfOnePiece(v)
<1>1. v \in Seq(Units) /\ Len(v) = n /\ \A k \in 1 .. n : v[k] = w[k]
  <2>1. v \in Seq(Units)
    BY PieceIs
  <2>2. Len(w) \in Nat /\ n \in Nat
    OBVIOUS
  <2> QED BY <2>1, <2>2
<1> HIDE DEF v
<1>2. PICK R : RunTable(R, Http!NewParser, v) /\ p = RunEnd(R[n], n)
  <2>1. Len(v) \in Nat
    BY <1>1
  <2> QED BY <1>1, <2>1, Executed DEF Http!OfOnePiece
<1> HIDE DEF p
<1>3. Rest(Http!NewParser, B[0], w, 0, Protocols)
  BY NewRests
<1>4. Abreast(R[i], B[i], v, i, w, i, Protocols)
  <2>1. /\ 0 \in 0 .. Len(w) /\ n \in 0 .. Len(v) /\ 0 + n <= Len(w) /\ 0 + i = i
        /\ \A k \in 1 .. n : 0 + k = k
    BY <1>1
  <2>2. PieceOf(v, n, w, 0)
    BY <1>1, <2>1 DEF PieceOf
  <2>3. \A k \in 0 .. n : Clear(B, 0 + k) => Abreast(R[k], B[0 + k], v, k, w, 0 + k, Protocols)
    BY <1>1, <1>2, <1>3, <2>1, <2>2, PieceRead
  <2> QED BY <2>1, <2>3
<1>5. /\ R[i].error = B[i].error /\ i \in 0 .. Len(v) /\ i \in 0 .. Len(w)
      /\ Placed(R[i], i, v) /\ Placed(B[i], i, w) /\ Agrees(After(R[i]), After(B[i]))
      /\ Well(R[i], w, i, Protocols)
  BY <1>1, <1>4 DEF Abreast, SameControl
<1>6. After(B[i]).complete = B[i].request.complete /\ After(R[i]).complete = R[i].request.complete
  BY <1>1, <1>5, AfterIs
<1>7. B[i].error \notin {"OK", "PAUSED_UPGRADE"} => p.error \notin {"OK", "PAUSED_UPGRADE"}
  BY <1>1, <1>2, <1>4, <1>5, DeadIs
<1>8. B[i].error = "PAUSED_UPGRADE" => B[i].request.complete
  BY <1>5, <1>6 DEF Well, Agrees
<1>9. ASSUME i = n, B[i].error \in {"OK", "PAUSED_UPGRADE"}
      PROVE  SameControl(p, B[i]) /\ Agrees(p.request, After(B[i]))
             /\ p.request.complete = B[i].request.complete
  <2>1. v # <<>>
    BY <1>1
  <2>2. SameControl(p, B[i]) /\ Agrees(p.request, After(B[i]))
    BY <1>1, <1>2, <1>4, <1>5, <1>9, <2>1, RunEndIs
  <2> QED BY <1>6, <2>2 DEF Agrees
<1> QED BY <1>7, <1>8, <1>9 DEF p, v

\* A request that is one is complete with its last unit and not before, and
\* one that is none is never complete.
LEMMA UnderstoodIs ==
  ASSUME NEW r, Http!Understood(r), NEW B, RunTable(B, Http!NewParser, r.bytes)
  PROVE  /\ \A i \in 0 .. Len(r.bytes) :
              Clear(B, i) /\ B[i].error \in {"OK", "PAUSED_UPGRADE"} /\ B[i].request.complete =>
                r.valid /\ i = Len(r.bytes)
         /\ r.valid =>
              LET y == B[Len(r.bytes)]
                  p == Http!OfOnePiece(r.bytes)
              IN  /\ Clear(B, Len(r.bytes)) /\ y.error \in {"OK", "PAUSED_UPGRADE"}
                  /\ y.request.complete /\ SameControl(p, y) /\ Agrees(p.request, After(y))
<1>0. r.bytes \in Seq(Units) /\ r.bytes # <<>> /\ r.bytes[1] \notin {Http!CR, Http!LF}
  BY DEF Http!Understood, Units
<1>1. PICK w \in Seq(Units) : w = r.bytes /\ w # <<>>
  BY <1>0
<1> DEFINE n == Len(w)
           p == Http!OfOnePiece(w)
<1>2. n \in Nat /\ n \in 1 .. n /\ SubSeq(w, 1, n) = w
  BY <1>1, SubSeqFull
<1> HIDE DEF n
<1>3. RunTable(B, Http!NewParser, w) /\ w[1] \notin {Http!CR, Http!LF}
  BY <1>0, <1>1
<1>4. Going(B[0])
  BY <1>3, NewRests
<1>5. ASSUME NEW i \in 0 .. n, Clear(B, i), B[i].error \in {"OK", "PAUSED_UPGRADE"}, B[i].request.complete
      PROVE  r.valid /\ i = n
  <2>1. i \in 1 .. Len(w) /\ i \in 0 .. i
    BY <1>2, <1>4, <1>5 DEF Going, n
  <2>2. Http!OfOnePiece(SubSeq(w, 1, i)).request.complete
    BY <1>3, <1>5, <2>1, PrefixIs
  <2> QED BY <1>1, <2>1, <2>2 DEF Http!Understood, n
<1>6. ASSUME r.valid
      PROVE  /\ Clear(B, n) /\ B[n].error \in {"OK", "PAUSED_UPGRADE"} /\ B[n].request.complete
             /\ SameControl(p, B[n]) /\ Agrees(p.request, After(B[n]))
  <2>1. p.error \in {"OK", "PAUSED_UPGRADE"} /\ p.request.complete
    BY <1>1, <1>6 DEF Http!Understood
  <2>2. ASSUME NEW i \in 0 .. n, Clear(B, i)
        PROVE  /\ B[i].error \in {"OK", "PAUSED_UPGRADE"}
               /\ B[i].error = "PAUSED_UPGRADE" => B[i].request.complete
               /\ i = n => SameControl(p, B[i]) /\ Agrees(p.request, After(B[i]))
                           /\ p.request.complete = B[i].request.complete
    <3>1. n \in 1 .. Len(w) /\ p = Http!OfOnePiece(SubSeq(w, 1, n))
      BY <1>2 DEF n
    <3> HIDE DEF p
    <3> QED BY <1>3, <2>1, <2>2, <3>1, PrefixIs
  <2> DEFINE T == {i \in 0 .. n : ~ Going(B[i])}
  <2>3. T # {}
    <3>1. SUFFICES ASSUME T = {} PROVE FALSE
      OBVIOUS
    <3>2. \A i \in 0 .. n : Going(B[i])
      BY <3>1
    <3>3. Clear(B, n) /\ n \in 0 .. n /\ Going(B[n])
      BY <1>2, <3>2 DEF Clear
    <3> HIDE DEF p
    <3> QED BY <2>1, <2>2, <3>3 DEF Going
  <2>4. PICK i \in T : \A k \in T : i <= k
    <3>1. T \subseteq 0 .. n
      OBVIOUS
    <3> HIDE DEF T
    <3> QED BY <1>2, <2>3, <3>1, LeastNumber
  <2>5. Clear(B, i) /\ i \in 0 .. n /\ ~ Going(B[i])
    <3>1. i \in 0 .. n /\ ~ Going(B[i])
      BY <2>4
    <3>2. ASSUME NEW k \in 0 .. i - 1, ~ Going(B[k]) PROVE FALSE
      <4>1. k \in T /\ ~(i <= k)
        BY <1>2, <3>1, <3>2
      <4> QED BY <2>4, <4>1
    <3> QED BY <3>1, <3>2 DEF Clear
  <2> HIDE DEF T, p
  <2>6. B[i].request.complete
    BY <2>2, <2>5 DEF Going
  <2>7. i = n
    BY <1>5, <2>2, <2>5, <2>6
  <2> QED BY <2>2, <2>5, <2>6, <2>7
<1> QED BY <1>1, <1>5, <1>6 DEF n, p

\* A piece of a request, read without an error: it is complete if this was the
\* last one, and else the parser waits for more.
LEMMA PieceTaken ==
  ASSUME NEW r, Http!Understood(r), NEW B, RunTable(B, Http!NewParser, r.bytes),
         NEW n \in 0 .. Len(r.bytes), Clear(B, n + 1), NEW P,
         NEW x, Rest(x, B[n], r.bytes, n, P),
         NEW buf \in Seq(Units), buf # <<>>, n + Len(buf) <= Len(r.bytes),
         PieceOf(buf, Len(buf), r.bytes, n)
  PROVE  LET p == Http!llhttp_execute(x, buf)
             j == n + Len(buf)
         IN  /\ IsParser(p)
             /\ p.error \in {"OK", "PAUSED_UPGRADE"} =>
                  /\ IsRequest(p.request) /\ p.request.protocol \in P
                  /\ p.request.complete =>
                       r.valid /\ j = Len(r.bytes) /\ Agrees(p.request, After(B[j]))
                  /\ ~ p.request.complete =>
                       /\ p.error = "OK" /\ Rest(p, B[j], r.bytes, j, P) /\ Clear(B, j + 1)
                       /\ r.valid => j < Len(r.bytes)
<1>0. r.bytes \in Seq(Units) /\ r.bytes[1] \notin {Http!CR, Http!LF}
  BY DEF Http!Understood, Units
<1>1. PICK w \in Seq(Units) : w = r.bytes
  BY <1>0
<1>2. PICK l \in Nat : l = Len(w)
  OBVIOUS
<1>3. PICK m \in Nat : m = Len(buf) /\ m # 0
  OBVIOUS
<1> DEFINE p == Http!llhttp_execute(x, buf)
           j == n + m
<1>4. PICK A : RunTable(A, x, buf) /\ p = RunEnd(A[m], m)
  BY <1>3, Executed
<1> HIDE DEF p
<1>5. /\ RunTable(B, Http!NewParser, w) /\ w[1] \notin {Http!CR, Http!LF} /\ Rest(x, B[n], w, n, P)
      /\ n \in 0 .. Len(w) /\ m \in 0 .. Len(buf) /\ n + m <= Len(w) /\ j \in 0 .. Len(w)
      /\ PieceOf(buf, m, w, n)
  BY <1>0, <1>1, <1>2, <1>3
<1>6. \A k \in 0 .. m : Clear(B, n + k) => Abreast(A[k], B[n + k], buf, k, w, n + k, P)
  BY <1>4, <1>5, PieceRead
<1>7. \A k \in 0 .. m : Clear(B, n + k) /\ A[k].error \notin {"OK", "PAUSED_UPGRADE"}
                        => IsParser(p) /\ p.error \notin {"OK", "PAUSED_UPGRADE"}
  <2> SUFFICES ASSUME NEW k \in 0 .. m, Clear(B, n + k), A[k].error \notin {"OK", "PAUSED_UPGRADE"}
               PROVE  IsParser(p) /\ p.error \notin {"OK", "PAUSED_UPGRADE"}
    OBVIOUS
  <2>1. Abreast(A[k], B[n + k], buf, k, w, n + k, P) /\ k \in 0 .. Len(buf)
    BY <1>3, <1>6
  <2>2. PICK i : i = n + k
    OBVIOUS
  <2> QED BY <1>3, <1>4, <2>1, <2>2, DeadIs
<1>8. ASSUME NEW k \in 0 .. m, Clear(B, n + k)
      PROVE  /\ A[k].error = B[n + k].error /\ A[k].request.complete = B[n + k].request.complete
             /\ A[k].error = "PAUSED_UPGRADE" => A[k].request.complete
  <2>1. Abreast(A[k], B[n + k], buf, k, w, n + k, P)
    BY <1>6, <1>8
  <2>2. k \in 0 .. Len(buf) /\ n + k \in 0 .. Len(w)
    BY <1>3, <1>5
  <2>3. PICK i \in 0 .. Len(w) : i = n + k
    BY <2>2
  <2>4. After(A[k]).complete = A[k].request.complete /\ After(B[i]).complete = B[i].request.complete
    BY <2>1, <2>2, <2>3, AfterIs DEF Abreast
  <2> QED BY <2>1, <2>3, <2>4 DEF Abreast, Agrees, SameControl, Well
<1>9. CASE ~ Clear(B, j)
  <2> DEFINE T == {i \in 0 .. j : ~ Going(B[i])}
  <2>1. T # {}
    BY <1>9 DEF Clear
  <2>2. PICK i \in T : \A k \in T : i <= k
    <3>1. T \subseteq 0 .. j /\ j \in Nat
      OBVIOUS
    <3> HIDE DEF T
    <3> QED BY <2>1, <3>1, LeastNumber
  <2>3. i \in 0 .. j /\ ~ Going(B[i])
    BY <2>2
  <2>4. Clear(B, i)
    <3>1. ASSUME NEW k \in 0 .. i - 1, ~ Going(B[k]) PROVE FALSE
      <4>1. k \in T /\ ~(i <= k)
        BY <2>3, <3>1
      <4> QED BY <2>2, <4>1
    <3> QED BY <3>1 DEF Clear
  <2> HIDE DEF T
  <2>5. i > n
    <3>1. \A k \in 0 .. n : Going(B[k])
      <4>1. 0 .. (n + 1) - 1 = 0 .. n
        BY <1>5
      <4> QED BY <4>1 DEF Clear
    <3> QED BY <2>3, <3>1
  <2>6. i < j
    <3>1. i # j
      BY <1>9, <2>4
    <3>2. j \in Nat
      BY <1>5
    <3> HIDE DEF j
    <3> QED BY <2>3, <3>1, <3>2
  <2>7. PICK k \in 0 .. m : n + k = i
    <3>1. i - n \in 0 .. m /\ n + (i - n) = i
      BY <2>3, <2>5
    <3> QED BY <3>1
  <2>8. A[k].error = B[i].error /\ (A[k].error = "PAUSED_UPGRADE" => B[i].request.complete)
    BY <1>8, <2>4, <2>7
  <2>9. B[i].error \notin {"OK", "PAUSED_UPGRADE"}
    <3>1. SUFFICES ASSUME B[i].error \in {"OK", "PAUSED_UPGRADE"} PROVE FALSE
      OBVIOUS
    <3>2. B[i].request.complete
      BY <2>3, <2>8, <3>1 DEF Going
    <3>3. i \in 0 .. Len(r.bytes)
      BY <1>1, <1>5, <2>3
    <3>4. i = Len(r.bytes)
      BY <2>4, <3>1, <3>2, <3>3, UnderstoodIs
    <3> QED BY <1>1, <1>5, <2>6, <3>4
  <2>10. IsParser(p) /\ p.error \notin {"OK", "PAUSED_UPGRADE"}
    BY <1>7, <2>4, <2>7, <2>8, <2>9
  <2> QED BY <1>3, <2>10 DEF p
<1>10. CASE Clear(B, j)
  <2> DEFINE a == A[m]
             y == B[j]
  <2>1. Abreast(a, y, buf, m, w, j, P)
    BY <1>6, <1>10
  <2>2. /\ a.error = y.error /\ a.request.complete = y.request.complete
        /\ a.error = "PAUSED_UPGRADE" => a.request.complete
    BY <1>8, <1>10
  <2>3. CASE a.error \notin {"OK", "PAUSED_UPGRADE"}
    <3>1. IsParser(p) /\ p.error \notin {"OK", "PAUSED_UPGRADE"}
      BY <1>7, <1>10, <2>3
    <3> QED BY <1>3, <3>1 DEF p
  <2>4. CASE a.error \in {"OK", "PAUSED_UPGRADE"}
    <3>0. j \in 0 .. Len(w) /\ p = RunEnd(a, Len(buf)) /\ Abreast(a, y, buf, Len(buf), w, j, P)
      BY <1>3, <1>4, <1>5, <2>1
    <3> HIDE DEF a, y, j
    <3>1. /\ IsParser(p) /\ IsRequest(p.request) /\ p.p = 0 /\ SameControl(p, y)
          /\ Agrees(p.request, After(y)) /\ p.request.protocol \in P
          /\ p.node = a.node /\ p.error = a.error /\ p.span = a.span
      BY <2>4, <3>0, RunEndIs
    <3>2. p.request.complete = y.request.complete
      BY <3>0, <3>1, AfterIs DEF Abreast, Agrees
    <3>3. ASSUME p.request.complete PROVE r.valid /\ j = Len(r.bytes)
      <4>1. Clear(B, j) /\ B[j].error \in {"OK", "PAUSED_UPGRADE"} /\ B[j].request.complete
        BY <1>10, <2>2, <2>4, <3>2, <3>3 DEF y
      <4> QED BY <1>1, <1>5, <3>0, <4>1, UnderstoodIs
    <3>4. ASSUME ~ p.request.complete
          PROVE  /\ p.error = "OK" /\ Rest(p, y, w, j, P) /\ Clear(B, j + 1)
                 /\ r.valid => j < Len(w)
      <4>1. p.error = "OK" /\ a.error = "OK" /\ ~ a.request.complete /\ Going(y)
        BY <2>2, <2>4, <3>1, <3>2, <3>4 DEF Going
      <4>2. Well(p, w, j, P)
        BY <3>0, <3>1, <3>4, <4>1 DEF Abreast, Well, Going
      <4>3. Rest(p, y, w, j, P)
        BY <3>0, <3>1, <4>2 DEF Abreast, Rest
      <4>4. Clear(B, j + 1)
        <5>1. j \in Nat
          BY <3>0
        <5>2. \A i \in 0 .. (j + 1) - 1 : i \in 0 .. j - 1 \/ i = j
          BY <5>1
        <5> QED BY <1>10, <4>1, <5>2 DEF Clear, y
      <4>5. r.valid => j # Len(w)
        <5>1. SUFFICES ASSUME r.valid, j = Len(r.bytes) PROVE FALSE
          BY <1>1
        <5>2. B[j].request.complete
          BY <5>1, UnderstoodIs
        <5> QED BY <3>2, <3>4, <5>2 DEF y
      <4> QED BY <3>0, <4>1, <4>3, <4>4, <4>5
    <3> QED BY <1>1, <1>3, <3>1, <3>3, <3>4 DEF p, y, j
  <2> QED BY <2>3, <2>4
<1> QED BY <1>9, <1>10

\* What comes right behind a request that asks for no persistent connection is
\* an error, and what was read with it is lost.
LEMMA BehindIsRefused ==
  ASSUME NEW r, Http!Understood(r), r.valid, ~ r.persistent,
         NEW B, RunTable(B, Http!NewParser, r.bytes),
         NEW n \in 0 .. Len(r.bytes), Clear(B, n + 1), NEW P,
         NEW x, Rest(x, B[n], r.bytes, n, P),
         NEW buf \in Seq(Units), NEW m \in 0 .. Len(buf) - 1, n + m = Len(r.bytes),
         PieceOf(buf, m, r.bytes, n), buf[m + 1] \notin {Http!CR, Http!LF}
  PROVE  LET p == Http!llhttp_execute(x, buf) IN
         IsParser(p) /\ p.error \notin {"OK", "PAUSED_UPGRADE"}
<1>0. r.bytes \in Seq(Units) /\ r.bytes # <<>> /\ r.bytes[1] \notin {Http!CR, Http!LF}
  BY DEF Http!Understood, Units
<1>1. PICK w \in Seq(Units) : w = r.bytes
  BY <1>0
<1>2. PICK l \in Nat : l = Len(w)
  OBVIOUS
<1>3. PICK z \in Nat : z = Len(buf) /\ m \in 0 .. z /\ m + 1 \in 1 .. z /\ (m + 1) - 1 = m /\ m + 1 \in 0 .. z
  OBVIOUS
<1> DEFINE p == Http!llhttp_execute(x, buf)
<1>4. PICK A : RunTable(A, x, buf) /\ p = RunEnd(A[z], z)
  BY <1>3, Executed
<1> HIDE DEF p
<1>5. /\ RunTable(B, Http!NewParser, w) /\ w[1] \notin {Http!CR, Http!LF} /\ Rest(x, B[n], w, n, P)
      /\ n \in 0 .. Len(w) /\ m \in 0 .. Len(buf) /\ n + m <= Len(w) /\ n + m = l
      /\ PieceOf(buf, m, w, n)
  BY <1>0, <1>1, <1>2, <1>3
<1> DEFINE y == B[l]
           q == Http!OfOnePiece(r.bytes)
<1>6. /\ Clear(B, l) /\ SameControl(q, y) /\ q.error = "OK" /\ q.node = "closed"
  BY <1>1, <1>2, UnderstoodIs DEF Http!Understood
<1>7. Abreast(A[m], y, buf, m, w, l, P)
  <2>1. \A k \in 0 .. m : Clear(B, n + k) => Abreast(A[k], B[n + k], buf, k, w, n + k, P)
    BY <1>4, <1>5, PieceRead
  <2> QED BY <1>3, <1>5, <1>6, <2>1
<1> DEFINE a == A[m]
           c == [a EXCEPT !.p = m + 1]
           u == buf[m + 1]
<1>8. IsParser(a) /\ a.buf = buf /\ a.error = "OK" /\ a.node = "closed"
  BY <1>6, <1>7 DEF Abreast, Placed, SameControl
<1>9. IsParser(c) /\ c.node = "closed"
  BY <1>8 DEF IsParser, Fields
<1>10. A[m + 1] = Http!Fail(c, "CLOSED_CONNECTION")
  <2>1. A[m + 1] = Http!Run(a, m + 1)
    BY <1>3, <1>4 DEF RunTable
  <2>2. Http!Run(a, m + 1) = Http!Node(c, u)
    BY <1>8 DEF Http!Run
  <2> HIDE DEF c, a, u
  <2>3. Http!Node(c, u) = Http!Closed(c, u)
    BY <1>9, NodeIs
  <2> QED BY <2>1, <2>2, <2>3 DEF Http!Closed, u
<1> HIDE DEF a, c
<1>11. IsParser(A[m + 1]) /\ A[m + 1].error = "CLOSED_CONNECTION"
  BY <1>9, <1>10 DEF IsParser, Fields, Http!Fail
<1>12. A[z] = A[m + 1]
  <2>1. A[m + 1].error # "OK" /\ Len(buf) \in Nat /\ m + 1 \in 0 .. Len(buf) /\ z \in m + 1 .. Len(buf)
    BY <1>3, <1>11
  <2>2. PICK i \in 0 .. Len(buf) : i = m + 1 /\ A[i].error # "OK" /\ z \in i .. Len(buf)
    BY <2>1
  <2>3. \A k \in i .. Len(buf) : A[k] = A[i]
    <3>1. RunTable(A, x, buf) /\ Len(buf) \in Nat /\ i \in 0 .. Len(buf) /\ A[i].error # "OK"
      BY <1>4, <2>1, <2>2
    <3> QED BY <3>1, ErrorStays
  <2> QED BY <2>1, <2>2, <2>3
<1>13. p = [A[m + 1] EXCEPT !.buf = <<>>, !.p = 0, !.start = 0]
  BY <1>4, <1>11, <1>12 DEF RunEnd
<1>14. IsParser(p) /\ p.error = "CLOSED_CONNECTION"
  <2>1. PICK s : s = A[m + 1]
    OBVIOUS
  <2> QED BY <1>11, <1>13, <2>1 DEF IsParser, Fields
<1> QED BY <1>14 DEF p

-----------------------------------------------------------------------------
\* The connection.

\* The parser has read n units of the request.  Once its first line has been
\* read in one piece there is one protocol only.
BeingRead(r, n) ==
  \E B, P :
    /\ RunTable(B, Http!NewParser, r.bytes) /\ Clear(B, n + 1)
    /\ Rest(parser, B[n], r.bytes, n, P)
    /\ whole /\ r.valid => P \subseteq {r.protocol}

\* Of a request begun, what the parser has not read is still to come; and what
\* comes behind it.
Following == IF Len(sent) = 2 THEN sent[2].bytes ELSE <<>>
Arriving(r, n) ==
  /\ wire = SubSeq(r.bytes, n + 1, Len(r.bytes)) \o Following
  /\ (parser = Http!NoParser /\ n = 0) \/ BeingRead(r, n)
Pending ==
  /\ sent \in Seq(Requests) /\ Len(sent) <= 2
  /\ sent = <<>> => wire = <<>> /\ parser = Http!NoParser
  /\ Len(sent) = 2 => sent[1].valid /\ ~ sent[1].persistent
  /\ sent # <<>> => \E n \in 0 .. Len(sent[1].bytes) : Arriving(sent[1], n)
ConnInv == ServedAsSent /\ (conn # "crashed" => Pending)

\* What recv takes off the wire, and what it leaves.
Taken(r, m, w, n, t) ==
  /\ SubSeq(r, 1, m) \in Seq(Units) /\ Len(SubSeq(r, 1, m)) = m /\ SubSeq(r, 1, m) # <<>>
  /\ m > Len(w) - n =>
       /\ PieceOf(SubSeq(r, 1, m), Len(w) - n, w, n)
       /\ SubSeq(r, 1, m)[(Len(w) - n) + 1] = t[1] /\ t # <<>>
  /\ m <= Len(w) - n =>
       /\ PieceOf(SubSeq(r, 1, m), m, w, n)
       /\ SubSeq(r, m + 1, Len(r)) = SubSeq(w, (n + m) + 1, Len(w)) \o t

LEMMA WireIs ==
  ASSUME NEW w \in Seq(Units), NEW t \in Seq(Units), NEW n \in 0 .. Len(w),
         NEW r, r = SubSeq(w, n + 1, Len(w)) \o t, NEW m \in 1 .. Len(r)
  PROVE  Taken(r, m, w, n, t)
<1>1. PICK l \in Nat : l = Len(w)
  OBVIOUS
<1>2. n \in Nat /\ n <= l
  BY <1>1
<1> DEFINE v == SubSeq(w, n + 1, l)
<1>3. v \in Seq(Units) /\ Len(v) = l - n /\ \A k \in 1 .. l - n : v[k] = w[n + k]
  <2>1. \A k \in n + 1 .. l : w[k] \in Units
    BY <1>1, <1>2, ElementOfSeq
  <2>2. v \in Seq(Units)
    BY <1>1, <1>2, <2>1, SubSeqProperties
  <2>3. Len(v) = l - n /\ \A k \in 1 .. l - n : v[k] = w[(n + 1) + k - 1]
    BY <1>1, <1>2
  <2>4. \A k \in 1 .. l - n : (n + 1) + k - 1 = n + k
    BY <1>2
  <2> QED BY <2>2, <2>3, <2>4
<1> HIDE DEF v
<1>4. r = v \o t
  BY <1>1 DEF v
<1>5. PICK h \in Nat : h = Len(t)
  OBVIOUS
<1>6. PICK d \in Nat : d = l - n
  BY <1>2
<1>7. /\ r \in Seq(Units) /\ Len(r) = d + h
      /\ \A k \in 1 .. d + h : r[k] = IF k <= d THEN v[k] ELSE t[k - d]
  <2>1. v \o t \in Seq(Units) /\ Len(v \o t) = Len(v) + Len(t)
        /\ \A k \in 1 .. Len(v) + Len(t) : (v \o t)[k] = IF k <= Len(v) THEN v[k] ELSE t[k - Len(v)]
    BY <1>3, ConcatProperties
  <2> QED BY <1>3, <1>4, <1>5, <1>6, <2>1
<1> DEFINE b == SubSeq(r, 1, m)
<1>8. b \in Seq(Units) /\ Len(b) = m /\ \A k \in 1 .. m : b[k] = r[k]
  <2>1. m \in 0 .. Len(r) /\ 1 \in 1 .. m + 1
    BY <1>7
  <2>2. b \in Seq(Units)
    BY <1>7, <2>1, PieceIs
  <2> QED BY <1>7, <2>1, <2>2, SMTT(40)
<1> HIDE DEF b
<1>9. b # <<>>
  <2>1. m \in Nat /\ m >= 1
    BY <1>5, <1>6, <1>7
  <2> QED BY <1>8, <2>1
<1>10. \A k \in 1 .. m : k <= d => b[k] = w[n + k]
  <2> SUFFICES ASSUME NEW k \in 1 .. m, k <= d PROVE b[k] = w[n + k]
    OBVIOUS
  <2>1. k \in 1 .. d + h /\ k \in 1 .. l - n /\ b[k] = r[k]
    BY <1>5, <1>6, <1>7, <1>8, SMTT(40)
  <2> QED BY <1>3, <1>7, <2>1
<1>11. m > d => b[d + 1] = t[1]
  <2> SUFFICES ASSUME m > d PROVE b[d + 1] = t[1]
    OBVIOUS
  <2>1. d + 1 \in 1 .. m /\ d + 1 \in 1 .. d + h /\ ~(d + 1 <= d) /\ (d + 1) - d = 1
    BY <1>7
  <2> QED BY <1>7, <1>8, <2>1
<1>12. m <= d => SubSeq(r, m + 1, d + h) = SubSeq(w, (n + m) + 1, l) \o t
  <2> SUFFICES ASSUME m <= d PROVE SubSeq(r, m + 1, d + h) = SubSeq(w, (n + m) + 1, l) \o t
    OBVIOUS
  <2> DEFINE x == SubSeq(r, m + 1, d + h)
             u == SubSeq(w, (n + m) + 1, l)
             y == u \o t
  <2>0. m \in Nat /\ m >= 1 /\ d \in Nat /\ h \in Nat
    BY <1>5, <1>6, <1>7
  <2>1. u \in Seq(Units) /\ Len(u) = d - m /\ \A k \in 1 .. d - m : u[k] = w[(n + m) + k]
    <3>1. \A k \in (n + m) + 1 .. l : w[k] \in Units
      BY <1>1, <1>2, <2>0, ElementOfSeq
    <3>2. u \in Seq(Units)
      BY <1>1, <1>2, <1>6, <2>0, <3>1, SubSeqProperties
    <3>3. Len(u) = d - m /\ \A k \in 1 .. d - m : u[k] = w[((n + m) + 1) + k - 1]
      <4>1. PICK i \in Nat : i = n + m /\ i <= l /\ l - i = d - m
        BY <1>1, <1>2, <1>6, <2>0
      <4>2. /\ Len(SubSeq(w, i + 1, l)) = l - i
            /\ \A k \in 1 .. l - i : SubSeq(w, i + 1, l)[k] = w[(i + 1) + k - 1]
        BY <1>1, <4>1
      <4> QED BY <4>1, <4>2, Zenon
    <3>4. \A k \in 1 .. d - m : ((n + m) + 1) + k - 1 = (n + m) + k
      BY <1>2, <2>0
    <3> QED BY <3>2, <3>3, <3>4
  <2> HIDE DEF u
  <2>2. /\ y \in Seq(Units) /\ Len(y) = (d - m) + h
        /\ \A k \in 1 .. (d - m) + h : y[k] = IF k <= d - m THEN u[k] ELSE t[k - (d - m)]
    <3>1. u \o t \in Seq(Units) /\ Len(u \o t) = Len(u) + Len(t)
          /\ \A k \in 1 .. Len(u) + Len(t) : (u \o t)[k] = IF k <= Len(u) THEN u[k] ELSE t[k - Len(u)]
      BY <2>1, ConcatProperties
    <3> QED BY <1>5, <2>1, <3>1
  <2>3. x \in Seq(Units) /\ Len(x) = (d + h) - m /\ \A k \in 1 .. (d + h) - m : x[k] = r[m + k]
    <3>1. \A k \in m + 1 .. d + h : r[k] \in Units
      <4> SUFFICES ASSUME NEW k \in m + 1 .. d + h PROVE r[k] \in Units
        OBVIOUS
      <4>1. r \in Seq(Units) /\ Len(r) = d + h
        BY <1>7
      <4>2. k \in 1 .. d + h
        BY <2>0
      <4> QED BY <4>1, <4>2, ElementOfSeq, Zenon
    <3>2. x \in Seq(Units)
      BY <1>7, <2>0, <3>1, SubSeqProperties
    <3>5. PICK z \in Seq(Units) : z = r /\ Len(z) = d + h
      BY <1>7
    <3>6. PICK e \in Nat : e = d + h /\ m <= e
      BY <2>0
    <3>7. x = SubSeq(z, m + 1, e)
      BY <3>5, <3>6
    <3> HIDE DEF x
    <3>9. Len(z) = e
      BY <3>5, <3>6
    <3>10. m \in Nat /\ m >= 1 /\ m <= e
      BY <2>0, <3>6
    <3>11. /\ Len(SubSeq(z, m + 1, e)) = e - m
           /\ \A k \in 1 .. e - m : SubSeq(z, m + 1, e)[k] = z[(m + 1) + k - 1]
      BY <3>9, <3>10
    <3>8. Len(x) = e - m /\ \A k \in 1 .. e - m : x[k] = z[(m + 1) + k - 1]
      BY <3>7, <3>11
    <3>3. Len(x) = (d + h) - m /\ \A k \in 1 .. (d + h) - m : x[k] = r[(m + 1) + k - 1]
      BY <3>5, <3>6, <3>8
    <3>4. \A k \in 1 .. (d + h) - m : (m + 1) + k - 1 = m + k
      BY <2>0
    <3> QED BY <3>2, <3>3, <3>4
  <2> HIDE DEF x, y
  <2>4. ASSUME NEW k \in 1 .. (d + h) - m PROVE x[k] = y[k]
    <3>4. k \in Nat /\ k >= 1 /\ k <= (d + h) - m
      BY <2>0
    <3>5. m + k \in 1 .. d + h /\ k \in 1 .. (d - m) + h
      BY <2>0, <3>4
    <3>1. m + k \in 1 .. d + h /\ k \in 1 .. (d - m) + h /\ x[k] = r[m + k]
      BY <2>3, <3>5
    <3>2. CASE k <= d - m
      <4>1. k \in 1 .. d - m /\ m + k <= d /\ m + k \in 1 .. d /\ n + (m + k) = (n + m) + k
        BY <1>2, <2>0, <3>2, <3>4
      <4>2. v[m + k] = w[(n + m) + k]
        BY <1>3, <1>6, <4>1
      <4>3. r[m + k] = v[m + k]
        BY <1>7, <3>1, <4>1
      <4>4. u[k] = w[(n + m) + k] /\ y[k] = u[k]
        BY <2>1, <2>2, <3>1, <3>2, <4>1
      <4> QED BY <3>1, <4>2, <4>3, <4>4
    <3>3. CASE ~(k <= d - m)
      <4>1. ~(m + k <= d) /\ (m + k) - d = k - (d - m)
        BY <2>0, <3>3, <3>4
      <4> QED BY <1>7, <2>2, <3>1, <3>3, <4>1
    <3> QED BY <3>2, <3>3
  <2>5. Len(x) = Len(y) /\ Len(x) = (d + h) - m
    BY <2>0, <2>2, <2>3
  <2>6. x = y
    BY <2>2, <2>3, <2>4, <2>5, SeqEqual
  <2> QED BY <2>6 DEF x, y, u
<1>13. m \in Nat /\ m <= d + h
  BY <1>5, <1>6, <1>7
<1>14. m > d => PieceOf(b, d, w, n) /\ t # <<>>
  <2> SUFFICES ASSUME m > d PROVE PieceOf(b, d, w, n) /\ t # <<>>
    OBVIOUS
  <2>1. \A k \in 1 .. d : k \in 1 .. m /\ k <= d
    BY <1>13
  <2>2. h # 0
    BY <1>13
  <2> QED BY <1>5, <1>10, <2>1, <2>2 DEF PieceOf
<1>15. m <= d => PieceOf(b, m, w, n)
  <2> SUFFICES ASSUME m <= d PROVE PieceOf(b, m, w, n)
    OBVIOUS
  <2>1. \A k \in 1 .. m : k <= d
    BY <1>13
  <2> QED BY <1>10, <2>1 DEF PieceOf
<1>16. d = Len(w) - n /\ d + h = Len(r) /\ l = Len(w)
  BY <1>1, <1>5, <1>6, <1>7
<1>17. /\ SubSeq(r, 1, m) \in Seq(Units) /\ Len(SubSeq(r, 1, m)) = m /\ SubSeq(r, 1, m) # <<>>
       /\ m > Len(w) - n =>
            /\ PieceOf(SubSeq(r, 1, m), Len(w) - n, w, n)
            /\ SubSeq(r, 1, m)[(Len(w) - n) + 1] = t[1] /\ t # <<>>
       /\ m <= Len(w) - n =>
            /\ PieceOf(SubSeq(r, 1, m), m, w, n)
            /\ SubSeq(r, m + 1, Len(r)) = SubSeq(w, (n + m) + 1, Len(w)) \o t
  BY <1>8, <1>9, <1>11, <1>12, <1>14, <1>15, <1>16 DEF b
<1> QED BY <1>17 DEF Taken

\* The first line ends where there is the end of a line.
LEMMA FirstLineIs ==
  ASSUME NEW r, r.bytes \in Seq(Units), NEW k \in 1 .. Len(r.bytes), r.bytes[k] = Http!LF
  PROVE  Http!FirstLine(r) \in 1 .. Len(r.bytes) /\ r.bytes[Http!FirstLine(r)] = Http!LF
<1>1. PICK l \in Nat : l = Len(r.bytes)
  OBVIOUS
<1> DEFINE T == {i \in 1 .. l : r.bytes[i] = Http!LF}
<1>2. PICK i \in T : \A j \in T : i <= j
  <2>1. T \subseteq 0 .. l /\ T # {}
    BY <1>1
  <2> HIDE DEF T
  <2> QED BY <1>1, <2>1, LeastNumber
<1>3. i \in 1 .. l /\ r.bytes[i] = Http!LF
  BY <1>2
<1>4. \A j \in 1 .. (i - 1) : r.bytes[j] # Http!LF
  <2> SUFFICES ASSUME NEW j \in 1 .. (i - 1), r.bytes[j] = Http!LF PROVE FALSE
    OBVIOUS
  <2>1. j \in T /\ ~(i <= j)
    BY <1>1, <1>3
  <2> QED BY <1>2, <2>1
<1> HIDE DEF T
<1>5. \E n \in 1 .. Len(r.bytes) : r.bytes[n] = Http!LF /\ \A j \in 1 .. (n - 1) : r.bytes[j] # Http!LF
  BY <1>1, <1>3, <1>4
<1> QED BY <1>5 DEF Http!FirstLine

\* Behind the first line there is no other protocol.
LEMMA RestNarrows ==
  ASSUME NEW x, NEW y, NEW w, NEW j, NEW P, Rest(x, y, w, j, P), Going(x),
         NEW i \in 1 .. j, w[i] = Http!LF
  PROVE  Rest(x, y, w, j, {x.request.protocol})
<1>1. /\ Well(x, w, j, P) /\ IsParser(x) /\ IsRequest(x.request) /\ x.p = 0
      /\ Placed(y, j, w) /\ SameControl(x, y) /\ Agrees(x.request, After(y))
  BY DEF Rest
<1>2. x.node \notin EarlyNodes /\ x.error = "OK" /\ SpanOpen(x.node, x.span)
  BY <1>1 DEF Well, Going
<1>3. x.span # "url" /\ x.node # "start"
  BY <1>2 DEF SpanOpen, EarlyNodes, LineNodes
<1>4. Well(x, w, j, {x.request.protocol})
  BY <1>2, <1>3 DEF Well
<1> QED BY <1>1, <1>4 DEF Rest

\* A pause is no error.
LEMMA Resumed ==
  ASSUME NEW p, IsParser(p)
  PROVE  LET z == Http!llhttp_resume_after_upgrade(p) IN
         /\ z.error = "OK" => p.error \in {"OK", "PAUSED_UPGRADE"}
         /\ z.request = p.request
         /\ p.error = "OK" => z = p
<1> DEFINE z == Http!llhttp_resume_after_upgrade(p)
<1>1. PICK e : e = IF p.error = "PAUSED_UPGRADE" THEN "OK" ELSE p.error
  OBVIOUS
<1>2. z = [p EXCEPT !.error = e]
  BY <1>1 DEF Http!llhttp_resume_after_upgrade
<1> HIDE DEF z
<1>3. z.error = e /\ z.request = p.request
  BY <1>2 DEF IsParser, Fields
<1>4. p.error = "OK" => z = p
  BY <1>1, <1>2 DEF IsParser, Fields
<1>5. z.error = "OK" => p.error \in {"OK", "PAUSED_UPGRADE"}
  BY <1>1, <1>3
<1> QED BY <1>3, <1>4, <1>5 DEF z

\* What the parser has come to with unit number j, if that is in P; v says that
\* there is one protocol.
Came(p, r, j, v) ==
  \E B, P :
    /\ RunTable(B, Http!NewParser, r.bytes) /\ (v => P \subseteq {r.protocol})
    /\ p.request.protocol \in P
    /\ p.request.complete =>
         /\ r.valid /\ j = Len(r.bytes)
         /\ Agrees(p.request, Http!OfOnePiece(r.bytes).request)
    /\ ~ p.request.complete => Rest(p, B[j], r.bytes, j, P) /\ Clear(B, j + 1)

\* The piece of a request that comes next, when all of it is the request's.
LEMMA PieceCame ==
  ASSUME NEW r, Http!Understood(r), NEW B, RunTable(B, Http!NewParser, r.bytes),
         NEW n \in 0 .. Len(r.bytes), Clear(B, n + 1), NEW P,
         NEW x, Rest(x, B[n], r.bytes, n, P),
         NEW buf \in Seq(Units), buf # <<>>, n + Len(buf) <= Len(r.bytes),
         PieceOf(buf, Len(buf), r.bytes, n),
         NEW z, z = Http!llhttp_resume_after_upgrade(Http!llhttp_execute(x, buf)), z.error = "OK"
  PROVE  /\ z.request.protocol \in P
         /\ z.request.complete =>
              /\ r.valid /\ n + Len(buf) = Len(r.bytes)
              /\ Agrees(z.request, Http!OfOnePiece(r.bytes).request)
         /\ ~ z.request.complete =>
              /\ Rest(z, B[n + Len(buf)], r.bytes, n + Len(buf), P) /\ Clear(B, n + Len(buf) + 1)
              /\ Going(z)
<1> DEFINE p == Http!llhttp_execute(x, buf)
           j == n + Len(buf)
<1>1. /\ IsParser(p)
      /\ p.error \in {"OK", "PAUSED_UPGRADE"} =>
           /\ IsRequest(p.request) /\ p.request.protocol \in P
           /\ p.request.complete =>
                r.valid /\ j = Len(r.bytes) /\ Agrees(p.request, After(B[j]))
           /\ ~ p.request.complete =>
                /\ p.error = "OK" /\ Rest(p, B[j], r.bytes, j, P) /\ Clear(B, j + 1)
                /\ r.valid => j < Len(r.bytes)
  <2> HIDE DEF Http!Understood
  <2> QED BY PieceTaken, Zenon
<1> HIDE DEF p, j
<1>2. z = Http!llhttp_resume_after_upgrade(p)
  BY DEF p
<1>3. p.error \in {"OK", "PAUSED_UPGRADE"} /\ z.request = p.request /\ (p.error = "OK" => z = p)
  BY <1>1, <1>2, Resumed
<1>4. ASSUME z.request.complete
      PROVE  r.valid /\ j = Len(r.bytes) /\ Agrees(z.request, Http!OfOnePiece(r.bytes).request)
  <2>1. r.valid /\ j = Len(r.bytes) /\ Agrees(z.request, After(B[j]))
    BY <1>1, <1>3, <1>4
  <2>2. Agrees(Http!OfOnePiece(r.bytes).request, After(B[Len(r.bytes)]))
    BY <2>1, UnderstoodIs
  <2> QED BY <2>1, <2>2 DEF Agrees
<1>5. ~ z.request.complete => Rest(z, B[j], r.bytes, j, P) /\ Clear(B, j + 1) /\ Going(z)
  BY <1>1, <1>3 DEF Going
<1> QED BY <1>1, <1>3, <1>4, <1>5 DEF j

\* The parser is not one that reads no request.
LEMMA NoParserIs == ~ IsParser(Http!NoParser)
<1> SUFFICES ASSUME IsParser(Http!NoParser) PROVE FALSE
  OBVIOUS
<1>1. DOMAIN Http!NoParser = Fields
  BY DEF IsParser
<1>2. DOMAIN Http!NoParser = {"node"}
  BY DEF Http!NoParser
<1>3. "error" \in Fields /\ "error" \notin {"node"}
  BY DEF Fields
<1> QED BY <1>1, <1>2, <1>3

\* Requests pending are requests.
LEMMA PendingAre ==
  ASSUME RequestsAssumption, Pending, sent # <<>>
  PROVE  /\ sent[1] \in Requests /\ Http!Understood(sent[1]) /\ sent[1].bytes \in Seq(Units)
         /\ Following \in Seq(Units) /\ Len(sent) \in {1, 2}
         /\ Following # <<>> => /\ Len(sent) = 2 /\ sent[1].valid /\ ~ sent[1].persistent
                                /\ Following[1] \notin {Http!CR, Http!LF}
<1>1. sent \in Seq(Requests) /\ Len(sent) <= 2 /\ (Len(sent) = 2 => sent[1].valid /\ ~ sent[1].persistent)
  BY DEF Pending
<1>2. Len(sent) \in {1, 2}
  <2>1. PICK k \in Nat : k = Len(sent) /\ k # 0
    BY <1>1
  <2> QED BY <1>1, <2>1
<1>3. sent[1] \in Requests /\ (Len(sent) = 2 => sent[2] \in Requests)
  BY <1>1, <1>2
<1>4. \A r \in Requests : Http!Understood(r)
  BY DEF RequestsAssumption
<1>5. \A r \in Requests : r.bytes \in Seq(Units) /\ r.bytes[1] \notin {Http!CR, Http!LF}
  BY <1>4 DEF Http!Understood, Units
<1>6. <<>> \in Seq(Units)
  OBVIOUS
<1> QED BY <1>1, <1>2, <1>3, <1>4, <1>5, <1>6 DEF Following

\* What recv brings is a piece of the request.
LEMMA FedCame ==
  ASSUME RequestsAssumption, Pending, NEW m \in Nat, m >= 1, m <= Len(wire), Http!Fed(m).error = "OK"
  PROVE  /\ sent # <<>>
         /\ \E j \in 0 .. Len(sent[1].bytes) :
              /\ SubSeq(wire, m + 1, Len(wire)) =
                   SubSeq(sent[1].bytes, j + 1, Len(sent[1].bytes)) \o Following
              /\ Came(Http!Fed(m), sent[1], j,
                      sent[1].valid /\ IF parser = Http!NoParser THEN m >= Http!FirstLine(sent[1]) ELSE whole)
<1> DEFINE r == sent[1]
           z == Http!Fed(m)
           buf == SubSeq(wire, 1, m)
<1>1. sent # <<>>
  BY DEF Pending
<1>2. /\ Http!Understood(r) /\ r.bytes \in Seq(Units) /\ Following \in Seq(Units)
      /\ Following # <<>> => r.valid /\ ~ r.persistent /\ Following[1] \notin {Http!CR, Http!LF}
  BY <1>1, PendingAre
<1>3. PICK n \in 0 .. Len(r.bytes) : Arriving(r, n)
  BY <1>1 DEF Pending
<1>4. PICK w \in Seq(Units) : w = r.bytes
  BY <1>2
<1>5. PICK l \in Nat : l = Len(w)
  OBVIOUS
<1> HIDE DEF r, z, buf
<1>6. /\ buf \in Seq(Units) /\ Len(buf) = m /\ buf # <<>>
      /\ m > l - n =>
           PieceOf(buf, l - n, w, n) /\ buf[(l - n) + 1] = Following[1] /\ Following # <<>>
      /\ m <= l - n =>
           /\ PieceOf(buf, m, w, n)
           /\ SubSeq(wire, m + 1, Len(wire)) = SubSeq(w, (n + m) + 1, l) \o Following
  <2>1. wire = SubSeq(w, n + 1, Len(w)) \o Following
    BY <1>3, <1>4 DEF Arriving
  <2>2. n \in 0 .. Len(w) /\ Following \in Seq(Units)
    BY <1>2, <1>4
  <2>3. m \in 1 .. Len(wire)
    <3>1. wire \in Seq(Units)
      <4>1. SubSeq(w, n + 1, Len(w)) \in Seq(Units)
        <5>1. \A k \in n + 1 .. Len(w) : w[k] \in Units
          BY <2>2, ElementOfSeq
        <5>2. n + 1 \in Int /\ Len(w) \in Int
          BY <2>2
        <5> QED BY <5>1, <5>2, SubSeqProperties
      <4> QED BY <2>1, <2>2, <4>1, ConcatProperties
    <3> QED BY <3>1
  <2> DEFINE t == Following
             v == wire
  <2>4. t \in Seq(Units) /\ n \in 0 .. Len(w) /\ v = SubSeq(w, n + 1, Len(w)) \o t /\ m \in 1 .. Len(v)
    BY <2>1, <2>2, <2>3
  <2> HIDE DEF t, v
  <2>5. /\ SubSeq(v, 1, m) \in Seq(Units) /\ Len(SubSeq(v, 1, m)) = m /\ SubSeq(v, 1, m) # <<>>
        /\ m > Len(w) - n =>
             /\ PieceOf(SubSeq(v, 1, m), Len(w) - n, w, n)
             /\ SubSeq(v, 1, m)[(Len(w) - n) + 1] = t[1] /\ t # <<>>
        /\ m <= Len(w) - n =>
             /\ PieceOf(SubSeq(v, 1, m), m, w, n)
             /\ SubSeq(v, m + 1, Len(v)) = SubSeq(w, (n + m) + 1, Len(w)) \o t
    <3>1. Taken(v, m, w, n, t)
      BY <1>4, <2>4, WireIs, Zenon
    <3> QED BY <3>1 DEF Taken
  <2>6. buf = SubSeq(v, 1, m)
    BY DEF buf, v
  <2> QED BY <1>5, <2>5, <2>6, Zenon DEF t, v
<1>7. n \in Nat /\ n <= l /\ n \in 0 .. Len(w)
  BY <1>4, <1>5
<1> DEFINE x == IF parser = Http!NoParser THEN Http!NewParser ELSE parser
<1>8. z = Http!llhttp_resume_after_upgrade(Http!llhttp_execute(x, buf)) /\ z.error = "OK"
  BY DEF z, buf, Http!Fed
<1> HIDE DEF x
<1>9. \E B, P : /\ RunTable(B, Http!NewParser, w) /\ Clear(B, n + 1) /\ Rest(x, B[n], w, n, P)
                /\ parser = Http!NoParser => n = 0 /\ P = Protocols
                /\ parser # Http!NoParser /\ whole /\ r.valid => P \subseteq {r.protocol}
  <2>1. CASE parser = Http!NoParser
    <3>1. n = 0
      <4>1. ~ BeingRead(r, n)
        BY <2>1, NoParserIs DEF BeingRead, Rest
      <4> QED BY <1>3, <4>1 DEF Arriving
    <3>2. PICK B : RunTable(B, Http!NewParser, w)
      BY <1>5, Executed
    <3>3. Rest(Http!NewParser, B[0], w, 0, Protocols) /\ Going(B[0])
      BY <3>2, NewRests
    <3>4. Clear(B, 0 + 1)
      BY <3>3 DEF Clear
    <3>5. x = Http!NewParser
      BY <2>1 DEF x
    <3> QED BY <2>1, <3>1, <3>2, <3>3, <3>4, <3>5
  <2>2. CASE parser # Http!NoParser
    <3>1. BeingRead(r, n)
      BY <1>3, <2>2 DEF Arriving
    <3>2. x = parser
      BY <2>2 DEF x
    <3> QED BY <1>4, <2>2, <3>1, <3>2 DEF BeingRead
  <2> QED BY <2>1, <2>2
<1>10. PICK B, P : /\ RunTable(B, Http!NewParser, w) /\ Clear(B, n + 1) /\ Rest(x, B[n], w, n, P)
                   /\ parser = Http!NoParser => n = 0 /\ P = Protocols
                   /\ parser # Http!NoParser /\ whole /\ r.valid => P \subseteq {r.protocol}
  BY <1>9
<1>11. m <= l - n
  <2>1. SUFFICES ASSUME m > l - n PROVE FALSE
    BY <1>7
  <2>2. PICK d \in Nat : d = l - n /\ n + d = l /\ d \in 0 .. Len(buf) - 1
    BY <1>6, <1>7, <2>1
  <2>3. Following # <<>> /\ buf[d + 1] = Following[1]
    BY <1>6, <1>7, <2>1, <2>2
  <2>4. PieceOf(buf, d, r.bytes, n)
    BY <1>4, <1>6, <2>1, <2>2
  <2> DEFINE p == Http!llhttp_execute(x, buf)
  <2>5. IsParser(p) /\ p.error \notin {"OK", "PAUSED_UPGRADE"}
    <3>1. /\ r.valid /\ ~ r.persistent /\ RunTable(B, Http!NewParser, r.bytes)
          /\ n \in 0 .. Len(r.bytes) /\ Rest(x, B[n], r.bytes, n, P) /\ n + d = Len(r.bytes)
          /\ buf[d + 1] \notin {Http!CR, Http!LF}
      BY <1>2, <1>4, <1>5, <1>7, <1>10, <2>2, <2>3
    <3>2. Http!Understood(r) /\ Clear(B, n + 1) /\ buf \in Seq(Units) /\ d \in 0 .. Len(buf) - 1
      BY <1>2, <1>6, <1>10, <2>2
    <3> HIDE DEF p
    <3> QED BY <2>4, <3>1, <3>2, BehindIsRefused, Zenon DEF p
  <2> HIDE DEF p
  <2> QED BY <1>8, <2>5, Resumed DEF p
<1> DEFINE j == n + m
<1>12. j \in 0 .. l /\ PieceOf(buf, Len(buf), r.bytes, n)
  <2>1. j \in 0 .. l
    BY <1>7, <1>11
  <2> QED BY <1>4, <1>6, <1>11, <2>1
<1>13. /\ z.request.protocol \in P
       /\ z.request.complete =>
            r.valid /\ j = Len(r.bytes) /\ Agrees(z.request, Http!OfOnePiece(r.bytes).request)
       /\ ~ z.request.complete => Rest(z, B[j], r.bytes, j, P) /\ Clear(B, j + 1) /\ Going(z)
  <2>1. n + Len(buf) = j /\ n + Len(buf) <= Len(r.bytes)
    BY <1>4, <1>5, <1>6, <1>12
  <2>2. RunTable(B, Http!NewParser, r.bytes) /\ n \in 0 .. Len(r.bytes) /\ Rest(x, B[n], r.bytes, n, P)
    BY <1>4, <1>7, <1>10
  <2> HIDE DEF j
  <2>3. /\ z.request.protocol \in P
        /\ z.request.complete =>
             /\ r.valid /\ n + Len(buf) = Len(r.bytes)
             /\ Agrees(z.request, Http!OfOnePiece(r.bytes).request)
        /\ ~ z.request.complete =>
             /\ Rest(z, B[n + Len(buf)], r.bytes, n + Len(buf), P) /\ Clear(B, n + Len(buf) + 1)
             /\ Going(z)
    <3>1. /\ Http!Understood(r) /\ Clear(B, n + 1) /\ buf \in Seq(Units) /\ buf # <<>>
          /\ n + Len(buf) <= Len(r.bytes) /\ PieceOf(buf, Len(buf), r.bytes, n)
      BY <1>2, <1>6, <1>10, <1>12, <2>1
    <3> QED BY <1>8, <2>2, <3>1, PieceCame, ZenonT(60)
  <2> QED BY <2>1, <2>3
<1>14. ASSUME parser = Http!NoParser, r.valid, m >= Http!FirstLine(r)
       PROVE  /\ z.request.protocol = r.protocol
              /\ \E i \in 1 .. j : w[i] = Http!LF
  <2>1. \E k \in 1 .. Len(r.bytes) : r.bytes[k] = Http!LF
    BY <1>2, <1>14 DEF Http!Understood
  <2>2. Http!FirstLine(r) \in 1 .. Len(r.bytes) /\ r.bytes[Http!FirstLine(r)] = Http!LF
    BY <1>2, <2>1, FirstLineIs
  <2>3. n = 0 /\ x = Http!NewParser /\ j = m /\ m \in Http!FirstLine(r) .. Len(r.bytes)
    BY <1>4, <1>5, <1>7, <1>10, <1>11, <1>14, <2>2 DEF x
  <2>4. buf = SubSeq(r.bytes, 1, m)
    <3>1. m \in 0 .. Len(w) /\ 1 \in 1 .. m + 1
      BY <1>5, <1>7, <1>11, <2>3
    <3>2. SubSeq(w, 1, m) \in Seq(Units)
      BY <3>1, PieceIs
    <3>3. Len(SubSeq(w, 1, m)) = m /\ \A k \in 1 .. m : SubSeq(w, 1, m)[k] = w[k]
      BY <1>5, <3>1
    <3>4. \A k \in 1 .. m : buf[k] = w[k]
      BY <1>4, <1>6, <1>12, <2>3 DEF PieceOf
    <3> HIDE DEF j
    <3>5. buf = SubSeq(w, 1, m)
      <4> DEFINE v == SubSeq(w, 1, m)
      <4> HIDE DEF v
      <4>1. v \in Seq(Units) /\ Len(buf) = Len(v) /\ \A k \in 1 .. Len(buf) : buf[k] = v[k]
        BY <1>6, <3>2, <3>3, <3>4 DEF v
      <4>2. buf = v
        BY <1>6, <4>1, SeqEqual
      <4> QED BY <4>2 DEF v
    <3> QED BY <1>4, <3>5
  <2>5. Http!OfOnePiece(SubSeq(r.bytes, 1, m)).request.protocol = r.protocol
    BY <1>2, <1>14, <2>3 DEF Http!Understood
  <2> DEFINE p == Http!llhttp_execute(x, buf)
  <2>6. p = Http!OfOnePiece(SubSeq(r.bytes, 1, m))
    BY <2>3, <2>4 DEF Http!OfOnePiece
  <2>7. IsParser(p)
    <3>1. n + Len(buf) <= Len(r.bytes) /\ RunTable(B, Http!NewParser, r.bytes) /\ n \in 0 .. Len(r.bytes)
          /\ Rest(x, B[n], r.bytes, n, P)
      BY <1>4, <1>5, <1>6, <1>7, <1>10, <1>12
    <3> HIDE DEF j
    <3>2. /\ Http!Understood(r) /\ Clear(B, n + 1) /\ buf \in Seq(Units) /\ buf # <<>>
          /\ PieceOf(buf, Len(buf), r.bytes, n)
      BY <1>2, <1>6, <1>10, <1>12
    <3> HIDE DEF p
    <3> QED BY <3>1, <3>2, PieceTaken, Zenon DEF p
  <2> HIDE DEF p
  <2>8. z.request = p.request
    BY <1>8, <2>7, Resumed DEF p
  <2>9. Http!FirstLine(r) \in 1 .. j
    BY <2>2, <2>3
  <2> QED BY <1>4, <2>2, <2>5, <2>6, <2>8, <2>9
<1> DEFINE v == r.valid /\ IF parser = Http!NoParser THEN m >= Http!FirstLine(r) ELSE whole
<1>15. Came(z, r, j, v)
  <2>1. CASE parser = Http!NoParser /\ v
    <3> DEFINE Q == {r.protocol}
    <3>0. parser = Http!NoParser /\ r.valid /\ m >= Http!FirstLine(r)
      BY <2>1
    <3> HIDE DEF v, j
    <3>1. z.request.protocol = r.protocol /\ \E i \in 1 .. j : w[i] = Http!LF
      BY <1>14, <3>0
    <3>2. ~ z.request.complete => Rest(z, B[j], r.bytes, j, Q) /\ Clear(B, j + 1)
      <4> SUFFICES ASSUME ~ z.request.complete PROVE Rest(z, B[j], r.bytes, j, Q) /\ Clear(B, j + 1)
        OBVIOUS
      <4>1. Rest(z, B[j], r.bytes, j, P) /\ Clear(B, j + 1) /\ Going(z)
        BY <1>13
      <4>2. PICK i \in 1 .. j : r.bytes[i] = Http!LF
        BY <1>4, <3>1
      <4>3. Rest(z, B[j], r.bytes, j, {z.request.protocol})
        BY <4>1, <4>2, RestNarrows
      <4> QED BY <3>1, <4>1, <4>3
    <3>3. RunTable(B, Http!NewParser, r.bytes) /\ z.request.protocol \in Q /\ Q \subseteq {r.protocol}
      BY <1>4, <1>10, <3>1
    <3> HIDE DEF Q
    <3> QED BY <1>13, <3>2, <3>3 DEF Came
  <2>2. CASE ~(parser = Http!NoParser /\ v)
    <3>1. v => P \subseteq {r.protocol}
      BY <1>10, <2>2
    <3>2. RunTable(B, Http!NewParser, r.bytes)
      BY <1>4, <1>10
    <3> HIDE DEF v, j
    <3> QED BY <1>13, <3>1, <3>2 DEF Came
  <2> QED BY <2>1, <2>2
<1>16. j \in 0 .. Len(r.bytes)
       /\ SubSeq(wire, m + 1, Len(wire)) = SubSeq(r.bytes, j + 1, Len(r.bytes)) \o Following
  BY <1>4, <1>5, <1>6, <1>11, <1>12
<1> HIDE DEF j
<1> QED BY <1>1, <1>15, <1>16 DEF r, z

\* Nothing is pending on a connection that begins.
LEMMA NonePending ==
  ASSUME sent = <<>>, wire = <<>>, parser = Http!NoParser
  PROVE  Pending
<1>1. <<>> \in Seq(Requests) /\ Len(<<>>) = 0
  OBVIOUS
<1> QED BY <1>1 DEF Pending

\* A new connection has served nothing.
LEMMA ConnBegins == Http!Init => ConnInv
<1> SUFFICES ASSUME Http!Init PROVE ConnInv
  OBVIOUS
<1>1. sent = <<>> /\ wire = <<>> /\ parser = Http!NoParser /\ served = Http!Nothing
  BY DEF Http!Init
<1> QED BY <1>1, NonePending DEF ConnInv, ServedAsSent, Http!ServedAsSent

\* One that is removed is as a new one.
LEMMA RemovalKeeps == Http!RemoveConnection => ConnInv'
<1> SUFFICES ASSUME Http!RemoveConnection PROVE ConnInv'
  OBVIOUS
<1>1. sent' = <<>> /\ wire' = <<>> /\ parser' = Http!NoParser /\ served' = Http!Nothing
  BY DEF Http!RemoveConnection
<1>2. <<>> \in Seq(Requests) /\ Len(<<>>) = 0
  OBVIOUS
<1>3. Pending'
  BY <1>1, <1>2 DEF Pending
<1> QED BY <1>1, <1>3 DEF ConnInv, ServedAsSent, Http!ServedAsSent

\* A sequence is all of itself, and nothing behind it.
LEMMA AllOfIt ==
  ASSUME NEW w \in Seq(Units)
  PROVE  SubSeq(w, 1, Len(w)) = w /\ w \o <<>> = w /\ <<>> \o w = w
<1>1. PICK l \in Nat : l = Len(w)
  OBVIOUS
<1>2. \A k \in 1 .. l : w[k] \in Units
  BY <1>1, ElementOfSeq
<1> DEFINE v == SubSeq(w, 1, l)
<1>3. v \in Seq(Units)
  BY <1>1, <1>2, SubSeqProperties
<1>4. Len(v) = l /\ \A k \in 1 .. l : v[k] = w[k]
  BY <1>1
<1> HIDE DEF v
<1>5. v = w
  BY <1>1, <1>3, <1>4, SeqEqual
<1>6. w \o <<>> = w /\ <<>> \o w = w
  BY ConcatEmptySeq
<1> QED BY <1>1, <1>5, <1>6 DEF v

\* What a client sends comes behind what it has sent.
LEMMA SendKeeps ==
  ASSUME RequestsAssumption, ConnInv, Http!Send
  PROVE  ConnInv'
<1>1. conn = "open" /\ served' = Http!Nothing /\ parser' = parser /\ whole' = whole
  BY DEF Http!Send
<1>2. PICK r \in Requests :
        /\ sent = <<>> \/ (Len(sent) = 1 /\ sent[1].valid /\ ~ sent[1].persistent)
        /\ sent' = Append(sent, r) /\ wire' = wire \o r.bytes
  BY DEF Http!Send
<1>3. Pending
  BY <1>1 DEF ConnInv
<1>4. r.bytes \in Seq(Units)
  BY <1>2 DEF RequestsAssumption, Http!Understood, Units
<1>5. sent \in Seq(Requests)
  BY <1>3 DEF Pending
<1>6. Pending'
  <2>1. CASE sent = <<>>
    <3>1. sent' = <<r>> /\ Len(sent') = 1 /\ sent'[1] = r /\ sent' \in Seq(Requests) /\ sent' # <<>>
      BY <1>2, <2>1
    <3>2. wire' = SubSeq(r.bytes, 1, Len(r.bytes)) \o <<>>
      <4>1. wire = <<>>
        BY <1>3, <2>1 DEF Pending
      <4> QED BY <1>2, <1>4, <4>1, AllOfIt
    <3>3. Following' = <<>>
      BY <3>1 DEF Following
    <3>4. parser' = Http!NoParser
      BY <1>1, <1>3, <2>1 DEF Pending
    <3>5. Arriving(sent[1], 0)'
      BY <3>1, <3>2, <3>3, <3>4 DEF Arriving
    <3>6. 0 \in 0 .. Len(sent'[1].bytes)
      BY <1>4, <3>1
    <3> QED BY <3>1, <3>5, <3>6 DEF Pending
  <2>2. CASE sent # <<>>
    <3>1. Len(sent) = 1 /\ sent[1].valid /\ ~ sent[1].persistent /\ sent[1] \in Requests
      BY <1>2, <1>5, <2>2
    <3>2. /\ Len(sent') = 2 /\ sent'[1] = sent[1] /\ sent'[2] = r /\ sent' \in Seq(Requests)
          /\ sent' # <<>>
      <4>1. PICK s \in Seq(Requests) : s = sent /\ Len(s) = 1
        BY <1>5, <3>1
      <4>2. /\ Append(s, r) \in Seq(Requests) /\ Len(Append(s, r)) = 2 /\ Append(s, r)[1] = s[1]
            /\ Append(s, r)[2] = r /\ Append(s, r) # <<>>
        <5>1. /\ Append(s, r) \in Seq(Requests) /\ Append(s, r) # <<>>
              /\ Len(Append(s, r)) = Len(s) + 1 /\ Append(s, r)[Len(s) + 1] = r
              /\ \A i \in 1 .. Len(s) : Append(s, r)[i] = s[i]
          BY AppendProperties
        <5>2. Len(s) + 1 = 2 /\ 1 \in 1 .. Len(s)
          BY <4>1
        <5> QED BY <5>1, <5>2
      <4> QED BY <1>2, <4>1, <4>2
    <3>3. PICK n \in 0 .. Len(sent[1].bytes) : Arriving(sent[1], n)
      BY <1>3, <2>2 DEF Pending
    <3>4. wire = SubSeq(sent[1].bytes, n + 1, Len(sent[1].bytes))
      <4>1. PICK w \in Seq(Units) : w = sent[1].bytes
        BY <3>1 DEF RequestsAssumption, Http!Understood, Units
      <4> DEFINE u == SubSeq(w, n + 1, Len(w))
      <4>2. u \in Seq(Units)
        <5>1. \A k \in n + 1 .. Len(w) : w[k] \in Units
          BY <3>3, <4>1, ElementOfSeq
        <5>2. n + 1 \in Int /\ Len(w) \in Int
          BY <3>3, <4>1
        <5> QED BY <5>1, <5>2, SubSeqProperties
      <4>3. wire = u \o <<>>
        BY <3>1, <3>3, <4>1 DEF Arriving, Following
      <4> HIDE DEF u
      <4>4. wire = u
        BY <4>2, <4>3, AllOfIt
      <4> QED BY <4>1, <4>4 DEF u
    <3>5. Following' = r.bytes
      BY <3>2 DEF Following
    <3>6. wire' = SubSeq(sent'[1].bytes, n + 1, Len(sent'[1].bytes)) \o Following'
      BY <1>2, <3>2, <3>4, <3>5
    <3>7. (parser = Http!NoParser /\ n = 0) \/ BeingRead(sent[1], n)
      BY <3>3 DEF Arriving
    <3>8. (parser' = Http!NoParser /\ n = 0) \/ BeingRead(sent[1], n)'
      <4>1. CASE BeingRead(sent[1], n)
        BY <1>1, <3>2, <4>1 DEF BeingRead
      <4> QED BY <1>1, <3>7, <4>1
    <3>9. Arriving(sent[1], n)'
      BY <3>6, <3>8 DEF Arriving
    <3>10. n \in 0 .. Len(sent'[1].bytes)
      BY <3>2, <3>3
    <3> QED BY <3>1, <3>2, <3>9, <3>10 DEF Pending
  <2> QED BY <2>1, <2>2
<1> QED BY <1>1, <1>6 DEF ConnInv, ServedAsSent, Http!ServedAsSent

\* What a piece completes is served as it was sent, and what is not complete is
\* read on.
LEMMA TakeKeeps ==
  ASSUME RequestsAssumption, ConnInv, conn = "open",
         NEW m \in Nat, m >= 1, m <= Len(wire), Http!Take(m)
  PROVE  ConnInv'
<1> DEFINE z == Http!Fed(m)
<1>1. /\ z.error = "OK" /\ wire' = SubSeq(wire, m + 1, Len(wire))
      /\ whole' = IF parser = Http!NoParser THEN m >= Http!FirstLine(Head(sent)) ELSE whole
  BY DEF Http!Take
<1>2. Pending
  BY DEF ConnInv
<1>3. /\ sent # <<>>
      /\ \E j \in 0 .. Len(sent[1].bytes) :
           /\ SubSeq(wire, m + 1, Len(wire)) =
                SubSeq(sent[1].bytes, j + 1, Len(sent[1].bytes)) \o Following
           /\ Came(z, sent[1], j,
                   sent[1].valid /\ IF parser = Http!NoParser THEN m >= Http!FirstLine(sent[1]) ELSE whole)
  BY <1>1, <1>2, FedCame
<1>4. /\ sent \in Seq(Requests) /\ Len(sent) \in {1, 2} /\ Head(sent) = sent[1]
      /\ sent[1] \in Requests /\ Http!Understood(sent[1]) /\ sent[1].bytes \in Seq(Units)
      /\ Following \in Seq(Units)
  <2>1. sent \in Seq(Requests)
    BY <1>2 DEF Pending
  <2> QED BY <1>2, <1>3, <2>1, PendingAre
<1>5. PICK j \in 0 .. Len(sent[1].bytes) :
        /\ wire' = SubSeq(sent[1].bytes, j + 1, Len(sent[1].bytes)) \o Following
        /\ Came(z, sent[1], j, sent[1].valid /\ whole')
  BY <1>1, <1>3, <1>4
<1>6. PICK B, P :
        /\ RunTable(B, Http!NewParser, sent[1].bytes)
        /\ (sent[1].valid /\ whole') => P \subseteq {sent[1].protocol}
        /\ z.request.protocol \in P
        /\ z.request.complete =>
             /\ sent[1].valid /\ j = Len(sent[1].bytes)
             /\ Agrees(z.request, Http!OfOnePiece(sent[1].bytes).request)
        /\ ~ z.request.complete => Rest(z, B[j], sent[1].bytes, j, P) /\ Clear(B, j + 1)
  BY <1>5 DEF Came
<1> HIDE DEF z
<1>7. CASE ~ z.request.complete
  <2>1. parser' = z /\ served' = Http!Nothing /\ sent' = sent /\ conn' = conn
    BY <1>7 DEF Http!Take, z
  <2>2. Following' = Following
    BY <2>1 DEF Following
  <2>3. BeingRead(sent[1], j)'
    BY <1>6, <1>7, <2>1 DEF BeingRead
  <2>4. Arriving(sent[1], j)'
    BY <1>5, <2>1, <2>2, <2>3 DEF Arriving
  <2>5. Pending'
    BY <1>2, <1>3, <1>5, <2>1, <2>4 DEF Pending
  <2> QED BY <2>1, <2>5 DEF ConnInv, ServedAsSent, Http!ServedAsSent
<1>8. CASE z.request.complete
  <2>1. \E refused \in BOOLEAN : Http!Serve(z, refused)
    BY <1>8 DEF Http!Take, z
  <2>2. PICK refused \in BOOLEAN : Http!Serve(z, refused)
    BY <2>1
  <2>3. PICK answer :
          served' = [asked |-> Head(sent), whole |-> whole', made |-> z.request, answer |-> answer]
    BY <2>2 DEF Http!Serve
  <2>4. parser' = Http!NoParser /\ sent' = Tail(sent)
    BY <2>2 DEF Http!Serve
  <2>5. /\ served'.asked = sent[1] /\ served'.whole = whole' /\ served'.made = z.request
    BY <1>4, <2>3
  <2>6. /\ sent[1].valid /\ j = Len(sent[1].bytes)
        /\ Agrees(z.request, Http!OfOnePiece(sent[1].bytes).request)
    BY <1>6, <1>8
  <2>7. ServedAsSent'
    <3>1. (served.whole => served.made.protocol = served.asked.protocol)'
      BY <1>6, <2>5, <2>6
    <3>2. /\ z.request.name = sent[1].means.method /\ z.request.url = sent[1].means.url
          /\ z.request.headers = sent[1].means.headers /\ z.request.data = sent[1].means.body
      BY <1>4, <2>6 DEF Http!Understood, Agrees
    <3> QED BY <2>5, <2>6, <3>1, <3>2 DEF ServedAsSent, Http!ServedAsSent
  <2>8. wire' = Following
    <3>1. PICK w \in Seq(Units) : w = sent[1].bytes
      BY <1>4
    <3>2. PICK l \in Nat : l = Len(w) /\ j = l
      BY <2>6, <3>1
    <3>3. SubSeq(w, l + 1, l) = <<>>
      BY <3>1, <3>2
    <3>4. wire' = <<>> \o Following
      BY <1>5, <3>1, <3>2, <3>3
    <3> QED BY <1>4, <3>4, AllOfIt
  <2>9. Pending'
    <3>1. CASE Len(sent) = 1
      <4>1. sent' = <<>>
        BY <1>4, <2>4, <3>1
      <4>2. wire' = <<>>
        BY <2>8, <3>1 DEF Following
      <4>3. <<>> \in Seq(Requests) /\ Len(<<>>) = 0
        OBVIOUS
      <4>4. (sent \in Seq(Requests) /\ Len(sent) <= 2)' /\ Len(sent') # 2
        BY <4>1, <4>3
      <4> QED BY <2>4, <4>1, <4>2, <4>4 DEF Pending
    <3>2. CASE Len(sent) = 2
      <4>0. PICK s \in Seq(Requests) : s = sent /\ Len(s) = 2
        BY <1>4, <3>2
      <4>1. PICK r \in Requests : r = sent[2]
        BY <4>0, SMTT(40)
      <4>2. sent' \in Seq(Requests) /\ Len(sent') = 1 /\ sent'[1] = r /\ sent' # <<>>
        <5>1. Tail(s) \in Seq(Requests) /\ Len(Tail(s)) = 1 /\ Tail(s)[1] = s[2] /\ Tail(s) # <<>>
          <6>1. s # <<>>
            BY <4>0, SMTT(40)
          <6>2. /\ Tail(s) \in Seq(Requests) /\ Len(Tail(s)) = Len(s) - 1
                /\ \A i \in 1 .. Len(Tail(s)) : Tail(s)[i] = s[i + 1]
            BY <6>1, HeadTailProperties
          <6> DEFINE t == Tail(s)
          <6> HIDE DEF t
          <6>5. Len(s) - 1 = 1
            BY <4>0
          <6>6. t \in Seq(Requests) /\ Len(t) = 1
            BY <6>2, <6>5, Zenon DEF t
          <6>7. 1 \in 1 .. Len(t)
            BY <6>6
          <6>8. t[1] = s[1 + 1]
            BY <6>2, <6>7, Zenon DEF t
          <6>3. t \in Seq(Requests) /\ Len(t) = 1 /\ t[1] = s[2]
            BY <6>6, <6>8
          <6>9. Len(<<>>) = 0 /\ 0 # 1
            OBVIOUS
          <6>4. t # <<>>
            BY <6>3, <6>9, Zenon
          <6> QED BY <6>3, <6>4 DEF t
        <5> QED BY <2>4, <4>0, <4>1, <5>1
      <4>3. r.bytes \in Seq(Units)
        BY DEF RequestsAssumption, Http!Understood, Units
      <4>4. wire' = SubSeq(r.bytes, 1, Len(r.bytes)) \o <<>>
        BY <2>8, <3>2, <4>1, <4>3, AllOfIt DEF Following
      <4>5. Following' = <<>>
        BY <4>2 DEF Following
      <4>6. Arriving(sent[1], 0)'
        BY <2>4, <4>2, <4>4, <4>5 DEF Arriving
      <4>7. 0 \in 0 .. Len(sent'[1].bytes)
        BY <4>2, <4>3
      <4> QED BY <4>2, <4>6, <4>7 DEF Pending
    <3> QED BY <1>4, <3>1, <3>2
  <2> QED BY <2>7, <2>9 DEF ConnInv
<1> QED BY <1>7, <1>8

\* What is served is what was sent, for every set of requests that are each
\* understood when nothing cuts them, however their bytes come.
THEOREM ServedAlways == Http!Spec => []ServedAsSent
<1>1. Http!Init => ConnInv
  BY ConnBegins
<1>2. ConnInv /\ [Http!Next]_(Http!vars) => ConnInv'
  <2>1. ASSUME ConnInv, Http!Send PROVE ConnInv'
    BY <2>1, RequestsAssumption, SendKeeps
  <2>2. ASSUME ConnInv, Http!Recv PROVE ConnInv'
    <3>1. conn = "open" /\ BUFFER \in Nat
      BY <2>2, RequestsAssumption DEF Http!Recv, RequestsAssumption
    <3>2. PICK m \in 1 .. BUFFER : m <= Len(wire) /\ (Http!Take(m) \/ Http!Break(m))
      BY <2>2 DEF Http!Recv
    <3>3. m \in Nat /\ m >= 1 /\ m <= Len(wire)
      BY <3>1, <3>2
    <3>4. CASE Http!Take(m)
      BY <2>2, <3>1, <3>3, <3>4, RequestsAssumption, TakeKeeps
    <3>5. CASE Http!Break(m)
      BY <3>5, RemovalKeeps DEF Http!Break
    <3> QED BY <3>2, <3>4, <3>5
  <2>3. ASSUME ConnInv, Http!Close PROVE ConnInv'
    BY <2>3, RemovalKeeps DEF Http!Close
  <2>4. ASSUME ConnInv, UNCHANGED <<parser, wire, sent, whole, served>>, conn = "crashed" => conn' = conn
        PROVE  ConnInv'
    <3>1. ServedAsSent'
      BY <2>4 DEF ConnInv, ServedAsSent, Http!ServedAsSent
    <3>2. ASSUME conn' # "crashed" PROVE Pending'
      <4>1. Pending
        BY <2>4, <3>2 DEF ConnInv
      <4>2. Following' = Following
        BY <2>4 DEF Following
      <4>3. ASSUME NEW n, Arriving(sent[1], n) PROVE Arriving(sent[1], n)'
        <5>1. BeingRead(sent[1], n) => BeingRead(sent[1], n)'
          BY <2>4 DEF BeingRead
        <5> QED BY <2>4, <4>2, <4>3, <5>1 DEF Arriving
      <4> QED BY <2>4, <4>1, <4>3 DEF Pending
    <3> QED BY <3>1, <3>2 DEF ConnInv
  <2>5. ASSUME ConnInv, Http!Connect PROVE ConnInv'
    BY <2>4, <2>5 DEF Http!Connect
  <2>6. ASSUME ConnInv, UNCHANGED Http!vars PROVE ConnInv'
    BY <2>4, <2>6 DEF Http!vars
  <2> QED BY <2>1, <2>2, <2>3, <2>5, <2>6 DEF Http!Next
<1>3. ConnInv => ServedAsSent
  BY DEF ConnInv
<1> QED BY <1>1, <1>2, <1>3, PTL DEF Http!Spec
=============================================================================
