--------------------------- MODULE HttpStream_proofs ---------------------------
(***************************************************************************)
(* For any urls, sizes, metadata and packets: the types, with any careless *)
(* seeks and timeouts; and where no receive times out, that one connection *)
(* is open at most, that whoever asks for seeks as the filler of the cache *)
(* does, of any stream, gets the bytes of the position the stream tells,   *)
(* and no metadata among them, if the server of an ICY stream keeps to its *)
(* blocks.                                                                 *)
(***************************************************************************)
EXTENDS HttpStream, SequenceTheorems, TLAPS

Conn == [is : {"closed", "unconnected", "connected"}, rest : Seq(Element)]

Typed ==
  /\ TypeOK
  /\ seekable => ~icy
  /\ pc = "meta" => icy
  /\ ~icy => buffer_pos = 0 /\ Len(buffer) <= BodySize
  /\ pc = "response" => fd # 0
  /\ pc \in {"request", "response"} =>
       /\ ~icy /\ buffer = <<>> /\ buf = <<>> /\ ~eof
       /\ pos = 0 /\ offset = NoOffset /\ want = 0

-----------------------------------------------------------------------------
(* Facts about the operators.                                              *)

LEMMA Parts ==
  ASSUME NEW s \in Seq(Element), NEW m \in Nat, NEW n \in Nat, m <= n, n <= Len(s)
  PROVE  /\ SubSeq(s, m + 1, n) \in Seq(Element)
         /\ Len(SubSeq(s, m + 1, n)) = n - m
         /\ \A i \in 1 .. n - m : SubSeq(s, m + 1, n)[i] = s[m + i]
<1>1. \A i \in m + 1 .. n : s[i] \in Element
  BY ElementOfSeq
<1> QED
  BY <1>1, SubSeqProperties

LEMMA Slice ==
  ASSUME NEW s \in Seq(Element), NEW p \in Nat, NEW k \in Nat, p + k <= Len(s)
  PROVE  /\ SubSeq(s, p + 1, p + k) \in Seq(Element)
         /\ Len(SubSeq(s, p + 1, p + k)) = k
         /\ \A i \in 1 .. k : SubSeq(s, p + 1, p + k)[i] = s[p + i]
<1> DEFINE e == p + k
<1>1. e \in Nat /\ p <= e /\ e <= Len(s) /\ e - p = k
  OBVIOUS
<1>2. /\ SubSeq(s, p + 1, e) \in Seq(Element)
      /\ Len(SubSeq(s, p + 1, e)) = k
      /\ \A i \in 1 .. k : SubSeq(s, p + 1, e)[i] = s[p + i]
  <2> HIDE DEF e
  <2> QED
    BY <1>1, Parts
<1> QED
  BY <1>2

LEMMA Rest ==
  ASSUME NEW s \in Seq(Element), NEW k \in 0 .. Len(s)
  PROVE  /\ From(s, k) \in Seq(Element)
         /\ Len(From(s, k)) = Len(s) - k
         /\ \A i \in 1 .. Len(s) - k : From(s, k)[i] = s[k + i]
<1>1. Len(s) \in Nat /\ k \in Nat /\ k <= Len(s)
  OBVIOUS
<1> QED
  BY <1>1, Parts DEF From

LEMMA Prefix ==
  ASSUME NEW s \in Seq(Element), NEW n \in Nat, n <= Len(s)
  PROVE  /\ SubSeq(s, 1, n) \in Seq(Element)
         /\ Len(SubSeq(s, 1, n)) = n
         /\ \A i \in 1 .. n : SubSeq(s, 1, n)[i] = s[i]
<1>1. \A i \in 1 .. n : s[i] \in Element
  BY ElementOfSeq
<1> QED
  BY <1>1, SubSeqProperties

LEMMA Consts ==
  /\ Size \in Nat /\ IcyBody \in Seq(Element)
  /\ MetaInt \in Nat \ {0} /\ Sector \in Nat \ {0}
  /\ BodySize \in Nat /\ BodySize < Sector /\ MaxFd \in Nat
  /\ FirstUrl \in Url /\ Location \in [Url -> Url \union {NoUrl}]
<1>1. Size \in Nat BY HttpAssumption
<1>2. IcyBody \in Seq(Element) BY HttpAssumption
<1>3. MetaInt \in Nat \ {0} /\ Sector \in Nat \ {0} BY HttpAssumption
<1>4. BodySize \in Nat /\ BodySize < Sector BY HttpAssumption
<1>5. MaxFd \in Nat BY HttpAssumption
<1>6. FirstUrl \in Url /\ Location \in [Url -> Url \union {NoUrl}] BY HttpAssumption
<1> QED BY <1>1, <1>2, <1>3, <1>4, <1>5, <1>6

LEMMA PlainSeq ==
  /\ Plain \in Seq(Element) /\ Len(Plain) = Size
  /\ \A i \in 1 .. Size : Plain[i] = Audio(i - 1)
<1>1. \A i \in Nat : Audio(i) \in Element
  BY DEF Audio, Element
<1>2. \A i \in 1 .. Size : i - 1 \in Nat
  BY Consts
<1>3. Plain \in [1 .. Size -> Element]
  BY <1>1, <1>2 DEF Plain
<1>4. Plain \in Seq(Element) /\ Len(Plain) = Size
  <2>1. Size \in Nat
    BY Consts
  <2> QED
    BY <1>3, <2>1
<1> QED
  BY <1>4 DEF Plain

LEMMA ConnIs ==
  /\ Closed \in Conn /\ Unconnected \in Conn
  /\ Closed.is = "closed" /\ Unconnected.is = "unconnected"
  /\ \A r \in Seq(Element) : Connected(r) \in Conn /\ Connected(r).rest = r
  BY DEF Closed, Unconnected, Connected, Conn

LEMMA RecvCases ==
  ASSUME NEW n \in Nat, NEW c \in Conn, NEW r \in Recv(n, c)
  PROVE  \/ /\ r.ret = -1 /\ r.bytes = <<>> /\ r.from \in Conn
            /\ r.from.is = "connected" => TimesOut
         \/ /\ c.is = "connected"
            /\ r.ret \in 0 .. n /\ r.ret <= Len(c.rest)
            /\ r.ret = 0 => c.rest = <<>>
            /\ r.bytes = SubSeq(c.rest, 1, r.ret)
            /\ r.from = Connected(From(c.rest, r.ret))
<1>1. c.rest \in Seq(Element) /\ Len(c.rest) \in Nat
  BY DEF Conn
<1>2. CASE c.is # "connected"
  BY <1>2 DEF Recv
<1>3. CASE c.is = "connected" /\ r.ret = -1
  BY <1>3, ConnIs DEF Recv
<1>4. CASE c.is = "connected" /\ r.ret # -1
  <2>1. PICK k \in {k \in 0 .. Least(n, Len(c.rest)) : k = 0 => c.rest = <<>>} :
          r = [ret |-> k, bytes |-> SubSeq(c.rest, 1, k), from |-> Connected(From(c.rest, k))]
    BY <1>4 DEF Recv
  <2> QED
    BY <1>1, <1>4, <2>1 DEF Least
<1> QED
  BY <1>2, <1>3, <1>4

(* What my_read() takes: left bytes of the buffer, and k that it receives. *)
Takes(r, n, p, c, left, k) ==
  /\ left + k <= n /\ p + left <= Len(buffer) /\ k <= Len(c.rest)
  /\ left = n \/ p + left = Len(buffer)
  /\ r.pos = p + left
  /\ r.got \in Seq(Element) /\ Len(r.got) = left + k
  /\ \A i \in 1 .. left : r.got[i] = buffer[p + i]
  /\ \A i \in 1 .. k : r.got[left + i] = c.rest[i]
  /\ \/ c.is # "connected" /\ k = 0 /\ r.from = c
     \/ c.is = "connected" /\ left + k < n /\ r.from = Unconnected
     \/ /\ c.is = "connected" /\ r.from = Connected(From(c.rest, k))
        /\ left + k = n \/ k = Len(c.rest) \/ TimesOut

LEMMA MyReadTakes ==
  ASSUME NEW n \in Nat, NEW p \in 0 .. Len(buffer), NEW c \in Conn, buffer \in Seq(Element),
         NEW r \in MyRead(n, p, c)
  PROVE  \E left \in Nat, k \in Nat : Takes(r, n, p, c, left, k)
<1> DEFINE left == Least(n, Len(buffer) - p)
           all == Least(n - left, Len(c.rest))
<1>1. c.rest \in Seq(Element) /\ Len(c.rest) \in Nat /\ Len(buffer) \in Nat /\ p \in Nat
  BY DEF Conn
<1>2. left \in Nat /\ p + left <= Len(buffer) /\ left <= n /\ (left = n \/ p + left = Len(buffer))
  BY <1>1 DEF Least
<1>3. /\ all \in Nat /\ left + all <= n /\ all <= Len(c.rest)
      /\ left + all = n \/ all = Len(c.rest)
  <2> HIDE DEF left
  <2> QED
    BY <1>1, <1>2 DEF Least
<1> HIDE DEF left, all
<1> DEFINE got(k) == SubSeq(buffer, p + 1, p + left) \o SubSeq(c.rest, 1, k)
           from(k) == \/ c.is # "connected" /\ k = 0 /\ r.from = c
                      \/ c.is = "connected" /\ left + k < n /\ r.from = Unconnected
                      \/ /\ c.is = "connected" /\ r.from = Connected(From(c.rest, k))
                         /\ left + k = n \/ k = Len(c.rest) \/ TimesOut
<1>4. PICK k \in 0 .. all : r.pos = p + left /\ r.got = got(k) /\ from(k)
  <2>1. 0 \in 0 .. all /\ all \in 0 .. all
    BY <1>3
  <2>2. CASE c.is # "connected"
    <3>1. r = [pos |-> p + left, from |-> c, got |-> got(0)]
      BY <2>2 DEF MyRead, left, all
    <3> HIDE DEF got
    <3> QED
      BY <2>1, <2>2, <3>1
  <2>3. CASE c.is = "connected"
    <3>1. \/ r = [pos |-> p + left, from |-> Connected(From(c.rest, all)), got |-> got(all)]
          \/ \E k \in 0 .. all : left + k < n /\ r = [pos |-> p + left, from |-> Unconnected, got |-> got(k)]
          \/ /\ TimesOut
             /\ \E k \in 0 .. all :
                  r = [pos |-> p + left, from |-> Connected(From(c.rest, k)), got |-> got(k)]
      BY <2>3 DEF MyRead, left, all
    <3> HIDE DEF got
    <3>2. CASE r = [pos |-> p + left, from |-> Connected(From(c.rest, all)), got |-> got(all)]
      BY <1>3, <2>1, <2>3, <3>2
    <3>3. ASSUME NEW k \in 0 .. all, left + k < n,
                 r = [pos |-> p + left, from |-> Unconnected, got |-> got(k)]
          PROVE  r.pos = p + left /\ r.got = got(k) /\ from(k)
      BY <2>3, <3>3
    <3>4. ASSUME TimesOut, NEW k \in 0 .. all,
                 r = [pos |-> p + left, from |-> Connected(From(c.rest, k)), got |-> got(k)]
          PROVE  r.pos = p + left /\ r.got = got(k) /\ from(k)
      BY <2>3, <3>4
    <3> HIDE DEF from
    <3> QED
      BY <3>1, <3>2, <3>3, <3>4
  <2> QED
    BY <2>2, <2>3
<1> DEFINE head == SubSeq(buffer, p + 1, p + left)
           tail == SubSeq(c.rest, 1, k)
<1>5. k \in Nat /\ left + k <= n /\ k <= Len(c.rest)
  BY <1>1, <1>2, <1>3
<1>6. head \in Seq(Element) /\ Len(head) = left /\ \A i \in 1 .. left : head[i] = buffer[p + i]
  BY <1>1, <1>2, Slice
<1>7. tail \in Seq(Element) /\ Len(tail) = k /\ \A i \in 1 .. k : tail[i] = c.rest[i]
  BY <1>1, <1>5, Prefix
<1>8. r.got = head \o tail
  BY <1>4
<1> HIDE DEF head, tail
<1>9. /\ r.got \in Seq(Element) /\ Len(r.got) = left + k
      /\ \A i \in 1 .. left + k : r.got[i] = IF i <= left THEN head[i] ELSE tail[i - left]
  <2>1. /\ head \o tail \in Seq(Element) /\ Len(head \o tail) = Len(head) + Len(tail)
        /\ \A i \in 1 .. Len(head) + Len(tail) :
             (head \o tail)[i] = IF i <= Len(head) THEN head[i] ELSE tail[i - Len(head)]
    <3>1. head \in Seq(Element) /\ tail \in Seq(Element)
      BY <1>6, <1>7
    <3> QED
      BY <3>1, ConcatProperties
  <2> QED
    BY <1>6, <1>7, <1>8, <2>1
<1>10. /\ \A i \in 1 .. left : r.got[i] = buffer[p + i]
       /\ \A i \in 1 .. k : r.got[left + i] = c.rest[i]
  <2>1. ASSUME NEW i \in 1 .. left PROVE r.got[i] = buffer[p + i]
    BY <1>2, <1>5, <1>6, <1>9
  <2>2. ASSUME NEW i \in 1 .. k PROVE r.got[left + i] = c.rest[i]
    <3> DEFINE j == left + i
    <3>1. j \in 1 .. left + k /\ ~(j <= left) /\ j - left = i
      BY <1>2, <1>5
    <3> HIDE DEF j
    <3>2. r.got[j] = tail[j - left]
      BY <1>9, <3>1
    <3>3. r.got[left + i] = tail[i]
      BY <3>1, <3>2 DEF j
    <3> QED
      BY <1>7, <3>3
  <2> QED
    BY <2>1, <2>2
<1> QED
  BY <1>2, <1>4, <1>5, <1>9, <1>10 DEF Takes

LEMMA MyReadIs ==
  ASSUME NEW n \in Nat, NEW p \in 0 .. Len(buffer), NEW c \in Conn, buffer \in Seq(Element),
         NEW r \in MyRead(n, p, c)
  PROVE  /\ r.pos \in 0 .. Len(buffer)
         /\ r.from \in Conn
         /\ r.got \in Seq(Element) /\ Len(r.got) <= n
<1>1. PICK left \in Nat, k \in Nat : Takes(r, n, p, c, left, k)
  BY MyReadTakes
<1>2. c.rest \in Seq(Element) /\ Len(c.rest) \in Nat /\ Len(buffer) \in Nat /\ p \in Nat
  BY DEF Conn
<1>3. From(c.rest, k) \in Seq(Element)
  <2>1. k \in 0 .. Len(c.rest)
    BY <1>1, <1>2 DEF Takes
  <2> QED
    BY <1>2, <2>1, Rest
<1>4. r.from \in Conn
  BY <1>1, <1>3, ConnIs DEF Takes
<1> QED
  BY <1>1, <1>2, <1>4 DEF Takes

LEMMA LinkTyped ==
  ASSUME TypeOK
  PROVE  /\ socket \in [Fd -> Conn] /\ fd \in 0 .. MaxFd /\ MaxFd \in Nat
         /\ Link \in Conn
         /\ Link.is = "connected" => fd \in Fd /\ Link = socket[fd]
         /\ fd = 0 \/ fd \in Fd
<1>1. socket \in [Fd -> Conn] /\ fd \in 0 .. MaxFd /\ MaxFd \in Nat
  BY Consts DEF TypeOK, Conn
<1>2. fd = 0 \/ fd \in Fd
  BY <1>1 DEF Fd
<1> QED
  BY <1>1, <1>2, ConnIs DEF Link

LEMMA LinkIsTyped ==
  ASSUME TypeOK, NEW c \in Conn, LinkIs(c)
  PROVE  /\ socket' \in [Fd -> Conn]
         /\ \A n \in Fd : socket'[n] = IF n = fd THEN c ELSE socket[n]
  BY LinkTyped DEF LinkIs, Fd

LEMMA CloseTyped ==
  ASSUME NEW s \in [Fd -> Conn], NEW n
  PROVE  /\ Close(s, n) \in [Fd -> Conn]
         /\ \A m \in Fd : Close(s, n)[m] = IF m = n THEN Closed ELSE s[m]
  BY ConnIs DEF Close

LEMMA RequestedTyped ==
  ASSUME NEW s \in [Fd -> Conn], NEW r \in Requested(s)
  PROVE  /\ r.socket \in [Fd -> Conn]
         /\ r.fd = 0 \/ r.fd \in Fd
         /\ r.fd \in 0 .. MaxFd
         /\ (\A n \in Fd : s[n].is # "connected") =>
              \A n \in Fd : r.socket[n].is = "connected" => n = r.fd
<1>0. MaxFd \in Nat /\ <<>> \in Seq(Element)
  BY Consts
<1>1. CASE r = [socket |-> s, fd |-> 0]
  BY <1>0, <1>1
<1>2. ASSUME NEW n \in Fd, r = [socket |-> [s EXCEPT ![n] = Unconnected], fd |-> 0]
      PROVE  r.socket \in [Fd -> Conn] /\ r.fd = 0
             /\ \A m \in Fd : r.socket[m] = IF m = n THEN Unconnected ELSE s[m]
  BY <1>2, ConnIs
<1>3. ASSUME NEW n \in Fd, r = [socket |-> [s EXCEPT ![n] = Connected(<<>>)], fd |-> n]
      PROVE  r.socket \in [Fd -> Conn] /\ r.fd = n
             /\ \A m \in Fd : r.socket[m] = IF m = n THEN Connected(<<>>) ELSE s[m]
  BY <1>0, <1>3, ConnIs
<1>4. \/ r = [socket |-> s, fd |-> 0]
      \/ \E n \in Fd : \/ r = [socket |-> [s EXCEPT ![n] = Unconnected], fd |-> 0]
                       \/ r = [socket |-> [s EXCEPT ![n] = Connected(<<>>)], fd |-> n]
  BY DEF Requested
<1>5. \A n \in Fd : n \in 0 .. MaxFd
  BY <1>0 DEF Fd
<1>6. ASSUME NEW n \in Fd,
             \/ r = [socket |-> [s EXCEPT ![n] = Unconnected], fd |-> 0]
             \/ r = [socket |-> [s EXCEPT ![n] = Connected(<<>>)], fd |-> n]
      PROVE  /\ r.socket \in [Fd -> Conn]
             /\ r.fd = 0 \/ r.fd \in Fd
             /\ r.fd \in 0 .. MaxFd
             /\ (\A k \in Fd : s[k].is # "connected") =>
                  \A k \in Fd : r.socket[k].is = "connected" => k = r.fd
  <2>1. CASE r = [socket |-> [s EXCEPT ![n] = Unconnected], fd |-> 0]
    BY <1>0, <1>2, <2>1, ConnIs
  <2>2. CASE r = [socket |-> [s EXCEPT ![n] = Connected(<<>>)], fd |-> n]
    BY <1>3, <1>5, <2>2, ConnIs
  <2> QED
    BY <1>6, <2>1, <2>2
<1> QED
  BY <1>1, <1>4, <1>6

LEMMA NoResponseTyped ==
  ASSUME NEW s \in [Fd -> Conn], NEW n \in Fd, NEW body \in Seq(Element),
         NEW t \in NoResponse(s, n, body)
  PROVE  /\ t \in [Fd -> Conn]
         /\ ~TimesOut => \A m \in Fd : t[m] = IF m = n THEN Unconnected ELSE s[m]
<1>1. Header \in Element
  BY DEF Header, Element
<1>2. <<Header>> \o body \in Seq(Element)
  BY <1>1, ConcatProperties
<1>3. CASE t = [s EXCEPT ![n] = Unconnected]
  BY <1>3, ConnIs
<1>4. CASE TimesOut /\ t = [s EXCEPT ![n] = Connected(<<Header>> \o body)]
  BY <1>2, <1>4, ConnIs
<1> QED
  BY <1>3, <1>4 DEF NoResponse

LEMMA FilledTyped ==
  ASSUME pos \in Nat, want \in Nat, offset \in NoOffset .. Sector - 1,
         NEW bytes \in Seq(Element), Len(bytes) <= Sector, Filled(bytes)
  PROVE  /\ pc' \in {"fill", "ready"}
         /\ buf' = bytes /\ buf_pos' \in 0 .. Len(bytes)
         /\ pos' \in Nat /\ want' \in Nat /\ eof' \in BOOLEAN
         /\ offset' \in NoOffset .. Sector - 1
         /\ done' \in Seq(Element) /\ Len(done') <= Sector
<1>1. Len(bytes) \in Nat /\ Sector \in Nat \ {0}
  BY Consts
<1>2. CASE offset > Len(bytes) /\ bytes # <<>>
  BY <1>1, <1>2 DEF Filled, NoOffset
<1>3. CASE ~(offset > Len(bytes) /\ bytes # <<>>)
  BY <1>1, <1>3 DEF Filled, NoOffset
<1> QED
  BY <1>2, <1>3

-----------------------------------------------------------------------------
(* Types.                                                                  *)

LEMMA TypedInit == Init => Typed
<1> SUFFICES ASSUME Init PROVE Typed
  OBVIOUS
<1>1. socket \in [Fd -> Conn]
  BY ConnIs DEF Init
<1>2. <<>> \in Seq(Element) /\ Len(<<>>) = 0
  OBVIOUS
<1>3. /\ pc \in {"request", "response", "failed", "ready", "fill", "meta", "closed"}
      /\ url \in Url /\ redirect \in BOOLEAN /\ icy \in BOOLEAN /\ seekable \in BOOLEAN
      /\ eof \in BOOLEAN
  BY Consts DEF Init
<1>4. fd \in 0 .. MaxFd /\ metapos \in 0 .. MetaInt /\ offset \in NoOffset .. Sector - 1
  BY Consts DEF Init, NoOffset
<1>5. /\ buffer \in Seq(Element) /\ buffer_pos \in 0 .. Len(buffer)
      /\ done \in Seq(Element) /\ Len(done) <= Sector
  BY <1>2, Consts DEF Init
<1>6. /\ buf \in Seq(Element) /\ Len(buf) <= Sector /\ buf_pos \in 0 .. Len(buf)
      /\ pos \in Nat /\ want \in Nat
  BY <1>2, Consts DEF Init
<1>7. TypeOK
  BY <1>1, <1>3, <1>4, <1>5, <1>6 DEF TypeOK, Conn
<1> QED
  BY <1>2, <1>7, Consts DEF Init, Typed

LEMMA TypedRequest == ASSUME Typed, Request PROVE Typed'
<1>1. PICK r \in Requested(Close(socket, fd)) :
        IF r.fd = 0 THEN StartFails(r.socket)
        ELSE pc' = "response" /\ fd' = r.fd /\ socket' = r.socket
  BY DEF Request
<1>2. r.socket \in [Fd -> Conn] /\ r.fd \in 0 .. MaxFd
  BY LinkTyped, CloseTyped, RequestedTyped DEF Typed
<1>3. socket' \in [Fd -> Conn] /\ fd' \in 0 .. MaxFd /\ pc' \in {"response", "failed"}
      /\ (pc' = "response" => fd' # 0)
  BY <1>1, <1>2, Consts DEF StartFails
<1> QED
  BY <1>3 DEF Request, Typed, TypeOK, Conn, opened, unread, stream

LEMMA TypedRefused == ASSUME Typed, Refused PROVE Typed'
<1>1. socket' \in [Fd -> Conn] /\ fd' \in 0 .. MaxFd /\ pc' = "failed"
  BY LinkTyped, CloseTyped, Consts DEF Typed, Refused, StartFails
<1> QED
  BY <1>1 DEF Refused, Response, Typed, TypeOK, Conn, opened, unread, stream

LEMMA TypedRedirected == ASSUME Typed, Redirected PROVE Typed'
<1>1. url' \in Url /\ redirect' \in BOOLEAN
  <2>1. url \in Url /\ redirect \in BOOLEAN /\ Location[url] \in Url \union {NoUrl}
    BY Consts DEF Typed, TypeOK
  <2> QED
    BY <2>1 DEF Redirected
<1>2. socket' \in [Fd -> Conn] /\ fd' \in 0 .. MaxFd /\ pc' \in {"request", "failed"}
  BY LinkTyped, CloseTyped, Consts DEF Typed, Redirected, StartFails
<1> QED
  BY <1>1, <1>2 DEF Redirected, Response, Typed, TypeOK, Conn, unread, stream

LEMMA TypedOpened == ASSUME Typed, Opened PROVE Typed'
<1>1. PICK i \in BOOLEAN, s \in BOOLEAN :
        /\ icy' = i /\ seekable' = (s /\ ~i)
        /\ LET body == IF i THEN IcyBody ELSE Plain IN
             \E k \in 0 .. Least(BodySize, Len(body)) :
               /\ buffer' = SubSeq(body, 1, k)
               /\ LinkIs(Connected(From(body, k)))
  BY DEF Opened
<1> DEFINE body == IF i THEN IcyBody ELSE Plain
<1>2. PICK k \in 0 .. Least(BodySize, Len(body)) :
        buffer' = SubSeq(body, 1, k) /\ LinkIs(Connected(From(body, k)))
  BY <1>1
<1>3. body \in Seq(Element)
  BY Consts, PlainSeq
<1> HIDE DEF body
<1>4. k \in Nat /\ k <= BodySize /\ k <= Len(body) /\ Len(body) \in Nat
  BY <1>3, Consts DEF Least
<1>5. buffer' \in Seq(Element) /\ Len(buffer') = k /\ From(body, k) \in Seq(Element)
  <2>1. buffer' \in Seq(Element) /\ Len(buffer') = k
    BY <1>2, <1>3, <1>4, Prefix
  <2>2. From(body, k) \in Seq(Element)
    BY <1>3, <1>4, Rest
  <2> QED
    BY <2>1, <2>2
<1>6. socket' \in [Fd -> Conn]
  BY <1>2, <1>5, ConnIs, LinkIsTyped DEF Typed
<1>7. buffer_pos = 0 /\ buffer_pos' = 0
  BY DEF Opened, Response, Typed
<1> QED
  BY <1>1, <1>4, <1>5, <1>6, <1>7 DEF Opened, Response, Typed, TypeOK, Conn, stream

LEMMA TypedTake == ASSUME Typed, Take PROVE Typed'
<1>1. PICK n \in 1 .. Len(buf) - buf_pos : buf_pos' = buf_pos + n /\ want' = want + n
  BY DEF Take
<1>2. Len(buf) \in Nat /\ buf_pos \in 0 .. Len(buf) /\ want \in Nat
  BY DEF Typed, TypeOK
<1>3. buf_pos' \in 0 .. Len(buf) /\ want' \in Nat
  BY <1>1, <1>2
<1> QED
  BY <1>3 DEF Take, Typed, TypeOK, opened, unread

LEMMA TypedFill == ASSUME Typed, Fill PROVE Typed'
  BY DEF Fill, Typed, TypeOK, opened, unread, stream

LEMMA TypedClose == ASSUME Typed, CloseStream PROVE Typed'
<1>1. socket' \in [Fd -> Conn]
  BY LinkTyped, CloseTyped DEF Typed, CloseStream
<1> QED
  BY <1>1 DEF CloseStream, Typed, TypeOK, Conn, opened, unread, stream

LEMMA NopFillIs ==
  ASSUME Typed, NopFill
  PROVE  /\ buffer' = <<>> /\ buffer_pos' = 0
         /\ \E c \in Conn, bytes \in Seq(Element) :
              /\ LinkIs(c) /\ Filled(bytes) /\ Len(bytes) <= Sector
              /\ \/ /\ c.is = "connected" => TimesOut
                    /\ Len(bytes) <= Len(buffer)
                    /\ \A i \in 1 .. Len(bytes) : bytes[i] = buffer[i]
                 \/ /\ Link.is = "connected"
                    /\ \E k \in 0 .. Len(Link.rest) :
                         /\ k = 0 => Link.rest = <<>>
                         /\ c = Connected(From(Link.rest, k))
                         /\ bytes = buffer \o SubSeq(Link.rest, 1, k)
<1>1. /\ buffer \in Seq(Element) /\ Len(buffer) \in Nat /\ Len(buffer) < Sector
      /\ buffer_pos = 0 /\ Sector \in Nat
  BY Consts DEF Typed, TypeOK, NopFill
<1> DEFINE left == SubSeq(buffer, buffer_pos + 1, Least(Len(buffer), buffer_pos + Sector))
<1>2. Least(Len(buffer), buffer_pos + Sector) = Len(buffer)
  BY <1>1 DEF Least
<1>3. left = SubSeq(buffer, 1, Len(buffer))
  BY <1>1, <1>2
<1>4. /\ buffer' = IF buffer_pos + Len(left) = Len(buffer) THEN <<>> ELSE buffer
      /\ buffer_pos' = IF buffer_pos + Len(left) = Len(buffer) THEN 0 ELSE buffer_pos + Len(left)
      /\ IF Len(left) = Sector THEN Filled(left) /\ UNCHANGED socket
         ELSE \E r \in Recv(Sector - Len(left), Link) :
                LinkIs(r.from) /\ Filled(SubSeq(left \o r.bytes, 1, Len(left) + r.ret))
  BY DEF NopFill
<1> HIDE DEF left
<1>5. left = buffer
  <2>1. /\ left \in Seq(Element) /\ Len(left) = Len(buffer)
        /\ \A i \in 1 .. Len(buffer) : left[i] = buffer[i]
    BY <1>1, <1>3, Prefix
  <2> QED
    BY <1>1, <2>1, SeqEqual
<1>6. buffer_pos + Len(left) = Len(buffer) /\ Len(left) # Sector
  BY <1>1, <1>5
<1>7. buffer' = <<>> /\ buffer_pos' = 0
  BY <1>4, <1>6
<1>8. PICK r \in Recv(Sector - Len(left), Link) :
        LinkIs(r.from) /\ Filled(SubSeq(left \o r.bytes, 1, Len(left) + r.ret))
  BY <1>4, <1>6
<1> DEFINE bytes == SubSeq(buffer \o r.bytes, 1, Len(buffer) + r.ret)
<1>9. LinkIs(r.from) /\ Filled(bytes)
  BY <1>5, <1>8
<1>10. Link \in Conn /\ Sector - Len(left) \in Nat
  BY <1>1, <1>5, LinkTyped DEF Typed
<1>11. CASE r.ret = -1 /\ r.bytes = <<>> /\ r.from \in Conn /\ (r.from.is = "connected" => TimesOut)
  <2>1. buffer \o r.bytes = buffer
    BY <1>1, <1>11
  <2>2. CASE Len(buffer) = 0
    <3>1. bytes = <<>>
      BY <1>1, <1>11, <2>1, <2>2
    <3> HIDE DEF bytes
    <3>2. bytes \in Seq(Element) /\ Len(bytes) = 0
      BY <3>1
    <3>3. Len(bytes) <= Sector /\ Len(bytes) <= Len(buffer) /\ \A i \in 1 .. Len(bytes) : bytes[i] = buffer[i]
      BY <1>1, <2>2, <3>2
    <3> QED
      BY <1>7, <1>9, <1>11, <3>2, <3>3
  <2>3. CASE Len(buffer) # 0
    <3> DEFINE n == Len(buffer) - 1
    <3>1. bytes = SubSeq(buffer, 1, n) /\ n \in Nat /\ n <= Len(buffer) /\ n <= Sector
      BY <1>1, <1>11, <2>1, <2>3
    <3> HIDE DEF bytes, n
    <3>2. bytes \in Seq(Element) /\ Len(bytes) = n /\ \A i \in 1 .. n : bytes[i] = buffer[i]
      BY <1>1, <3>1, Prefix
    <3> QED
      BY <1>7, <1>9, <1>11, <3>1, <3>2
  <2> QED
    BY <2>2, <2>3
<1>12. CASE /\ Link.is = "connected"
            /\ r.ret \in 0 .. Sector - Len(left) /\ r.ret <= Len(Link.rest)
            /\ r.ret = 0 => Link.rest = <<>>
            /\ r.bytes = SubSeq(Link.rest, 1, r.ret)
            /\ r.from = Connected(From(Link.rest, r.ret))
  <2>1. Link.rest \in Seq(Element) /\ Len(Link.rest) \in Nat
    BY <1>10 DEF Conn
  <2>2. r.bytes \in Seq(Element) /\ Len(r.bytes) = r.ret /\ From(Link.rest, r.ret) \in Seq(Element)
    <3>1. r.ret \in 0 .. Len(Link.rest) /\ r.ret \in Nat /\ r.ret <= Len(Link.rest)
      BY <1>1, <1>12, <2>1
    <3>2. r.bytes \in Seq(Element) /\ Len(r.bytes) = r.ret
      BY <1>12, <2>1, <3>1, Prefix
    <3>3. From(Link.rest, r.ret) \in Seq(Element)
      BY <2>1, <3>1, Rest
    <3> QED
      BY <3>2, <3>3
  <2>3. /\ buffer \o r.bytes \in Seq(Element)
        /\ Len(buffer \o r.bytes) = Len(buffer) + r.ret
    BY <1>1, <2>2, ConcatProperties
  <2>4. /\ bytes \in Seq(Element) /\ Len(bytes) = Len(buffer) + r.ret
        /\ \A i \in 1 .. Len(buffer) + r.ret : bytes[i] = (buffer \o r.bytes)[i]
    <3> DEFINE n == Len(buffer) + r.ret
               t == buffer \o r.bytes
    <3>1. n \in Nat /\ n <= Len(t) /\ t \in Seq(Element)
      BY <1>1, <1>12, <2>3
    <3>2. /\ SubSeq(t, 1, n) \in Seq(Element) /\ Len(SubSeq(t, 1, n)) = n
          /\ \A i \in 1 .. n : SubSeq(t, 1, n)[i] = t[i]
      <4> HIDE DEF n, t
      <4> QED
        BY <3>1, Prefix
    <3> QED
      BY <3>2
  <2>5. bytes = buffer \o r.bytes
    BY <2>3, <2>4, SeqEqual
  <2> HIDE DEF bytes
  <2>6. Len(bytes) <= Sector /\ r.ret \in 0 .. Len(Link.rest) /\ r.from \in Conn
    BY <1>1, <1>5, <1>12, <2>1, <2>2, <2>4, ConnIs
  <2> QED
    BY <1>7, <1>9, <1>12, <2>4, <2>5, <2>6
<1>13. \/ r.ret = -1 /\ r.bytes = <<>> /\ r.from \in Conn /\ (r.from.is = "connected" => TimesOut)
       \/ /\ Link.is = "connected"
          /\ r.ret \in 0 .. Sector - Len(left) /\ r.ret <= Len(Link.rest)
          /\ r.ret = 0 => Link.rest = <<>>
          /\ r.bytes = SubSeq(Link.rest, 1, r.ret)
          /\ r.from = Connected(From(Link.rest, r.ret))
  <2> DEFINE n == Sector - Len(left)
  <2>1. n \in Nat /\ r \in Recv(n, Link)
    BY <1>8, <1>10
  <2> HIDE DEF n
  <2>2. \/ /\ r.ret = -1 /\ r.bytes = <<>> /\ r.from \in Conn
           /\ r.from.is = "connected" => TimesOut
        \/ /\ Link.is = "connected"
           /\ r.ret \in 0 .. n /\ r.ret <= Len(Link.rest)
           /\ r.ret = 0 => Link.rest = <<>>
           /\ r.bytes = SubSeq(Link.rest, 1, r.ret)
           /\ r.from = Connected(From(Link.rest, r.ret))
    BY <1>10, <2>1, RecvCases
  <2> QED
    BY <2>2 DEF n
<1> QED
  BY <1>11, <1>12, <1>13

LEMMA TypedNopFill == ASSUME Typed, NopFill PROVE Typed'
<1>1. PICK c \in Conn, bytes \in Seq(Element) : LinkIs(c) /\ Filled(bytes) /\ Len(bytes) <= Sector
  BY NopFillIs
<1>2. socket' \in [Fd -> Conn]
  BY <1>1, LinkIsTyped DEF Typed
<1>3. pos \in Nat /\ want \in Nat /\ offset \in NoOffset .. Sector - 1
  BY DEF Typed, TypeOK
<1>4. /\ pc' \in {"fill", "ready"}
      /\ buf' = bytes /\ buf_pos' \in 0 .. Len(bytes)
      /\ pos' \in Nat /\ want' \in Nat /\ eof' \in BOOLEAN
      /\ offset' \in NoOffset .. Sector - 1
      /\ done' \in Seq(Element) /\ Len(done') <= Sector
  BY <1>1, <1>3, FilledTyped
<1>5. buffer' \in Seq(Element) /\ buffer_pos' \in 0 .. Len(buffer') /\ buffer_pos' = 0
      /\ Len(buffer') <= BodySize
  BY NopFillIs, Consts
<1>6. UNCHANGED <<opened, fd, metapos>>
  BY DEF NopFill
<1> QED
  BY <1>1, <1>2, <1>4, <1>5, <1>6 DEF Typed, TypeOK, Conn, opened

LEMMA TypedIcyFill == ASSUME Typed, IcyFill PROVE Typed'
<1> DEFINE block == Least(MetaInt - metapos, Sector - Len(done))
<1>1. PICK r \in MyRead(block, buffer_pos, Link) :
        /\ LinkIs(r.from)
        /\ buffer_pos' = r.pos
        /\ metapos' = metapos + Len(r.got)
        /\ IF Len(r.got) = block /\ Len(done \o r.got) < Sector
           THEN pc' = "meta" /\ done' = done \o r.got /\ UNCHANGED <<stream, want>>
           ELSE Filled(done \o r.got)
  BY DEF IcyFill
<1>2. /\ metapos \in 0 .. MetaInt /\ done \in Seq(Element) /\ Len(done) <= Sector
      /\ Len(done) \in Nat /\ MetaInt \in Nat /\ Sector \in Nat /\ pos \in Nat
      /\ want \in Nat /\ offset \in NoOffset .. Sector - 1
  BY Consts DEF Typed, TypeOK
<1>3. block \in Nat /\ block <= MetaInt - metapos /\ block <= Sector - Len(done)
  BY <1>2 DEF Least
<1> HIDE DEF block
<1>4. /\ r.pos \in 0 .. Len(buffer) /\ r.from \in Conn
      /\ r.got \in Seq(Element) /\ Len(r.got) <= block /\ Len(r.got) \in Nat
  <2>1. buffer \in Seq(Element) /\ buffer_pos \in 0 .. Len(buffer) /\ Link \in Conn
    BY LinkTyped DEF Typed, TypeOK
  <2>2. /\ r.pos \in 0 .. Len(buffer) /\ r.from \in Conn
        /\ r.got \in Seq(Element) /\ Len(r.got) <= block
    BY <1>1, <1>3, <2>1, MyReadIs
  <2> QED
    BY <2>2
<1>5. /\ done \o r.got \in Seq(Element)
      /\ Len(done \o r.got) = Len(done) + Len(r.got)
  BY <1>2, <1>4, ConcatProperties
<1>6. Len(done \o r.got) <= Sector /\ metapos' \in 0 .. MetaInt
  BY <1>1, <1>2, <1>3, <1>4, <1>5
<1>7. socket' \in [Fd -> Conn]
  BY <1>1, <1>4, LinkIsTyped DEF Typed
<1>8. UNCHANGED <<opened, fd, buffer>> /\ icy
  BY DEF IcyFill
<1>9. buffer_pos' \in 0 .. Len(buffer)
  BY <1>1, <1>4
<1>10. CASE Filled(done \o r.got)
  <2>1. /\ pc' \in {"fill", "ready"}
        /\ buf' = done \o r.got /\ buf_pos' \in 0 .. Len(done \o r.got)
        /\ pos' \in Nat /\ want' \in Nat /\ eof' \in BOOLEAN
        /\ offset' \in NoOffset .. Sector - 1
        /\ done' \in Seq(Element) /\ Len(done') <= Sector
    BY <1>2, <1>5, <1>6, <1>10, FilledTyped
  <2> QED
    BY <1>5, <1>6, <1>7, <1>8, <1>9, <2>1 DEF Typed, TypeOK, Conn, opened
<1>11. CASE pc' = "meta" /\ done' = done \o r.got /\ UNCHANGED <<stream, want>>
  BY <1>5, <1>6, <1>7, <1>8, <1>9, <1>11 DEF Typed, TypeOK, Conn, opened, stream
<1> QED
  BY <1>1, <1>10, <1>11

LEMMA TypedIcyMeta == ASSUME Typed, IcyMeta PROVE Typed'
<1>1. PICK l \in MyRead(1, buffer_pos, Link) :
        \E m \in MyRead(IF l.got = <<>> THEN 0 ELSE l.got[1][2], l.pos, l.from) :
          LinkIs(m.from) /\ buffer_pos' = m.pos
  BY DEF IcyMeta
<1> DEFINE n == IF l.got = <<>> THEN 0 ELSE l.got[1][2]
<1>2. PICK m \in MyRead(n, l.pos, l.from) : LinkIs(m.from) /\ buffer_pos' = m.pos
  BY <1>1
<1>3. buffer \in Seq(Element) /\ buffer_pos \in 0 .. Len(buffer) /\ Link \in Conn
  BY LinkTyped DEF Typed, TypeOK
<1>4. l.pos \in 0 .. Len(buffer) /\ l.from \in Conn /\ l.got \in Seq(Element)
  BY <1>3, MyReadIs
<1>5. n \in Nat
  <2>1. CASE l.got # <<>>
    <3>1. l.got[1] \in Element
      BY <1>4, <2>1
    <3> QED
      BY <2>1, <3>1 DEF Element
  <2> QED
    BY <2>1
<1> HIDE DEF n
<1>6. m.pos \in 0 .. Len(buffer) /\ m.from \in Conn
  BY <1>2, <1>3, <1>4, <1>5, MyReadIs
<1>7. socket' \in [Fd -> Conn] /\ buffer_pos' \in 0 .. Len(buffer)
  BY <1>2, <1>6, LinkIsTyped DEF Typed
<1>8. metapos' \in 0 .. MetaInt /\ icy
  BY Consts DEF IcyMeta, Typed
<1> QED
  BY <1>7, <1>8 DEF IcyMeta, Typed, TypeOK, Conn, opened, stream

LEMMA SeekFillsTyped ==
  ASSUME pos' \in Nat, NEW p \in Nat, NEW o \in 0 .. Sector - 1,
         SeekFills(p, o) \/ SeekReturns
  PROVE  pc' \in {"ready", "fill"} /\ offset' \in NoOffset .. Sector - 1 /\ want' \in Nat
  BY Consts DEF SeekFills, SeekReturns, NoOffset

LEMMA HttpSeekTyped ==
  ASSUME Typed, ~icy, NEW p \in 0 .. Size, NEW q \in Nat, NEW o \in 0 .. Sector - 1,
         HttpSeek(p, q, o)
  PROVE  /\ socket' \in [Fd -> Conn] /\ fd' \in 0 .. MaxFd
         /\ buffer' \in Seq(Element) /\ Len(buffer') <= BodySize
         /\ pc' \in {"ready", "fill"} /\ pos' \in Nat /\ want' \in Nat
         /\ offset' \in NoOffset .. Sector - 1
<1>1. PICK r \in Requested(Close(socket, fd)) : HttpSeekFails(r, p, q) \/ HttpSeekEnds(r, p, o)
  BY DEF HttpSeek
<1>2. /\ r.socket \in [Fd -> Conn]
      /\ r.fd = 0 \/ r.fd \in Fd
      /\ r.fd \in 0 .. MaxFd
  BY LinkTyped, CloseTyped, RequestedTyped DEF Typed
<1>3. /\ fd \in 0 .. MaxFd /\ buffer \in Seq(Element) /\ Len(buffer) <= BodySize
      /\ Size \in Nat /\ BodySize \in Nat /\ p \in Nat /\ p <= Size
  BY Consts DEF Typed, TypeOK
<1>4. \A k \in 0 .. Size : From(Plain, k) \in Seq(Element)
  BY Consts, PlainSeq, Rest
<1>5. CASE HttpSeekFails(r, p, q)
  <2>1. socket' \in [Fd -> Conn]
    BY <1>2, <1>4, <1>5, NoResponseTyped DEF HttpSeekFails
  <2>2. pos' \in Nat /\ SeekReturns
    BY <1>5 DEF HttpSeekFails
  <2> QED
    BY <1>3, <1>5, <2>1, <2>2, SeekFillsTyped DEF HttpSeekFails
<1>6. CASE HttpSeekEnds(r, p, o)
  <2>1. /\ pc' \in {"ready", "fill"} /\ pos' \in Nat /\ want' \in Nat
        /\ offset' \in NoOffset .. Sector - 1
    <3>1. pos' \in Nat /\ p + o \in Nat /\ SeekFills(p + o, o)
      BY <1>3, <1>6, Consts DEF HttpSeekEnds
    <3> QED
      BY <3>1, SeekFillsTyped
  <2>2. CASE fd' = 0 /\ socket' = Close(r.socket, r.fd) /\ UNCHANGED buffer
    <3>1. socket' \in [Fd -> Conn] /\ fd' \in 0 .. MaxFd
      BY <1>2, <2>2, CloseTyped, Consts
    <3> QED
      BY <1>3, <2>1, <2>2, <3>1
  <2>3. CASE /\ p < Size /\ fd' = r.fd
             /\ \E k \in 0 .. Least(BodySize, Size - p) :
                  /\ buffer' = IF k = 0 THEN buffer ELSE SubSeq(Plain, p + 1, p + k)
                  /\ socket' = [r.socket EXCEPT ![r.fd] = Connected(From(Plain, p + k))]
    <3>1. PICK k \in 0 .. Least(BodySize, Size - p) :
            /\ buffer' = IF k = 0 THEN buffer ELSE SubSeq(Plain, p + 1, p + k)
            /\ socket' = [r.socket EXCEPT ![r.fd] = Connected(From(Plain, p + k))]
      BY <2>3
    <3>2. k \in Nat /\ k <= BodySize /\ p + k \in 0 .. Size
      BY <1>3, <2>3 DEF Least
    <3>3. SubSeq(Plain, p + 1, p + k) \in Seq(Element) /\ Len(SubSeq(Plain, p + 1, p + k)) = k
      <4>1. p + k <= Len(Plain) /\ Plain \in Seq(Element)
        BY <1>3, <3>2, PlainSeq
      <4> QED
        BY <1>3, <3>2, <4>1, Slice
    <3>4. buffer' \in Seq(Element) /\ Len(buffer') <= BodySize
      BY <1>3, <3>1, <3>2, <3>3
    <3>5. Connected(From(Plain, p + k)) \in Conn
      BY <1>4, <3>2, ConnIs
    <3>6. socket' \in [Fd -> Conn]
      BY <1>2, <3>1, <3>5
    <3> QED
      BY <1>2, <2>1, <2>3, <3>4, <3>6
  <2> QED
    BY <1>6, <2>2, <2>3 DEF HttpSeekEnds
<1> QED
  BY <1>1, <1>5, <1>6

LEMMA SeekLongTyped ==
  ASSUME Typed, NEW p \in 0 .. Size, NEW q \in Nat, SeekLong(p, q)
  PROVE  /\ buf' = <<>> /\ buf_pos' = 0
         /\ socket' \in [Fd -> Conn] /\ fd' \in 0 .. MaxFd
         /\ buffer' = buffer \/ (~icy /\ buffer' \in Seq(Element) /\ Len(buffer') <= BodySize)
         /\ pc' \in {"ready", "fill"} /\ pos' \in Nat /\ want' \in Nat
         /\ offset' \in NoOffset .. Sector - 1
<1>1. PICK newpos \in {n \in 0 .. p : n % Sector = 0 /\ p < n + Sector} :
        LET stays == newpos # 0 /\ newpos = q IN
          /\ buf' = <<>> /\ buf_pos' = 0
          /\ \/ /\ stays \/ icy
                /\ pos' = q /\ SeekFills(p, p - newpos)
                /\ UNCHANGED <<fd, socket, buffer>>
             \/ /\ ~stays /\ seekable
                /\ HttpSeek(newpos, q, p - newpos)
             \/ /\ ~stays /\ ~seekable /\ ~icy
                /\ pos' = q /\ SeekReturns
                /\ UNCHANGED <<fd, socket, buffer>>
  BY DEF SeekLong
<1>2. newpos \in 0 .. Size /\ p - newpos \in 0 .. Sector - 1 /\ p \in Nat
  BY <1>1, Consts
<1>3. CASE UNCHANGED <<fd, socket, buffer>> /\ pos' = q /\ (SeekFills(p, p - newpos) \/ SeekReturns)
  BY <1>1, <1>2, <1>3, LinkTyped, SeekFillsTyped DEF Typed
<1>4. CASE seekable /\ HttpSeek(newpos, q, p - newpos)
  <2>1. ~icy
    BY <1>4 DEF Typed
  <2> QED
    BY <1>1, <1>2, <1>4, <2>1, HttpSeekTyped
<1> QED
  BY <1>1, <1>3, <1>4

LEMMA TypedSeek == ASSUME Typed, Seek PROVE Typed'
<1>1. PICK p \in 0 .. Size, reset \in BOOLEAN :
        /\ eof' = (eof /\ ~reset)
        /\ LET q == IF eof /\ reset THEN 0 ELSE pos IN
             IF p < q /\ p >= q - Len(buf)
             THEN /\ buf_pos' = p - (q - Len(buf))
                  /\ want' = p
                  /\ UNCHANGED <<pc, fd, socket, buffer, buf, pos, offset>>
             ELSE SeekLong(p, q)
  BY DEF Seek
<1> DEFINE q == IF eof /\ reset THEN 0 ELSE pos
<1>2. /\ pos \in Nat /\ q \in Nat /\ p \in Nat /\ eof' \in BOOLEAN
      /\ pc = "ready" /\ UNCHANGED <<opened, buffer_pos, metapos, done>>
      /\ buf \in Seq(Element) /\ Len(buf) \in Nat
  <2>1. pos \in Nat /\ eof \in BOOLEAN /\ buf \in Seq(Element) /\ Size \in Nat
    BY Consts DEF Typed, TypeOK
  <2>2. pc = "ready" /\ UNCHANGED <<opened, buffer_pos, metapos, done>>
    BY DEF Seek
  <2> QED
    BY <1>1, <2>1, <2>2
<1>3. CASE /\ p < q /\ p >= q - Len(buf)
           /\ buf_pos' = p - (q - Len(buf))
           /\ want' = p
           /\ UNCHANGED <<pc, fd, socket, buffer, buf, pos, offset>>
  <2>1. buf_pos' \in 0 .. Len(buf)
    <3> HIDE DEF q
    <3> QED
      BY <1>2, <1>3
  <2> QED
    BY <1>2, <1>3, <2>1 DEF Typed, TypeOK, opened
<1>4. CASE SeekLong(p, q)
  <2>1. /\ buf' = <<>> /\ buf_pos' = 0
        /\ socket' \in [Fd -> Conn] /\ fd' \in 0 .. MaxFd
        /\ buffer' = buffer \/ (~icy /\ buffer' \in Seq(Element) /\ Len(buffer') <= BodySize)
        /\ pc' \in {"ready", "fill"} /\ pos' \in Nat /\ want' \in Nat
        /\ offset' \in NoOffset .. Sector - 1
    <3> HIDE DEF q
    <3> QED
      BY <1>2, <1>4, SeekLongTyped
  <2>2. buf' \in Seq(Element) /\ Len(buf') <= Sector /\ buf_pos' \in 0 .. Len(buf')
    BY <2>1, Consts
  <2>3. buffer' \in Seq(Element) /\ buffer_pos' \in 0 .. Len(buffer')
        /\ (~icy => buffer_pos' = 0 /\ Len(buffer') <= BodySize)
    <3>1. /\ buffer \in Seq(Element) /\ buffer_pos \in 0 .. Len(buffer)
          /\ ~icy => buffer_pos = 0 /\ Len(buffer) <= BodySize
      BY DEF Typed, TypeOK
    <3>2. buffer_pos' = buffer_pos
      BY <1>2
    <3>3. CASE buffer' = buffer
      BY <3>1, <3>2, <3>3
    <3>4. CASE ~icy /\ buffer' \in Seq(Element) /\ Len(buffer') <= BodySize
      BY <3>1, <3>2, <3>4
    <3> QED
      BY <2>1, <3>3, <3>4
  <2> QED
    BY <1>2, <2>1, <2>2, <2>3 DEF Typed, TypeOK, Conn, opened
<1> QED
  BY <1>1, <1>3, <1>4

LEMMA TypedStutters == ASSUME Typed, UNCHANGED vars PROVE Typed'
  BY DEF vars, opened, unread, stream, Typed, TypeOK

LEMMA TypedStep == Typed /\ [Next]_vars => Typed'
<1> SUFFICES ASSUME Typed, [Next]_vars PROVE Typed'
  OBVIOUS
<1>1. CASE Working
  BY <1>1, TypedRequest, TypedRefused, TypedRedirected, TypedOpened, TypedNopFill,
     TypedIcyFill, TypedIcyMeta DEF Working
<1>2. CASE Take \/ Fill \/ Seek \/ CloseStream
  BY <1>2, TypedTake, TypedFill, TypedSeek, TypedClose
<1> QED
  BY <1>1, <1>2, TypedStutters DEF Next

(* Every variable keeps its type, whatever the server sends, however the   *)
(* network cuts it, and whatever seeks the caller makes: no length of a    *)
(* metadata block, and no seek, takes a reader out of its buffers.         *)
THEOREM SpecTypeOK == Spec => []TypeOK
<1>1. Typed => TypeOK
  BY DEF Typed
<1> QED
  BY <1>1, TypedInit, TypedStep, PTL DEF Spec

-----------------------------------------------------------------------------
(* One connection at most.                                                 *)

LEMMA OneThroughLink ==
  ASSUME Typed, OneConnection, NEW c, LinkIs(c), fd' = fd, pc' \notin {"failed", "closed"}
  PROVE  OneConnection'
<1>1. \A n \in Fd : n # fd => socket'[n] = socket[n]
  BY LinkTyped DEF Typed, LinkIs
<1> QED
  BY <1>1 DEF OneConnection

LEMMA NoneAfterClose ==
  ASSUME Typed, OneConnection
  PROVE  \A n \in Fd : Close(socket, fd)[n].is # "connected"
  BY LinkTyped, CloseTyped, ConnIs DEF Typed, OneConnection

LEMMA OneRequested ==
  ASSUME Typed, OneConnection, NEW r \in Requested(Close(socket, fd))
  PROVE  /\ r.socket \in [Fd -> Conn]
         /\ r.fd = 0 \/ r.fd \in Fd
         /\ \A n \in Fd : r.socket[n].is = "connected" => n = r.fd
  BY NoneAfterClose, LinkTyped, CloseTyped, RequestedTyped DEF Typed

LEMMA OneSeek ==
  ASSUME ~TimesOut, Typed, OneConnection, ~icy,
         NEW p \in 0 .. Size, NEW q \in Nat, NEW o \in Nat, HttpSeek(p, q, o)
  PROVE  \A n \in Fd : socket'[n].is = "connected" => n = fd'
<1>1. PICK r \in Requested(Close(socket, fd)) : HttpSeekFails(r, p, q) \/ HttpSeekEnds(r, p, o)
  BY DEF HttpSeek
<1>2. /\ r.socket \in [Fd -> Conn]
      /\ r.fd = 0 \/ r.fd \in Fd
      /\ \A n \in Fd : r.socket[n].is = "connected" => n = r.fd
  BY <1>1, OneRequested
<1>3. \A n \in Fd : n # 0
  BY DEF Fd
<1>4. CASE HttpSeekFails(r, p, q)
  <2>1. CASE r.fd = 0
    BY <1>2, <1>3, <1>4, <2>1 DEF HttpSeekFails
  <2>2. CASE r.fd # 0
    <3>1. From(Plain, p) \in Seq(Element) /\ socket' \in NoResponse(r.socket, r.fd, From(Plain, p))
      BY <1>4, <2>2, Consts, PlainSeq, Rest DEF HttpSeekFails
    <3>2. \A n \in Fd : socket'[n] = IF n = r.fd THEN Unconnected ELSE r.socket[n]
      BY <1>2, <2>2, <3>1, NoResponseTyped
    <3> QED
      BY <1>2, <3>2, ConnIs
  <2> QED
    BY <2>1, <2>2
<1>5. CASE HttpSeekEnds(r, p, o)
  <2>1. CASE fd' = 0 /\ socket' = Close(r.socket, r.fd)
    BY <1>2, <2>1, CloseTyped, ConnIs
  <2>2. CASE fd' = r.fd /\ \E c : socket' = [r.socket EXCEPT ![r.fd] = c]
    BY <1>2, <2>2
  <2> QED
    BY <1>5, <2>1, <2>2 DEF HttpSeekEnds
<1> QED
  BY <1>1, <1>4, <1>5

LEMMA OneOpening ==
  ASSUME Typed, OneConnection, Request \/ Refused \/ Redirected
  PROVE  OneConnection'
<1>1. \A n \in Fd : n # 0
  BY DEF Fd
<1>2. CASE Request
  <2>1. PICK r \in Requested(Close(socket, fd)) :
          IF r.fd = 0 THEN StartFails(r.socket)
          ELSE pc' = "response" /\ fd' = r.fd /\ socket' = r.socket
    BY <1>2 DEF Request
  <2>2. \A n \in Fd : r.socket[n].is = "connected" => n = r.fd
    BY OneRequested
  <2> QED
    BY <1>1, <2>1, <2>2 DEF StartFails, OneConnection
<1>3. CASE socket' = Close(socket, fd)
  BY <1>3, NoneAfterClose DEF OneConnection
<1>4. CASE pc' = "request" /\ UNCHANGED <<fd, socket>>
  BY <1>4 DEF OneConnection
<1> QED
  BY <1>2, <1>3, <1>4 DEF Refused, Redirected, StartFails

LEMMA OneReading ==
  ASSUME Typed, OneConnection, Opened \/ NopFill \/ IcyFill \/ IcyMeta
  PROVE  OneConnection'
<1>1. CASE Opened
  <2>1. fd' = fd /\ pc' = "ready" /\ \E c : LinkIs(c)
    BY <1>1 DEF Opened
  <2> QED
    BY <2>1, OneThroughLink
<1>2. CASE NopFill
  <2>1. fd' = fd /\ \E c, bytes : LinkIs(c) /\ Filled(bytes)
    BY <1>2, NopFillIs DEF NopFill
  <2>2. pc' \in {"fill", "ready"}
    BY <2>1 DEF Filled
  <2> QED
    BY <2>1, <2>2, OneThroughLink
<1>3. CASE IcyFill
  <2>1. fd' = fd /\ \E c : LinkIs(c)
    BY <1>3 DEF IcyFill
  <2>2. pc' = "meta" \/ \E bytes : Filled(bytes)
    BY <1>3 DEF IcyFill
  <2>3. pc' \in {"meta", "fill", "ready"}
    BY <2>2 DEF Filled
  <2> QED
    BY <2>1, <2>3, OneThroughLink
<1>4. CASE IcyMeta
  <2>1. fd' = fd /\ pc' = "fill" /\ \E c : LinkIs(c)
    BY <1>4 DEF IcyMeta
  <2> QED
    BY <2>1, OneThroughLink
<1> QED
  BY <1>1, <1>2, <1>3, <1>4

LEMMA SeekGoesOn == Seek => pc' \in {"ready", "fill"}
<1>1. \A p, q : SeekLong(p, q) => pc' \in {"ready", "fill"}
  BY DEF SeekLong, HttpSeek, HttpSeekFails, HttpSeekEnds, SeekFills, SeekReturns
<1> QED
  BY <1>1 DEF Seek

LEMMA OneSeeking ==
  ASSUME ~TimesOut, Typed, OneConnection, Seek
  PROVE  OneConnection'
<1>1. PICK p \in 0 .. Size, q \in Nat :
        UNCHANGED <<pc, fd, socket>> \/ SeekLong(p, q)
  <2>1. pos \in Nat
    BY DEF Typed, TypeOK
  <2> QED
    BY <2>1 DEF Seek
<1>2. CASE UNCHANGED <<pc, fd, socket>>
  BY <1>2 DEF OneConnection
<1>3. CASE SeekLong(p, q)
  <2>1. pc' \notin {"failed", "closed"}
    BY <1>3, SeekLongTyped
  <2>2. PICK newpos \in {n \in 0 .. p : n % Sector = 0 /\ p < n + Sector} :
          UNCHANGED <<fd, socket>> \/ (seekable /\ HttpSeek(newpos, q, p - newpos))
    BY <1>3 DEF SeekLong
  <2>3. newpos \in 0 .. Size /\ p - newpos \in Nat
    BY Consts
  <2>4. CASE UNCHANGED <<fd, socket>>
    BY <2>1, <2>4 DEF OneConnection
  <2>5. CASE seekable /\ HttpSeek(newpos, q, p - newpos)
    BY <2>1, <2>3, <2>5, OneSeek DEF Typed, OneConnection
  <2> QED
    BY <2>2, <2>4, <2>5
<1> QED
  BY <1>1, <1>2, <1>3

LEMMA OneOther ==
  ASSUME Typed, OneConnection, Take \/ Fill \/ CloseStream \/ UNCHANGED vars
  PROVE  OneConnection'
<1>1. CASE CloseStream
  BY <1>1, NoneAfterClose DEF CloseStream, OneConnection
<1>2. CASE UNCHANGED <<fd, socket>> /\ (pc' = pc \/ pc' = "fill")
  BY <1>2 DEF OneConnection
<1> QED
  BY <1>1, <1>2 DEF Take, Fill, vars

(* Where no receive times out while the server is alive, a stream never    *)
(* has two connections, whatever redirections and seeks are made, and none *)
(* outlives it: http_seek() closes before it connects, and the paths on    *)
(* which it fails leave only a descriptor the server has hung up on.       *)
THEOREM SpecOneConnection == ASSUME ~TimesOut PROVE Spec => []OneConnection
<1>1. Init => OneConnection
  BY ConnIs DEF Init, OneConnection
<1>2. Typed /\ OneConnection /\ [Next]_vars => OneConnection'
  BY OneOpening, OneReading, OneSeeking, OneOther DEF Next, Working
<1> QED
  BY <1>1, <1>2, TypedInit, TypedStep, PTL DEF Spec

-----------------------------------------------------------------------------
(* The bytes. Right says of a plain stream what everything that still has  *)
(* bytes of it holds: its buffer, what came with the header, and the       *)
(* connection go on from one another, and while any of them has bytes the  *)
(* caller and the stream agree on the position. A reset at the end takes   *)
(* the position to 0, but there is nothing left to be read from there.     *)

Holds(s, p) == \A i \in 1 .. Len(s) : s[i] = Audio(p + i - 1)

Alive == buffer # <<>> \/ buf # <<>> \/ Link.is = "connected"

Ahead == IF pc = "ready" THEN buf_pos - Len(buf) ELSE IF offset = NoOffset THEN 0 ELSE offset

Right ==
  ~icy /\ pc \in {"ready", "fill"} =>
    /\ Holds(buffer, pos)
    /\ Link.is = "connected" => Holds(Link.rest, pos + Len(buffer))
    /\ Len(buf) <= pos /\ Holds(buf, pos - Len(buf))
    /\ eof => buf = <<>> /\ pc = "ready" /\ (Link.is = "connected" => Link.rest = <<>>)
    /\ pc = "ready" => offset = NoOffset /\ (pos > 0 \/ eof => buffer = <<>>)
    /\ ~eof /\ Alive => want = pos + Ahead

LEMMA HoldsFrom ==
  ASSUME NEW s \in Seq(Element), NEW p \in Nat, Holds(s, p), NEW k \in 0 .. Len(s)
  PROVE  From(s, k) \in Seq(Element) /\ Holds(From(s, k), p + k)
<1>1. Len(s) \in Nat
  OBVIOUS
<1>2. /\ From(s, k) \in Seq(Element) /\ Len(From(s, k)) = Len(s) - k
      /\ \A i \in 1 .. Len(s) - k : From(s, k)[i] = s[k + i]
  BY Rest
<1>3. ASSUME NEW i \in 1 .. Len(s) - k
      PROVE  From(s, k)[i] = Audio(p + k + i - 1)
  <2>1. k + i \in 1 .. Len(s) /\ p + (k + i) - 1 = p + k + i - 1
    BY <1>1
  <2>2. s[k + i] = Audio(p + (k + i) - 1)
    BY <2>1 DEF Holds
  <2> QED
    BY <1>2, <2>1, <2>2
<1> QED
  BY <1>2, <1>3 DEF Holds

LEMMA HoldsPlain ==
  ASSUME NEW p \in 0 .. Size, NEW k \in 0 .. Size - p
  PROVE  Holds(SubSeq(Plain, p + 1, p + k), p) /\ Holds(From(Plain, p + k), p + k)
<1>1. Size \in Nat /\ p \in Nat /\ k \in Nat /\ p + k \in 0 .. Size /\ 0 \in Nat
  BY Consts
<1>2. Plain \in Seq(Element) /\ Len(Plain) = Size /\ Holds(Plain, 0)
  BY <1>1, PlainSeq DEF Holds
<1>3. Holds(From(Plain, p + k), p + k)
  BY <1>1, <1>2, HoldsFrom
<1>4. p + k <= Len(Plain)
  BY <1>1, <1>2
<1>5. /\ Len(SubSeq(Plain, p + 1, p + k)) = k
      /\ \A i \in 1 .. k : SubSeq(Plain, p + 1, p + k)[i] = Plain[p + i]
  BY <1>1, <1>2, <1>4, Slice
<1>6. \A i \in 1 .. k : Plain[p + i] = Audio(p + i - 1)
  BY <1>1, PlainSeq
<1> QED
  BY <1>3, <1>5, <1>6 DEF Holds

LEMMA HoldsConcat ==
  ASSUME NEW s \in Seq(Element), NEW t \in Seq(Element), NEW p \in Nat,
         Holds(s, p), Holds(t, p + Len(s)), NEW k \in 0 .. Len(t)
  PROVE  Holds(s \o SubSeq(t, 1, k), p) /\ Len(s \o SubSeq(t, 1, k)) = Len(s) + k
<1>1. Len(s) \in Nat /\ Len(t) \in Nat
  OBVIOUS
<1> DEFINE u == SubSeq(t, 1, k)
<1>2. u \in Seq(Element) /\ Len(u) = k /\ \A i \in 1 .. k : u[i] = t[i]
  BY <1>1, Prefix
<1> HIDE DEF u
<1>3. /\ Len(s \o u) = Len(s) + k
      /\ \A i \in 1 .. Len(s) + k : (s \o u)[i] = IF i <= Len(s) THEN s[i] ELSE u[i - Len(s)]
  BY <1>1, <1>2, ConcatProperties
<1>4. ASSUME NEW i \in 1 .. Len(s) + k
      PROVE  (s \o u)[i] = Audio(p + i - 1)
  <2>1. CASE i <= Len(s)
    BY <1>1, <1>3, <2>1 DEF Holds
  <2>2. CASE i > Len(s)
    <3>1. i - Len(s) \in 1 .. k /\ p + Len(s) + (i - Len(s)) - 1 = p + i - 1
      BY <1>1, <2>2
    <3>2. t[i - Len(s)] = Audio(p + Len(s) + (i - Len(s)) - 1)
      BY <1>1, <3>1 DEF Holds
    <3> QED
      BY <1>1, <1>2, <1>3, <2>2, <3>1, <3>2
  <2>3. i <= Len(s) \/ i > Len(s)
    BY <1>1
  <2> QED
    BY <2>1, <2>2, <2>3
<1> QED
  BY <1>3, <1>4 DEF Holds, u

LEMMA HoldsFromTell ==
  ASSUME Len(buf) \in Nat, buf_pos \in 0 .. Len(buf), pos \in Nat, Holds(buf, pos - Len(buf))
  PROVE  \A i \in buf_pos + 1 .. Len(buf) : buf[i] = Audio(Tell + i - buf_pos - 1)
<1>1. ASSUME NEW i \in buf_pos + 1 .. Len(buf)
      PROVE  buf[i] = Audio(Tell + i - buf_pos - 1)
  <2>1. pos - Len(buf) + i - 1 = Tell + i - buf_pos - 1 /\ i \in 1 .. Len(buf)
    BY DEF Tell
  <2> QED
    BY <2>1 DEF Holds
<1> QED
  BY <1>1

LEMMA RightDelivers == Typed /\ Right => (~icy => Delivers)
<1> SUFFICES ASSUME Typed, Right, ~icy, pc = "ready", buf # <<>>
    PROVE  /\ want = Tell
           /\ \A i \in buf_pos + 1 .. Len(buf) : buf[i] = Audio(Tell + i - buf_pos - 1)
  BY DEF Delivers
<1>1. /\ buf \in Seq(Element) /\ Len(buf) \in Nat /\ buf_pos \in 0 .. Len(buf) /\ pos \in Nat
  BY DEF Typed, TypeOK
<1>2. Holds(buf, pos - Len(buf)) /\ ~eof /\ want = pos + (buf_pos - Len(buf))
  BY DEF Right, Alive, Ahead
<1>3. want = Tell
  BY <1>1, <1>2 DEF Tell
<1> QED
  BY <1>1, <1>2, <1>3, HoldsFromTell

LEMMA RightOpened == ASSUME Typed, Opened PROVE Right'
<1> SUFFICES ASSUME ~icy' PROVE Right'
  BY DEF Right
<1>1. PICK i \in BOOLEAN, s \in BOOLEAN :
        /\ icy' = i
        /\ LET body == IF i THEN IcyBody ELSE Plain IN
             \E k \in 0 .. Least(BodySize, Len(body)) :
               buffer' = SubSeq(body, 1, k) /\ LinkIs(Connected(From(body, k)))
  BY DEF Opened
<1>2. PICK k \in 0 .. Least(BodySize, Len(Plain)) :
        buffer' = SubSeq(Plain, 1, k) /\ LinkIs(Connected(From(Plain, k)))
  BY <1>1
<1>3. Size \in Nat /\ 0 \in 0 .. Size /\ k \in 0 .. Size - 0 /\ k \in Nat
  BY Consts, PlainSeq DEF Least
<1>4. Holds(SubSeq(Plain, 0 + 1, 0 + k), 0) /\ Holds(From(Plain, 0 + k), 0 + k)
  BY <1>3, HoldsPlain
<1>5. 0 + 1 = 1 /\ 0 + k = k
  BY <1>3
<1>6. Holds(SubSeq(Plain, 1, k), 0) /\ Holds(From(Plain, k), k)
  BY <1>4, <1>5
<1>7. Len(buffer') = k /\ From(Plain, k) \in Seq(Element)
  BY <1>2, <1>3, PlainSeq, Prefix, Rest
<1>8. pc' = "ready" /\ fd' = fd /\ fd \in Fd /\ UNCHANGED stream /\ want' = want
  BY LinkTyped DEF Opened, Response, Typed
<1>9. buf' = <<>> /\ buf_pos' = 0 /\ ~eof' /\ pos' = 0 /\ offset' = NoOffset /\ want' = 0
  BY <1>8 DEF Opened, Response, Typed, TypeOK, stream
<1>10. Link'.rest = From(Plain, k)
  <2>1. socket'[fd] = Connected(From(Plain, k)) /\ fd # 0
    BY <1>2, <1>7, <1>8, ConnIs, LinkIsTyped DEF Typed, Fd
  <2> QED
    BY <1>7, <1>8, <2>1, ConnIs DEF Link
<1>11. Holds(buffer', pos') /\ Holds(Link'.rest, pos' + Len(buffer'))
  BY <1>2, <1>3, <1>6, <1>7, <1>9, <1>10
<1>12. Len(buf') = 0 /\ Holds(buf', pos' - Len(buf'))
  BY <1>9 DEF Holds
<1>13. want' = pos' + Ahead'
  <2>1. Ahead' = buf_pos' - Len(buf')
    BY <1>8 DEF Ahead
  <2> QED
    BY <1>9, <1>12, <2>1
<1> QED
  BY <1>8, <1>9, <1>11, <1>12, <1>13 DEF Right

LEMMA RightTake == ASSUME Typed, Right, Take PROVE Right'
<1> SUFFICES ASSUME ~icy PROVE Right'
  BY DEF Take, opened, Right
<1>1. PICK n \in 1 .. Len(buf) - buf_pos : buf_pos' = buf_pos + n /\ want' = want + n
  BY DEF Take
<1>2. /\ pc = "ready" /\ UNCHANGED <<pc, opened, fd, socket, unread, buf, pos, eof, offset>>
      /\ buf_pos < Len(buf)
  BY DEF Take
<1>3. buf_pos \in Nat /\ Len(buf) \in Nat /\ pos \in Nat /\ want \in Nat
  BY DEF Typed, TypeOK
<1>4. Link' = Link /\ (Alive' <=> Alive) /\ buffer' = buffer
  BY <1>2 DEF Link, Alive, unread
<1>5. ~eof /\ Alive => want' = pos' + Ahead'
  <2>1. Ahead = buf_pos - Len(buf) /\ Ahead' = buf_pos' - Len(buf)
    BY <1>2 DEF Ahead
  <2>2. ~eof /\ Alive => want = pos + Ahead
    BY <1>2 DEF Right
  <2> QED
    BY <1>1, <1>2, <1>3, <2>1, <2>2
<1> QED
  BY <1>2, <1>4, <1>5 DEF Right, opened

LEMMA RightFill == ASSUME Typed, Right, Fill PROVE Right'
<1> SUFFICES ASSUME ~icy PROVE Right'
  BY DEF Fill, opened, Right
<1>1. /\ pc = "ready" /\ pc' = "fill" /\ ~eof /\ buf_pos = Len(buf)
      /\ UNCHANGED <<opened, fd, socket, unread, stream, want>>
  BY DEF Fill
<1>2. Link' = Link /\ (Alive' <=> Alive) /\ buffer' = buffer
  BY <1>1 DEF Link, Alive, unread, stream
<1>3. Ahead' = Ahead
  <2>1. offset' = NoOffset /\ Len(buf) \in Nat
    BY <1>1 DEF Right, stream, Typed, TypeOK
  <2>2. Ahead' = 0 /\ Ahead = buf_pos - Len(buf)
    BY <1>1, <2>1 DEF Ahead
  <2> QED
    BY <1>1, <2>1, <2>2
<1> QED
  BY <1>1, <1>2, <1>3 DEF Right, opened, stream

LEMMA RightNopFill == ASSUME ~TimesOut, Typed, Right, NopFill PROVE Right'
<1>1. /\ pc = "fill" /\ ~icy /\ ~icy' /\ UNCHANGED <<opened, fd, metapos>>
      /\ buffer' = <<>> /\ buffer_pos' = 0
  BY NopFillIs DEF NopFill, opened
<1>2. PICK c \in Conn, bytes \in Seq(Element) :
        /\ LinkIs(c) /\ Filled(bytes) /\ Len(bytes) <= Sector
        /\ \/ /\ c.is = "connected" => TimesOut
              /\ Len(bytes) <= Len(buffer)
              /\ \A i \in 1 .. Len(bytes) : bytes[i] = buffer[i]
           \/ /\ Link.is = "connected"
              /\ \E k \in 0 .. Len(Link.rest) :
                   /\ k = 0 => Link.rest = <<>>
                   /\ c = Connected(From(Link.rest, k))
                   /\ bytes = buffer \o SubSeq(Link.rest, 1, k)
  BY NopFillIs
<1>3. /\ pos \in Nat /\ want \in Nat /\ buffer \in Seq(Element) /\ Len(buffer) \in Nat
      /\ Len(bytes) \in Nat /\ Link \in Conn /\ Link.rest \in Seq(Element)
      /\ offset \in NoOffset .. Sector - 1 /\ Sector \in Nat
  BY Consts, LinkTyped DEF Typed, TypeOK, Conn
<1>4. /\ Holds(buffer, pos) /\ ~eof
      /\ Link.is = "connected" => Holds(Link.rest, pos + Len(buffer))
      /\ Alive => want = pos + (IF offset = NoOffset THEN 0 ELSE offset)
  BY <1>1 DEF Right, Ahead
<1>5. pos' = pos + Len(bytes) /\ buf' = bytes /\ (bytes # <<>> => want' = want)
  BY <1>2 DEF Filled
<1>6. Link' = IF fd = 0 THEN Closed ELSE c
  BY <1>1, <1>2, LinkIsTyped, LinkTyped DEF Typed, Link
<1>7. /\ Holds(bytes, pos)
      /\ Link'.is = "connected" => Holds(Link'.rest, pos')
      /\ bytes # <<>> => Alive
      /\ bytes = <<>> /\ Link'.is = "connected" => Link'.rest = <<>>
  <2>1. CASE /\ c.is = "connected" => TimesOut
             /\ Len(bytes) <= Len(buffer)
             /\ \A i \in 1 .. Len(bytes) : bytes[i] = buffer[i]
    <3>1. Holds(bytes, pos)
      BY <1>3, <1>4, <2>1 DEF Holds
    <3>2. Link'.is # "connected"
      BY <1>6, <2>1, ConnIs
    <3>3. bytes # <<>> => buffer # <<>>
      BY <1>3, <2>1
    <3> QED
      BY <3>1, <3>2, <3>3 DEF Alive
  <2>2. ASSUME Link.is = "connected", NEW k \in 0 .. Len(Link.rest),
               k = 0 => Link.rest = <<>>,
               c = Connected(From(Link.rest, k)), bytes = buffer \o SubSeq(Link.rest, 1, k)
        PROVE  /\ Holds(bytes, pos)
               /\ Link'.is = "connected" => Holds(Link'.rest, pos')
               /\ bytes # <<>> => Alive
               /\ bytes = <<>> /\ Link'.is = "connected" => Link'.rest = <<>>
    <3>1. Holds(bytes, pos) /\ Len(bytes) = Len(buffer) + k
      BY <1>3, <1>4, <2>2, HoldsConcat
    <3>2. pos + Len(buffer) \in Nat /\ k \in Nat
      BY <1>3
    <3>3. From(Link.rest, k) \in Seq(Element) /\ Holds(From(Link.rest, k), pos + Len(buffer) + k)
      BY <1>3, <1>4, <2>2, <3>2, HoldsFrom
    <3>4. Link' = c
      BY <1>6, <2>2, LinkTyped DEF Typed, Fd
    <3>5. pos' = pos + Len(buffer) + k
      BY <1>3, <1>5, <3>1, <3>2
    <3>6. bytes = <<>> => Link'.rest = <<>>
      <4>1. ASSUME bytes = <<>> PROVE k = 0 /\ Link.rest = <<>>
        <5>1. Len(bytes) = 0
          BY <4>1
        <5> QED
          BY <1>3, <2>2, <3>1, <3>2, <5>1
      <4>2. ASSUME bytes = <<>> PROVE Len(From(Link.rest, k)) = 0
        <5>1. Len(Link.rest) = 0 /\ k \in 0 .. Len(Link.rest)
          BY <4>1, <4>2
        <5>2. k = 0
          BY <4>1, <4>2
        <5>3. Len(From(Link.rest, k)) = Len(Link.rest) - k
          BY <1>3, <5>1, Rest
        <5> QED
          BY <5>1, <5>2, <5>3
      <4>3. bytes = <<>> => From(Link.rest, k) = <<>>
        BY <3>3, <4>2
      <4> QED
        BY <2>2, <3>3, <3>4, <4>3, ConnIs
    <3> QED
      BY <2>2, <3>1, <3>3, <3>4, <3>5, <3>6, ConnIs DEF Alive
  <2> QED
    BY <1>2, <2>1, <2>2
<1>8. /\ pos' + Len(buffer') = pos' /\ Holds(buffer', pos')
      /\ Len(buf') <= pos' /\ pos' - Len(buf') = pos
  BY <1>1, <1>3, <1>5 DEF Holds
<1>9. /\ pc' \in {"ready", "fill"} /\ (eof' <=> bytes = <<>>)
      /\ eof' => pc' = "ready"
      /\ pc' = "ready" => offset' = NoOffset
  BY <1>2, <1>3 DEF Filled
<1>10. ~eof' => want' = pos' + Ahead'
  <2> SUFFICES ASSUME bytes # <<>> PROVE want' = pos' + Ahead'
    BY <1>9
  <2>1. want' = pos + (IF offset = NoOffset THEN 0 ELSE offset)
    BY <1>4, <1>5, <1>7
  <2>2. CASE offset > Len(bytes)
    <3>1. pc' = "fill" /\ offset' = offset - Len(bytes) /\ offset # NoOffset
      BY <1>2, <1>3, <2>2 DEF Filled, NoOffset
    <3>2. Ahead' = offset' /\ offset' # NoOffset
      BY <1>3, <2>2, <3>1 DEF Ahead, NoOffset
    <3> QED
      BY <1>3, <1>5, <2>1, <3>1, <3>2 DEF NoOffset
  <2>3. CASE ~(offset > Len(bytes))
    <3>1. pc' = "ready" /\ buf_pos' = IF offset = NoOffset THEN 0 ELSE offset
      BY <1>2, <2>3 DEF Filled
    <3>2. Ahead' = buf_pos' - Len(bytes)
      BY <1>5, <3>1 DEF Ahead
    <3>3. want' = pos + buf_pos'
      BY <2>1, <3>1
    <3>4. buf_pos' \in Int
      BY <1>3, <3>1
    <3> QED
      BY <1>3, <1>5, <3>2, <3>3, <3>4
  <2> QED
    BY <2>2, <2>3
<1> QED
  BY <1>1, <1>5, <1>7, <1>8, <1>9, <1>10 DEF Right

LEMMA RightHttpSeek ==
  ASSUME ~TimesOut, Typed, OneConnection, ~icy, buffer = <<>>, ~eof',
         NEW p \in 0 .. Size, NEW q \in Nat, NEW o \in 0 .. Sector - 1, HttpSeek(p, q, o)
  PROVE  \/ /\ pc' = "ready" /\ offset' = NoOffset /\ pos' = q
            /\ buffer' = <<>> /\ Link'.is # "connected"
         \/ /\ pc' = "fill" /\ offset' = o /\ want' = p + o
            /\ pos' = p /\ Holds(buffer', p)
            /\ Link'.is = "connected" => Holds(Link'.rest, p + Len(buffer'))
<1>1. PICK r \in Requested(Close(socket, fd)) : HttpSeekFails(r, p, q) \/ HttpSeekEnds(r, p, o)
  BY DEF HttpSeek
<1>2. /\ r.socket \in [Fd -> Conn]
      /\ r.fd = 0 \/ r.fd \in Fd
      /\ \A n \in Fd : r.socket[n].is = "connected" => n = r.fd
  BY <1>1, OneRequested
<1>3. (\A n \in Fd : n # 0) /\ (fd = 0 \/ fd \in Fd) /\ Closed.is # "connected" /\ Size \in Nat
  BY LinkTyped, ConnIs, Consts DEF Typed, Fd
<1>4. CASE HttpSeekFails(r, p, q)
  <2>1. \A n \in Fd : socket'[n].is # "connected"
    <3>1. CASE r.fd = 0
      BY <1>2, <1>3, <1>4, <3>1 DEF HttpSeekFails
    <3>2. CASE r.fd # 0
      <4>1. From(Plain, p) \in Seq(Element) /\ socket' \in NoResponse(r.socket, r.fd, From(Plain, p))
        BY <1>4, <3>2, Consts, PlainSeq, Rest DEF HttpSeekFails
      <4>2. \A n \in Fd : socket'[n] = IF n = r.fd THEN Unconnected ELSE r.socket[n]
        BY <1>2, <3>2, <4>1, NoResponseTyped
      <4> QED
        BY <1>2, <4>2, ConnIs
    <3> QED
      BY <3>1, <3>2
  <2>2. Link'.is # "connected"
    BY <1>3, <1>4, <2>1 DEF HttpSeekFails, Link
  <2> QED
    BY <1>4, <2>2 DEF HttpSeekFails, SeekReturns
<1>5. CASE HttpSeekEnds(r, p, o)
  <2>1. pc' = "fill" /\ offset' = o /\ want' = p + o /\ pos' = p
    BY <1>5 DEF HttpSeekEnds, SeekFills
  <2>2. CASE fd' = 0 /\ UNCHANGED buffer
    BY <1>3, <2>1, <2>2 DEF Link, Holds
  <2>3. ASSUME p < Size, fd' = r.fd, r.fd # 0, NEW k \in 0 .. Least(BodySize, Size - p),
               buffer' = IF k = 0 THEN buffer ELSE SubSeq(Plain, p + 1, p + k),
               socket' = [r.socket EXCEPT ![r.fd] = Connected(From(Plain, p + k))]
        PROVE  Holds(buffer', p) /\ Holds(Link'.rest, p + Len(buffer'))
    <3>1. k \in 0 .. Size - p /\ p + k \in 0 .. Size
      BY <1>3, <2>3, Consts DEF Least
    <3>2. Holds(SubSeq(Plain, p + 1, p + k), p) /\ Holds(From(Plain, p + k), p + k)
      BY <3>1, HoldsPlain
    <3>3. /\ From(Plain, p + k) \in Seq(Element)
          /\ Len(SubSeq(Plain, p + 1, p + k)) = k
      <4>1. /\ p \in Nat /\ k \in Nat /\ Plain \in Seq(Element)
            /\ p + k <= Len(Plain) /\ p + k \in 0 .. Len(Plain)
        BY <1>3, <3>1, PlainSeq
      <4> QED
        BY <4>1, Slice, Rest
    <3>4. Link'.rest = From(Plain, p + k)
      BY <1>2, <2>3, <3>3, ConnIs DEF Link
    <3>5. Holds(buffer', p) /\ Len(buffer') = k
      <4>1. CASE k = 0
        BY <2>3, <4>1 DEF Holds
      <4>2. CASE k # 0
        BY <2>3, <3>2, <3>3, <4>2
      <4> QED
        BY <4>1, <4>2
    <3> QED
      BY <3>2, <3>4, <3>5
  <2> QED
    BY <1>5, <2>1, <2>2, <2>3 DEF HttpSeekEnds
<1> QED
  BY <1>1, <1>4, <1>5

LEMMA RightSeek ==
  ASSUME ~TimesOut, Careless = {}, Typed, OneConnection, Right, Seek
  PROVE  Right'
<1> SUFFICES ASSUME ~icy PROVE Right'
  BY DEF Seek, opened, Right
<1>1. PICK p \in 0 .. Size, reset \in BOOLEAN :
        /\ reset \/ ~eof
        /\ eof' = (eof /\ ~reset)
        /\ LET q == IF eof /\ reset THEN 0 ELSE pos IN
             IF p < q /\ p >= q - Len(buf)
             THEN /\ buf_pos' = p - (q - Len(buf))
                  /\ want' = p
                  /\ UNCHANGED <<pc, fd, socket, buffer, buf, pos, offset>>
             ELSE SeekLong(p, q)
  BY DEF Seek
<1>2. /\ pc = "ready" /\ ~icy' /\ (pos > 0 \/ eof)
  BY DEF Seek, opened
<1>3. /\ buffer = <<>> /\ Holds(buffer, pos) /\ (eof => buf = <<>>)
      /\ Link.is = "connected" => Holds(Link.rest, pos + Len(buffer))
      /\ eof /\ Link.is = "connected" => Link.rest = <<>>
  BY <1>2 DEF Right
<1>4. ~eof'
  BY <1>1
<1>5. pos \in Nat /\ p \in Nat /\ Len(buf) \in Nat
  BY Consts DEF Typed, TypeOK
<1> DEFINE q == IF eof /\ reset THEN 0 ELSE pos
<1>6. q \in Nat /\ (q # 0 => q = pos) /\ (~eof => q = pos)
  BY <1>5
<1>7. CASE /\ p < q /\ p >= q - Len(buf)
           /\ buf_pos' = p - (q - Len(buf))
           /\ want' = p
           /\ UNCHANGED <<pc, fd, socket, buffer, buf, pos, offset>>
  <2>1. q = pos /\ buf_pos' = p - (pos - Len(buf))
    <3>1. q # 0
      BY <1>5, <1>6, <1>7
    <3> QED
      BY <1>6, <1>7, <3>1
  <2>2. Ahead' = buf_pos' - Len(buf)
    BY <1>2, <1>7 DEF Ahead
  <2>3. want' = pos' + Ahead'
    BY <1>1, <1>5, <1>7, <2>1, <2>2
  <2>4. Link' = Link
    BY <1>7 DEF Link
  <2> QED
    BY <1>2, <1>4, <1>7, <2>3, <2>4 DEF Right
<1>8. CASE SeekLong(p, q)
  <2>0. (eof /\ q = 0) \/ q = pos
    OBVIOUS
  <2> HIDE DEF q
  <2>1. PICK newpos \in {n \in 0 .. p : n % Sector = 0 /\ p < n + Sector} :
          LET stays == newpos # 0 /\ newpos = q IN
            /\ buf' = <<>> /\ buf_pos' = 0
            /\ \/ /\ stays
                  /\ pos' = q /\ SeekFills(p, p - newpos)
                  /\ UNCHANGED <<fd, socket, buffer>>
               \/ HttpSeek(newpos, q, p - newpos)
               \/ /\ pos' = q /\ SeekReturns
                  /\ UNCHANGED <<fd, socket, buffer>>
    BY <1>8 DEF SeekLong
  <2>2. newpos \in 0 .. Size /\ newpos \in Nat /\ p - newpos \in 0 .. Sector - 1 /\ p - newpos # NoOffset
    BY <1>5, Consts DEF NoOffset
  <2>3. Len(buf') = 0 /\ buf' = <<>> /\ buf_pos' = 0 /\ pos' - Len(buf') = pos' - 0
    BY <2>1
  <2>4. CASE /\ newpos # 0 /\ newpos = q
             /\ pos' = q /\ SeekFills(p, p - newpos)
             /\ UNCHANGED <<fd, socket, buffer>>
    <3>1. /\ pc' = "fill" /\ offset' = p - newpos /\ want' = p
          /\ pos' = pos /\ newpos = pos
      BY <1>4, <1>6, <2>4 DEF SeekFills
    <3>2. Link' = Link /\ Ahead' = p - newpos
      BY <2>2, <2>4, <3>1 DEF Link, Ahead
    <3>3. want' = pos' + Ahead'
      BY <1>5, <3>1, <3>2
    <3>4. Holds(buf', pos' - Len(buf')) /\ Len(buf') <= pos'
      BY <1>5, <2>3, <3>1 DEF Holds
    <3> QED
      BY <1>2, <1>3, <1>4, <2>4, <3>1, <3>2, <3>3, <3>4 DEF Right
  <2>6. CASE pos' = q /\ SeekReturns /\ UNCHANGED <<fd, socket, buffer>>
    <3>1. pc' = "ready" /\ offset' = NoOffset /\ want' = q /\ Link' = Link
      BY <2>6 DEF SeekReturns, Link
    <3>2. want' = pos' + Ahead'
      <4>1. Ahead' = 0
        BY <2>3, <3>1 DEF Ahead
      <4> QED
        BY <1>6, <2>6, <3>1, <4>1
    <3>3. Holds(buf', pos' - Len(buf')) /\ Len(buf') <= pos' /\ Holds(buffer', pos')
      BY <1>3, <1>6, <2>3, <2>6 DEF Holds
    <3>4. Link'.is = "connected" => Holds(Link'.rest, pos' + Len(buffer'))
      <4>1. CASE q = pos
        BY <1>3, <2>6, <3>1, <4>1
      <4>2. CASE eof
        BY <1>3, <3>1, <4>2 DEF Holds
      <4> QED
        BY <2>0, <4>1, <4>2
    <3> QED
      BY <1>2, <1>3, <1>4, <2>3, <2>6, <3>1, <3>2, <3>3, <3>4 DEF Right
  <2>5. CASE HttpSeek(newpos, q, p - newpos)
    <3>1. CASE /\ pc' = "ready" /\ offset' = NoOffset /\ pos' = q
               /\ buffer' = <<>> /\ Link'.is # "connected"
      <4>1. ~Alive'
        BY <2>3, <3>1 DEF Alive
      <4>2. Holds(buf', pos' - Len(buf')) /\ Len(buf') <= pos' /\ Holds(buffer', pos')
        BY <1>6, <2>3, <3>1 DEF Holds
      <4> QED
        BY <1>4, <3>1, <4>1, <4>2 DEF Right
    <3>2. CASE /\ pc' = "fill" /\ offset' = p - newpos /\ want' = newpos + (p - newpos)
               /\ pos' = newpos /\ Holds(buffer', newpos)
               /\ Link'.is = "connected" => Holds(Link'.rest, newpos + Len(buffer'))
      <4>1. want' = pos' + Ahead'
        <5>1. Ahead' = p - newpos
          BY <2>2, <3>2 DEF Ahead
        <5> QED
          BY <3>2, <5>1
      <4>2. Holds(buf', pos' - Len(buf')) /\ Len(buf') <= pos'
        BY <2>2, <2>3, <3>2 DEF Holds
      <4> QED
        BY <1>4, <3>2, <4>1, <4>2 DEF Right
    <3> QED
      BY <1>3, <1>4, <1>6, <2>2, <2>5, <3>1, <3>2, RightHttpSeek
  <2> QED
    BY <2>1, <2>4, <2>5, <2>6
<1> QED
  BY <1>1, <1>7, <1>8

LEMMA RightOther ==
  ASSUME Typed, Right,
         \/ Request \/ Refused \/ Redirected \/ IcyFill \/ IcyMeta
         \/ CloseStream \/ UNCHANGED vars
  PROVE  Right'
<1>1. CASE pc' \notin {"ready", "fill"} \/ icy'
  BY <1>1 DEF Right
<1>2. CASE UNCHANGED vars
  BY <1>2 DEF vars, opened, unread, stream, Right, Link, Alive, Ahead
<1> QED
  BY <1>1, <1>2 DEF Request, Refused, Redirected, IcyFill, IcyMeta, CloseStream, StartFails,
     opened, Typed

-----------------------------------------------------------------------------
(* The same of an ICY stream. What is still to come, in the buffer from p  *)
(* on and then from connection c, is the body from at on, up to where the  *)
(* server stopped; or there is nothing left.                               *)

Sync(at, p, c) ==
  LET left == Len(buffer) - p IN
    /\ at + left <= Len(IcyBody)
    /\ \A i \in 1 .. left : buffer[p + i] = IcyBody[at + i]
    /\ c.is = "connected" =>
         /\ at + left + Len(c.rest) <= Len(IcyBody)
         /\ \A i \in 1 .. Len(c.rest) : c.rest[i] = IcyBody[at + left + i]

Dry(p, c) == p = Len(buffer) /\ (c.is = "connected" => c.rest = <<>>)

(* The reader is in the k-th block, where metapos says.                    *)
InBlock(start, k) ==
  /\ pos + Len(done) = (k - 1) * MetaInt + metapos
  /\ Sync(start[k] + metapos, buffer_pos, Link)
  /\ pc = "meta" => metapos = MetaInt

RightIcy(start) ==
  /\ pc \in {"request", "response"} => metapos = 0 /\ done = <<>>
  /\ icy /\ pc \in {"ready", "fill", "meta"} =>
       /\ Holds(done, pos) /\ (pc = "ready" => done = <<>>)
       /\ Len(buf) <= pos /\ Holds(buf, pos - Len(buf))
       /\ eof => buf = <<>> /\ pc = "ready" /\ Dry(buffer_pos, Link)
       /\ Dry(buffer_pos, Link) \/ \E k \in DOMAIN start : InBlock(start, k)

LEMMA SyncReads ==
  ASSUME ~TimesOut, buffer \in Seq(Element), NEW n \in Nat, NEW p \in 0 .. Len(buffer),
         NEW c \in Conn, NEW at \in Nat, Sync(at, p, c), NEW r \in MyRead(n, p, c)
  PROVE  /\ \A i \in 1 .. Len(r.got) : at + i <= Len(IcyBody) /\ r.got[i] = IcyBody[at + i]
         /\ Dry(r.pos, r.from) \/ (Len(r.got) = n /\ Sync(at + n, r.pos, r.from))
<1>1. PICK left \in Nat, k \in Nat : Takes(r, n, p, c, left, k)
  BY MyReadTakes
<1>2. /\ c.rest \in Seq(Element) /\ Len(c.rest) \in Nat /\ Len(buffer) \in Nat /\ p \in Nat
      /\ Len(IcyBody) \in Nat
  BY Consts DEF Conn
<1>3. /\ left + k <= n /\ p + left <= Len(buffer) /\ k <= Len(c.rest)
      /\ left = n \/ p + left = Len(buffer)
      /\ r.pos = p + left /\ Len(r.got) = left + k
      /\ \A i \in 1 .. left : r.got[i] = buffer[p + i]
      /\ \A i \in 1 .. k : r.got[left + i] = c.rest[i]
  BY <1>1 DEF Takes
<1>4. \/ c.is # "connected" /\ k = 0 /\ r.from = c
      \/ c.is = "connected" /\ left + k < n /\ r.from = Unconnected
      \/ /\ c.is = "connected" /\ r.from = Connected(From(c.rest, k))
         /\ left + k = n \/ k = Len(c.rest)
  BY <1>1 DEF Takes
<1> DEFINE gone == Len(buffer) - (p + left)
           body == Len(IcyBody)
           rest == Len(c.rest)
<1>5. /\ gone \in Nat /\ body \in Nat /\ rest \in Nat /\ p \in Nat
      /\ Len(buffer) - p = left + gone /\ p + left + gone = Len(buffer)
      /\ left = n \/ gone = 0
  BY <1>2, <1>3
<1>6. /\ at + (left + gone) <= body
      /\ \A i \in 1 .. left + gone : buffer[p + i] = IcyBody[at + i]
      /\ c.is = "connected" =>
           /\ at + (left + gone) + rest <= body
           /\ \A i \in 1 .. rest : c.rest[i] = IcyBody[at + (left + gone) + i]
  BY <1>5 DEF Sync
<1> HIDE DEF gone, body, rest
<1>7. /\ at + left + gone <= body
      /\ c.is = "connected" => at + left + gone + rest <= body
      /\ k <= rest /\ (k > 0 => c.is = "connected" /\ gone = 0)
      /\ Len(r.got) = left + k
  <2>1. k > 0 => c.is = "connected" /\ left # n
    BY <1>3, <1>4
  <2>2. k <= rest /\ Len(r.got) = left + k
    BY <1>3 DEF rest
  <2>3. /\ at + (left + gone) <= body
        /\ c.is = "connected" => at + (left + gone) + rest <= body
    BY <1>6
  <2>4. at + (left + gone) = at + left + gone
    BY <1>5
  <2> QED
    BY <1>5, <2>1, <2>2, <2>3, <2>4
<1>8. ASSUME NEW i \in 1 .. Len(r.got)
      PROVE  at + i <= Len(IcyBody) /\ r.got[i] = IcyBody[at + i]
  <2>1. CASE i <= left
    <3>1. i \in 1 .. left /\ i \in 1 .. left + gone /\ at + i <= body
      BY <1>5, <1>7, <2>1
    <3> QED
      BY <1>3, <1>6, <3>1 DEF body
  <2>2. CASE i > left
    <3> DEFINE j == i - left
    <3>1. j \in 1 .. k /\ k > 0 /\ i = left + j
      BY <1>7, <2>2
    <3> HIDE DEF j
    <3>2. gone = 0 /\ c.is = "connected" /\ j \in 1 .. rest
      BY <1>5, <1>7, <3>1
    <3>3. r.got[i] = c.rest[j] /\ c.rest[j] = IcyBody[at + (left + gone) + j]
      BY <1>3, <1>6, <3>1, <3>2
    <3>4. at + (left + gone) + j = at + i /\ at + i <= body
      BY <1>5, <1>7, <3>1, <3>2
    <3> QED
      BY <3>3, <3>4 DEF body
  <2> QED
    BY <1>7, <2>1, <2>2
<1> DEFINE Rests == r.from.is = "connected" =>
             /\ Len(r.from.rest) = rest - k
             /\ \A i \in 1 .. rest - k : r.from.rest[i] = c.rest[k + i]
<1>9. CASE left + k = n
  <2>1. c.is = "connected" \/ r.from.is # "connected"
    BY <1>4
  <2>2. Rests
    <3>1. CASE r.from = Connected(From(c.rest, k))
      <4>1. k \in 0 .. rest
        BY <1>5, <1>7
      <4>2. /\ Len(From(c.rest, k)) = rest - k
            /\ \A i \in 1 .. rest - k : From(c.rest, k)[i] = c.rest[k + i]
        BY <1>2, <4>1, Rest DEF rest
      <4> QED
        BY <3>1, <4>2 DEF Connected
    <3> QED
      BY <1>4, <1>9, <3>1, ConnIs
  <2>3. at + n + gone <= body /\ (r.from.is = "connected" => at + n + gone + (rest - k) <= body)
    <3>1. CASE k = 0
      BY <1>5, <1>7, <1>9, <2>1, <3>1
    <3>2. CASE k > 0
      BY <1>5, <1>7, <1>9, <3>2
    <3> QED
      BY <3>1, <3>2
  <2>4. ASSUME NEW i \in 1 .. gone PROVE buffer[p + left + i] = IcyBody[at + n + i]
    <3>1. k = 0 /\ left + i \in 1 .. left + gone
      BY <1>5, <1>7
    <3>2. buffer[p + (left + i)] = IcyBody[at + (left + i)]
      BY <1>6, <3>1
    <3>3. p + (left + i) = p + left + i /\ at + (left + i) = at + n + i
      BY <1>5, <1>9, <3>1
    <3> QED
      BY <3>2, <3>3
  <2>5. ASSUME r.from.is = "connected", NEW i \in 1 .. rest - k
        PROVE  r.from.rest[i] = IcyBody[at + n + gone + i]
    <3>1. k + i \in 1 .. rest
      BY <1>5, <1>7
    <3>2. r.from.rest[i] = c.rest[k + i]
      BY <2>2, <2>5
    <3>3. c.rest[k + i] = IcyBody[at + (left + gone) + (k + i)]
      BY <1>6, <2>1, <2>5, <3>1
    <3>4. at + (left + gone) + (k + i) = at + n + gone + i
      BY <1>5, <1>9, <3>1
    <3> QED
      BY <3>2, <3>3, <3>4
  <2>6. Sync(at + n, p + left, r.from)
    <3>1. Len(buffer) - (p + left) = gone
      BY DEF gone
    <3>2. r.from.is = "connected" => Len(r.from.rest) = rest - k
      BY <2>2
    <3> HIDE DEF Rests
    <3> QED
      BY <2>3, <2>4, <2>5, <3>1, <3>2 DEF Sync, body
  <2> QED
    BY <1>3, <1>7, <1>8, <1>9, <2>6
<1>10. CASE left + k # n
  <2>1. p + left = Len(buffer)
    BY <1>3, <1>4, <1>10
  <2>2. r.from.is = "connected" => r.from.rest = <<>>
    <3>1. CASE r.from = Connected(From(c.rest, k)) /\ k = Len(c.rest)
      <4>1. k \in 0 .. Len(c.rest)
        BY <1>2, <3>1
      <4>2. From(c.rest, k) \in Seq(Element) /\ Len(From(c.rest, k)) = 0
        BY <1>2, <3>1, <4>1, Rest
      <4>3. From(c.rest, k) = <<>>
        BY <4>2
      <4> QED
        BY <3>1, <4>3 DEF Connected
    <3> QED
      BY <1>4, <1>10, <3>1, ConnIs
  <2> QED
    BY <1>3, <1>8, <2>1, <2>2 DEF Dry
<1> QED
  BY <1>9, <1>10

LEMMA DryReads ==
  ASSUME buffer \in Seq(Element), NEW n \in Nat, NEW p \in 0 .. Len(buffer),
         NEW c \in Conn, Dry(p, c), NEW r \in MyRead(n, p, c)
  PROVE  r.got = <<>> /\ Dry(r.pos, r.from)
<1>1. PICK left \in Nat, k \in Nat : Takes(r, n, p, c, left, k)
  BY MyReadTakes
<1>2. /\ p = Len(buffer) /\ Len(buffer) \in Nat
      /\ c.is = "connected" => c.rest = <<>> /\ Len(c.rest) = 0
  BY DEF Dry
<1>3. left = 0 /\ k = 0
  BY <1>1, <1>2 DEF Takes
<1>4. r.pos = p /\ r.got \in Seq(Element) /\ Len(r.got) = 0
  BY <1>1, <1>2, <1>3 DEF Takes
<1>5. r.from.is = "connected" => r.from.rest = <<>>
  <2>1. CASE r.from = Connected(From(c.rest, k)) /\ c.is = "connected"
    <3>1. From(c.rest, k) \in Seq(Element) /\ Len(From(c.rest, k)) = 0
      <4>1. k \in 0 .. Len(c.rest) /\ c.rest \in Seq(Element)
        BY <1>2, <1>3, <2>1 DEF Conn
      <4> QED
        BY <1>2, <1>3, <2>1, <4>1, Rest
    <3> QED
      BY <2>1, <3>1 DEF Connected
  <2> QED
    BY <1>1, <1>2, <2>1, ConnIs DEF Takes
<1> QED
  BY <1>2, <1>4, <1>5 DEF Dry

LEMMA RightIcyOpened ==
  ASSUME NEW start, IcyBlocks(start), Typed, RightIcy(start), Opened
  PROVE  RightIcy(start)'
<1>1. pc' = "ready" /\ fd' = fd /\ fd \in Fd /\ UNCHANGED <<buffer_pos, metapos, done, stream>>
  BY LinkTyped DEF Opened, Response, Typed
<1>2. /\ buf' = <<>> /\ pos' = 0 /\ ~eof'
      /\ buffer_pos' = 0 /\ metapos' = 0 /\ done' = <<>>
  BY <1>1 DEF Opened, Response, Typed, TypeOK, RightIcy, stream
<1>3. ASSUME icy' PROVE InBlock(start, 1)'
  <2>1. PICK k \in 0 .. Least(BodySize, Len(IcyBody)) :
          buffer' = SubSeq(IcyBody, 1, k) /\ LinkIs(Connected(From(IcyBody, k)))
    BY <1>3 DEF Opened
  <2>2. IcyBody \in Seq(Element) /\ Len(IcyBody) \in Nat /\ k \in Nat /\ k <= Len(IcyBody)
    BY Consts DEF Least
  <2>3. /\ Len(buffer') = k /\ \A i \in 1 .. k : buffer'[i] = IcyBody[i]
        /\ From(IcyBody, k) \in Seq(Element) /\ Len(From(IcyBody, k)) = Len(IcyBody) - k
        /\ \A i \in 1 .. Len(IcyBody) - k : From(IcyBody, k)[i] = IcyBody[k + i]
    <3>1. Len(buffer') = k /\ \A i \in 1 .. k : buffer'[i] = IcyBody[i]
      BY <2>1, <2>2, Prefix
    <3>2. k \in 0 .. Len(IcyBody)
      BY <2>2
    <3> QED
      BY <2>2, <3>1, <3>2, Rest
  <2>4. Link' = Connected(From(IcyBody, k)) /\ Link'.rest = From(IcyBody, k)
    <3>1. socket'[fd] = Connected(From(IcyBody, k)) /\ fd # 0
      BY <1>1, <2>1, <2>3, ConnIs, LinkIsTyped DEF Typed, Fd
    <3> QED
      BY <1>1, <2>3, <3>1, ConnIs DEF Link
  <2>5. start[1] = 0 /\ start[1] + 0 = 0
    BY DEF IcyBlocks
  <2>6. Sync(0, 0, Link)'
    BY <2>2, <2>3, <2>4 DEF Sync
  <2>7. Sync(start[1] + metapos, buffer_pos, Link)'
    BY <1>2, <2>5, <2>6
  <2>8. pos' + Len(done') = (1 - 1) * MetaInt + metapos'
    BY <1>2, Consts
  <2> QED
    BY <1>1, <2>7, <2>8 DEF InBlock
<1>4. 1 \in DOMAIN start
  BY DEF IcyBlocks
<1>5. Len(done') = 0 /\ Len(buf') = 0
  BY <1>2
<1>6. Holds(done', pos') /\ Holds(buf', pos' - Len(buf')) /\ Len(buf') <= pos'
  BY <1>2, <1>5 DEF Holds
<1> QED
  BY <1>1, <1>2, <1>3, <1>4, <1>6 DEF RightIcy

LEMMA RightIcyQuiet ==
  ASSUME NEW start, Typed, RightIcy(start), Take \/ Fill
  PROVE  RightIcy(start)'
<1>1. /\ pc = "ready" /\ (pc' = "ready" \/ (pc' = "fill" /\ ~eof))
      /\ UNCHANGED <<opened, fd, socket, unread, metapos, done, buf, pos, eof>>
  BY DEF Take, Fill, stream
<1> SUFFICES ASSUME icy PROVE RightIcy(start)'
  BY <1>1 DEF RightIcy, opened
<1>2. /\ Holds(done, pos) /\ done = <<>>
      /\ Len(buf) <= pos /\ Holds(buf, pos - Len(buf))
      /\ eof => buf = <<>> /\ Dry(buffer_pos, Link)
      /\ Dry(buffer_pos, Link) \/ \E k \in DOMAIN start : InBlock(start, k)
  BY <1>1 DEF RightIcy
<1>3. Link' = Link /\ buffer' = buffer /\ buffer_pos' = buffer_pos
  BY <1>1 DEF Link, unread
<1>4. /\ Dry(buffer_pos, Link) => Dry(buffer_pos, Link)'
      /\ \A k : InBlock(start, k) => InBlock(start, k)'
  BY <1>1, <1>3 DEF Dry, InBlock, Sync
<1> QED
  BY <1>1, <1>2, <1>4 DEF RightIcy

LEMMA RightIcySeek ==
  ASSUME NEW start, Careless = {}, Typed, RightIcy(start), Seek
  PROVE  RightIcy(start)'
<1> SUFFICES ASSUME icy PROVE RightIcy(start)'
  <2>1. icy' = icy /\ pc' \in {"ready", "fill"}
    BY SeekGoesOn DEF Seek, opened
  <2> QED
    BY <2>1 DEF RightIcy
<1>1. PICK p \in 0 .. Size, reset \in BOOLEAN :
        /\ reset \/ ~eof
        /\ eof' = (eof /\ ~reset)
        /\ LET q == IF eof /\ reset THEN 0 ELSE pos IN
             IF p < q /\ p >= q - Len(buf)
             THEN /\ buf_pos' = p - (q - Len(buf))
                  /\ want' = p
                  /\ UNCHANGED <<pc, fd, socket, buffer, buf, pos, offset>>
             ELSE SeekLong(p, q)
  BY DEF Seek
<1>2. /\ pc = "ready" /\ UNCHANGED <<opened, buffer_pos, metapos, done>> /\ icy'
      /\ ~seekable /\ ~eof' /\ pos \in Nat
  BY <1>1 DEF Seek, opened, Typed, TypeOK
<1>3. /\ Holds(done, pos) /\ done = <<>>
      /\ Len(buf) <= pos /\ Holds(buf, pos - Len(buf))
      /\ eof => Dry(buffer_pos, Link)
      /\ Dry(buffer_pos, Link) \/ \E k \in DOMAIN start : InBlock(start, k)
  BY <1>2 DEF RightIcy
<1>4. \/ UNCHANGED <<pc, fd, socket, buffer, buf, pos>>
      \/ /\ buf' = <<>> /\ UNCHANGED <<fd, socket, buffer>>
         /\ pos' = pos \/ (pos' = 0 /\ eof)
         /\ pc' \in {"ready", "fill"}
  <2>1. ASSUME NEW q, SeekLong(p, q)
        PROVE  /\ buf' = <<>> /\ UNCHANGED <<fd, socket, buffer>> /\ pos' = q
               /\ pc' \in {"ready", "fill"}
    BY <1>2, <2>1 DEF SeekLong, SeekFills, SeekReturns
  <2> QED
    BY <1>1, <2>1
<1>5. /\ Dry(buffer_pos, Link) => Dry(buffer_pos, Link)'
      /\ pos' = pos => \A k : InBlock(start, k) => InBlock(start, k)'
  <2>1. Link' = Link /\ buffer' = buffer /\ buffer_pos' = buffer_pos /\ pc' # "meta"
    BY <1>2, <1>4 DEF Link
  <2> QED
    BY <1>2, <2>1 DEF Dry, InBlock, Sync
<1>6. Dry(buffer_pos, Link)' \/ \E k \in DOMAIN start : InBlock(start, k)'
  BY <1>3, <1>4, <1>5
<1>7. Holds(done', pos')
  BY <1>2, <1>3 DEF Holds
<1>8. Len(buf') <= pos' /\ Holds(buf', pos' - Len(buf'))
  BY <1>2, <1>3, <1>4 DEF Holds
<1> QED
  BY <1>2, <1>3, <1>4, <1>6, <1>7, <1>8 DEF RightIcy

LEMMA BlockAudio ==
  ASSUME NEW start, IcyBlocks(start), NEW k \in DOMAIN start, NEW j \in 0 .. MetaInt - 1,
         start[k] + j < Len(IcyBody)
  PROVE  IcyBody[start[k] + j + 1] = Audio((k - 1) * MetaInt + j)
  BY DEF IcyBlocks

LEMMA Blocks ==
  ASSUME NEW start, IcyBlocks(start), NEW k \in DOMAIN start
  PROVE  k \in Nat \ {0} /\ start[k] \in Nat /\ (k - 1) * MetaInt \in Nat
         /\ k * MetaInt = (k - 1) * MetaInt + MetaInt
<1>1. start \in Seq(Nat)
  BY DEF IcyBlocks
<1>2. k \in Nat \ {0} /\ start[k] \in Nat /\ MetaInt \in Nat
  BY <1>1, Consts
<1>3. (k - 1) * MetaInt \in Nat /\ k * MetaInt = (k - 1) * MetaInt + MetaInt
  BY <1>2
<1> QED
  BY <1>2, <1>3

LEMMA RightIcyFill ==
  ASSUME ~TimesOut, NEW start, IcyBlocks(start), Typed, RightIcy(start), IcyFill
  PROVE  RightIcy(start)'
<1> DEFINE block == Least(MetaInt - metapos, Sector - Len(done))
<1>1. PICK r \in MyRead(block, buffer_pos, Link) :
        /\ LinkIs(r.from)
        /\ buffer_pos' = r.pos
        /\ metapos' = metapos + Len(r.got)
        /\ IF Len(r.got) = block /\ Len(done \o r.got) < Sector
           THEN pc' = "meta" /\ done' = done \o r.got /\ UNCHANGED <<stream, want>>
           ELSE Filled(done \o r.got)
  BY DEF IcyFill
<1>2. /\ pc = "fill" /\ icy /\ icy' /\ UNCHANGED <<opened, fd, buffer>>
      /\ ~eof /\ Holds(done, pos) /\ Len(buf) <= pos /\ Holds(buf, pos - Len(buf))
      /\ Dry(buffer_pos, Link) \/ \E k \in DOMAIN start : InBlock(start, k)
  BY DEF IcyFill, RightIcy, opened
<1>3. /\ metapos \in 0 .. MetaInt /\ done \in Seq(Element) /\ Len(done) <= Sector
      /\ Len(done) \in Nat /\ MetaInt \in Nat /\ Sector \in Nat /\ pos \in Nat
      /\ buffer \in Seq(Element) /\ buffer_pos \in 0 .. Len(buffer) /\ Link \in Conn
  BY Consts, LinkTyped DEF Typed, TypeOK
<1>4. /\ block \in Nat /\ block <= MetaInt - metapos /\ block <= Sector - Len(done)
      /\ block = MetaInt - metapos \/ block = Sector - Len(done)
  BY <1>3 DEF Least
<1> HIDE DEF block
<1>5. /\ r.from \in Conn /\ r.got \in Seq(Element) /\ Len(r.got) <= block /\ Len(r.got) \in Nat
  <2>1. r.from \in Conn /\ r.got \in Seq(Element) /\ Len(r.got) <= block
    BY <1>3, <1>4, MyReadIs
  <2> QED
    BY <2>1
<1>6. Link' = IF fd = 0 THEN Closed ELSE r.from
  BY <1>1, <1>2, <1>5, LinkIsTyped, LinkTyped DEF Typed, Link
<1> DEFINE bytes == done \o r.got
<1>7. bytes \in Seq(Element) /\ Len(bytes) = Len(done) + Len(r.got) /\ Len(bytes) \in Nat
  BY <1>3, <1>5, ConcatProperties
<1> DEFINE Told(k) == /\ pos + Len(bytes) = (k - 1) * MetaInt + metapos'
                      /\ Sync(start[k] + metapos', r.pos, r.from)
<1>8. /\ Holds(bytes, pos)
      /\ \/ Dry(r.pos, r.from)
         \/ Len(r.got) = block /\ \E k \in DOMAIN start : Told(k)
  <2>1. CASE Dry(buffer_pos, Link)
    <3>1. r.got = <<>> /\ Dry(r.pos, r.from)
      BY <1>1, <1>3, <1>4, <2>1, DryReads
    <3>2. bytes = done
      BY <1>3, <3>1
    <3> QED
      BY <1>2, <3>1, <3>2
  <2>2. ASSUME NEW k \in DOMAIN start, InBlock(start, k)
        PROVE  Holds(bytes, pos) /\ (Dry(r.pos, r.from) \/ (Len(r.got) = block /\ Told(k)))
    <3> DEFINE at == start[k] + metapos
    <3>1. /\ pos + Len(done) = (k - 1) * MetaInt + metapos /\ Sync(at, buffer_pos, Link)
          /\ start[k] \in Nat /\ (k - 1) * MetaInt \in Nat /\ at \in Nat
      <4>1. pos + Len(done) = (k - 1) * MetaInt + metapos /\ Sync(at, buffer_pos, Link)
        BY <2>2 DEF InBlock
      <4>2. start[k] \in Nat /\ (k - 1) * MetaInt \in Nat
        BY Blocks
      <4>3. at \in Nat
        BY <1>3, <4>2
      <4> QED
        BY <4>1, <4>2, <4>3
    <3> HIDE DEF at
    <3>2. /\ \A i \in 1 .. Len(r.got) : at + i <= Len(IcyBody) /\ r.got[i] = IcyBody[at + i]
          /\ Dry(r.pos, r.from) \/ (Len(r.got) = block /\ Sync(at + block, r.pos, r.from))
      BY <1>1, <1>3, <1>4, <3>1, SyncReads
    <3>3. ASSUME NEW i \in 1 .. Len(r.got)
          PROVE  r.got[i] = Audio(pos + Len(done) + i - 1)
      <4> DEFINE j == metapos + i - 1
      <4>1. j \in 0 .. MetaInt - 1 /\ start[k] + j + 1 = at + i
        <5>1. i \in Nat /\ 1 <= i /\ i <= MetaInt - metapos
          BY <1>3, <1>4, <1>5
        <5>2. j \in 0 .. MetaInt - 1
          BY <1>3, <5>1
        <5>3. start[k] + j + 1 = at + i
          BY <1>3, <3>1, <5>1 DEF at
        <5> QED
          BY <5>2, <5>3
      <4>2. at + i <= Len(IcyBody) /\ r.got[i] = IcyBody[at + i]
        BY <3>2
      <4>3. start[k] + j < Len(IcyBody)
        <5>1. start[k] \in Nat /\ j \in Nat /\ Len(IcyBody) \in Nat
          BY <3>1, <4>1, Consts
        <5>2. start[k] + j + 1 <= Len(IcyBody)
          BY <4>1, <4>2
        <5> HIDE DEF j
        <5> QED
          BY <5>1, <5>2
      <4>4. (k - 1) * MetaInt + j = pos + Len(done) + i - 1
        <5> DEFINE m == (k - 1) * MetaInt
        <5>1. m \in Nat /\ pos + Len(done) = m + metapos
          BY <3>1
        <5> HIDE DEF m
        <5>2. m + j = pos + Len(done) + i - 1
          <6>1. metapos \in Nat /\ i \in Nat /\ pos \in Nat /\ Len(done) \in Nat
            BY <1>3, <1>5
          <6> QED
            BY <5>1, <6>1
        <5> QED
          BY <5>2 DEF m
      <4> HIDE DEF j
      <4> QED
        BY <4>1, <4>2, <4>3, <4>4, BlockAudio
    <3>4. Holds(r.got, pos + Len(done))
      BY <3>3 DEF Holds
    <3>5. Holds(bytes, pos)
      <4>1. Len(r.got) \in 0 .. Len(r.got) /\ SubSeq(r.got, 1, Len(r.got)) = r.got
        <5>1. /\ SubSeq(r.got, 1, Len(r.got)) \in Seq(Element)
              /\ Len(SubSeq(r.got, 1, Len(r.got))) = Len(r.got)
              /\ \A i \in 1 .. Len(r.got) : SubSeq(r.got, 1, Len(r.got))[i] = r.got[i]
          BY <1>5, Prefix
        <5> QED
          BY <1>5, <5>1, SeqEqual
      <4>2. Holds(done \o SubSeq(r.got, 1, Len(r.got)), pos)
        BY <1>2, <1>3, <1>5, <3>4, <4>1, HoldsConcat
      <4> QED
        BY <4>1, <4>2
    <3>6. ASSUME Len(r.got) = block, Sync(at + block, r.pos, r.from) PROVE Told(k)
      <4>1. start[k] + metapos' = at + block
        <5>1. metapos' = metapos + block
          BY <1>1, <3>6
        <5>2. metapos \in Nat /\ start[k] \in Nat
          BY <1>3, <3>1
        <5> QED
          BY <1>4, <5>1, <5>2 DEF at
      <4>2. pos + Len(bytes) = (k - 1) * MetaInt + metapos'
        <5> DEFINE m == (k - 1) * MetaInt
        <5>1. m \in Nat /\ pos + Len(done) = m + metapos
          BY <3>1
        <5> HIDE DEF m, bytes
        <5>2. pos + Len(bytes) = m + metapos'
          <6>1. metapos' = metapos + Len(r.got)
            BY <1>1
          <6>2. pos \in Nat /\ Len(done) \in Nat /\ Len(r.got) \in Nat /\ metapos \in Nat
            BY <1>3, <1>5
          <6>3. Len(bytes) = Len(done) + Len(r.got)
            BY <1>7
          <6> QED
            BY <5>1, <6>1, <6>2, <6>3
        <5> QED
          BY <5>2 DEF m
      <4> HIDE DEF bytes
      <4> QED
        BY <3>6, <4>1, <4>2
    <3> QED
      BY <3>2, <3>5, <3>6
  <2> HIDE DEF Told, bytes
  <2> QED
    BY <1>2, <2>1, <2>2
<1>9. (Dry(r.pos, r.from) => Dry(buffer_pos', Link')) /\ buffer' = buffer
      /\ \A at : Sync(at, r.pos, r.from) => Sync(at, buffer_pos, Link)'
  <2>1. buffer' = buffer /\ buffer_pos' = r.pos
    BY <1>1, <1>2
  <2>2. Link' = r.from \/ Link'.is # "connected"
    BY <1>6, ConnIs
  <2> QED
    BY <2>1, <2>2 DEF Dry, Sync
<1>10. Dry(buffer_pos, Link)' <=> Dry(buffer_pos', Link')
  BY <1>9 DEF Dry
<1>11. CASE Len(r.got) = block /\ Len(bytes) < Sector
  <2>1. pc' = "meta" /\ done' = bytes /\ UNCHANGED <<buf, pos, eof>>
    BY <1>1, <1>11 DEF stream
  <2>2. metapos' = MetaInt
    <3> HIDE DEF bytes
    <3> QED
      BY <1>1, <1>3, <1>4, <1>7, <1>11
  <2>3. ASSUME NEW k \in DOMAIN start, Told(k) PROVE InBlock(start, k)'
    BY <1>9, <2>1, <2>2, <2>3 DEF InBlock
  <2> HIDE DEF Told, bytes
  <2>4. Dry(buffer_pos, Link)' \/ \E k \in DOMAIN start : InBlock(start, k)'
    BY <1>8, <1>9, <1>10, <2>3
  <2> QED
    BY <1>2, <1>8, <2>1, <2>4 DEF RightIcy
<1>12. CASE ~(Len(r.got) = block /\ Len(bytes) < Sector)
  <2>1. Filled(bytes)
    BY <1>1, <1>12
  <2>0. bytes = <<>> => Len(r.got) # block
    <3>1. ASSUME bytes = <<>> PROVE Len(bytes) = 0 /\ Len(bytes) < Sector
      <4>1. Len(bytes) = 0
        BY <3>1
      <4> HIDE DEF bytes
      <4> QED
        BY <4>1, Consts
    <3> QED
      BY <1>12, <3>1
  <2> HIDE DEF bytes
  <2>2. pc' = "ready" \/ (pc' = "fill" /\ bytes # <<>>)
    BY <2>1 DEF Filled
  <2>3. /\ buf' = bytes /\ pos' = pos + Len(bytes) /\ (eof' <=> bytes = <<>>)
        /\ done' = <<>> /\ Len(done') = 0
    BY <2>1 DEF Filled
  <2>4. ASSUME NEW k \in DOMAIN start, Told(k) PROVE InBlock(start, k)'
    <3>1. pos' + Len(done') = (k - 1) * MetaInt + metapos'
      BY <1>3, <1>7, <2>3, <2>4
    <3> QED
      BY <1>9, <2>2, <2>4, <3>1 DEF InBlock
  <2>5. /\ Dry(buffer_pos, Link)' \/ \E k \in DOMAIN start : InBlock(start, k)'
        /\ eof' => Dry(buffer_pos, Link)'
    <3> HIDE DEF Told
    <3> QED
      BY <1>8, <1>9, <1>10, <2>0, <2>3, <2>4
  <2>6. Len(buf') <= pos' /\ pos' - Len(buf') = pos
    BY <1>3, <1>7, <2>3
  <2>7. Holds(buf', pos' - Len(buf')) /\ Holds(done', pos')
    BY <1>8, <2>3, <2>6 DEF Holds
  <2> QED
    BY <2>2, <2>3, <2>5, <2>6, <2>7 DEF RightIcy
<1> QED
  BY <1>11, <1>12

LEMMA RightIcyMeta ==
  ASSUME ~TimesOut, NEW start, IcyBlocks(start), Typed, RightIcy(start), IcyMeta
  PROVE  RightIcy(start)'
<1>1. PICK l \in MyRead(1, buffer_pos, Link) :
        \E m \in MyRead(IF l.got = <<>> THEN 0 ELSE l.got[1][2], l.pos, l.from) :
          LinkIs(m.from) /\ buffer_pos' = m.pos
  BY DEF IcyMeta
<1> DEFINE n == IF l.got = <<>> THEN 0 ELSE l.got[1][2]
<1>2. PICK m \in MyRead(n, l.pos, l.from) : LinkIs(m.from) /\ buffer_pos' = m.pos
  BY <1>1
<1>3. /\ pc = "meta" /\ pc' = "fill" /\ icy /\ metapos' = 0
      /\ UNCHANGED <<opened, fd, buffer, done, stream, want>>
      /\ ~eof /\ Holds(done, pos) /\ Len(buf) <= pos /\ Holds(buf, pos - Len(buf))
      /\ Dry(buffer_pos, Link) \/ \E k \in DOMAIN start : InBlock(start, k)
  BY DEF IcyMeta, RightIcy, Typed
<1>4. /\ buffer \in Seq(Element) /\ buffer_pos \in 0 .. Len(buffer) /\ Link \in Conn
      /\ pos \in Nat /\ Len(done) \in Nat /\ MetaInt \in Nat
  BY LinkTyped, Consts DEF Typed, TypeOK
<1>5. l.pos \in 0 .. Len(buffer) /\ l.from \in Conn /\ l.got \in Seq(Element)
  BY <1>4, MyReadIs
<1>6. n \in Nat
  <2>1. CASE l.got # <<>>
    <3>1. l.got[1] \in Element
      BY <1>5, <2>1
    <3> QED
      BY <2>1, <3>1 DEF Element
  <2> QED
    BY <2>1
<1> HIDE DEF n
<1>7. m.from \in Conn
  BY <1>2, <1>5, <1>4, <1>6, MyReadIs
<1>8. Link' = IF fd = 0 THEN Closed ELSE m.from
  BY <1>2, <1>3, <1>7, LinkIsTyped, LinkTyped DEF Typed, Link
<1>9. Dry(l.pos, l.from) => Dry(m.pos, m.from)
  BY <1>2, <1>4, <1>5, <1>6, DryReads
<1>10. Dry(buffer_pos, Link) => Dry(m.pos, m.from)
  BY <1>4, <1>9, DryReads
<1>11. ASSUME NEW k \in DOMAIN start, InBlock(start, k), ~Dry(m.pos, m.from)
       PROVE  \E next \in DOMAIN start :
                /\ pos + Len(done) = (next - 1) * MetaInt
                /\ Sync(start[next], m.pos, m.from)
  <2> DEFINE end == start[k] + MetaInt
  <2>1. /\ pos + Len(done) = (k - 1) * MetaInt + MetaInt /\ Sync(end, buffer_pos, Link)
        /\ start[k] \in Nat /\ end \in Nat /\ k \in Nat \ {0}
        /\ k * MetaInt = (k - 1) * MetaInt + MetaInt
    BY <1>3, <1>4, <1>11, Blocks DEF InBlock
  <2>2. /\ end < Len(IcyBody) =>
             /\ IcyBody[end + 1][1] = "length" /\ k < Len(start)
             /\ start[k + 1] = end + 1 + IcyBody[end + 1][2]
        /\ start \in Seq(Nat)
    BY DEF IcyBlocks
  <2> HIDE DEF end
  <2>3. /\ Len(l.got) = 1 /\ Sync(end + 1, l.pos, l.from)
        /\ end + 1 <= Len(IcyBody) /\ l.got[1] = IcyBody[end + 1]
    <3>1. /\ \A i \in 1 .. Len(l.got) : end + i <= Len(IcyBody) /\ l.got[i] = IcyBody[end + i]
          /\ Dry(l.pos, l.from) \/ (Len(l.got) = 1 /\ Sync(end + 1, l.pos, l.from))
      BY <1>4, <2>1, SyncReads
    <3>2. Len(l.got) = 1 /\ Sync(end + 1, l.pos, l.from)
      BY <1>9, <1>11, <3>1
    <3>3. 1 \in 1 .. Len(l.got)
      BY <3>2
    <3> QED
      BY <3>1, <3>2, <3>3
  <2>4. n = IcyBody[end + 1][2] /\ k < Len(start) /\ start[k + 1] = end + 1 + n
    <3>1. end < Len(IcyBody)
      BY <2>1, <2>3, Consts
    <3>2. n = IcyBody[end + 1][2]
      BY <2>3 DEF n
    <3> QED
      BY <2>2, <3>1, <3>2
  <2>5. Sync(end + 1 + n, m.pos, m.from)
    <3>1. end + 1 \in Nat
      BY <2>1
    <3>2. Dry(m.pos, m.from) \/ (Len(m.got) = n /\ Sync(end + 1 + n, m.pos, m.from))
      BY <1>2, <1>4, <1>5, <1>6, <2>3, <3>1, SyncReads
    <3> QED
      BY <1>11, <3>2
  <2>6. k + 1 \in DOMAIN start /\ k + 1 - 1 = k
    BY <2>1, <2>2, <2>4
  <2>7. Sync(start[k + 1], m.pos, m.from) /\ pos + Len(done) = (k + 1 - 1) * MetaInt
    BY <2>1, <2>4, <2>5, <2>6
  <2> QED
    BY <2>6, <2>7
<1>12. (Dry(m.pos, m.from) => Dry(buffer_pos, Link)')
       /\ \A at : Sync(at, m.pos, m.from) => Sync(at, buffer_pos, Link)'
  <2>1. buffer' = buffer /\ buffer_pos' = m.pos
    BY <1>2, <1>3
  <2>2. Link' = m.from \/ Link'.is # "connected"
    BY <1>8, ConnIs
  <2> QED
    BY <2>1, <2>2 DEF Dry, Sync
<1>13. Dry(buffer_pos, Link)' \/ \E k \in DOMAIN start : InBlock(start, k)'
  <2>1. ASSUME NEW k \in DOMAIN start, InBlock(start, k), ~Dry(m.pos, m.from)
        PROVE  \E next \in DOMAIN start : InBlock(start, next)'
    <3>1. PICK next \in DOMAIN start :
            pos + Len(done) = (next - 1) * MetaInt /\ Sync(start[next], m.pos, m.from)
      BY <1>11, <2>1
    <3>2. start[next] + metapos' = start[next]
      BY <1>3, <3>1, Blocks
    <3>3. pos' + Len(done') = (next - 1) * MetaInt + metapos'
      <4>1. pos' + Len(done') = pos + Len(done) /\ pos + Len(done) \in Nat
        BY <1>3, <1>4 DEF stream
      <4> DEFINE x == (next - 1) * MetaInt
      <4>2. x \in Nat /\ pos' + Len(done') = x
        BY <3>1, <4>1
      <4> HIDE DEF x
      <4>3. pos' + Len(done') = x + metapos'
        BY <1>3, <4>2
      <4> QED
        BY <4>3 DEF x
    <3>4. Sync(start[next] + metapos, buffer_pos, Link)'
      BY <1>12, <3>1, <3>2
    <3>5. pc' # "meta"
      BY <1>3
    <3> QED
      BY <3>3, <3>4, <3>5 DEF InBlock
  <2> QED
    BY <1>3, <1>10, <1>12, <2>1
<1> QED
  BY <1>3, <1>13 DEF RightIcy, stream

LEMMA RightIcyOther ==
  ASSUME NEW start, Typed, RightIcy(start),
         \/ Request \/ Refused \/ Redirected \/ NopFill
         \/ CloseStream \/ UNCHANGED vars
  PROVE  RightIcy(start)'
<1>1. CASE Request \/ Refused \/ Redirected
  BY <1>1 DEF Request, Refused, Redirected, Response, StartFails, RightIcy, opened
<1>2. CASE NopFill
  <2>1. ~icy' /\ pc' \in {"ready", "fill"}
    BY <1>2, NopFillIs DEF NopFill, opened, Filled
  <2> QED
    BY <2>1 DEF RightIcy
<1>3. CASE CloseStream
  BY <1>3 DEF CloseStream, RightIcy
<1>4. CASE UNCHANGED vars
  <2>1. UNCHANGED <<pc, icy, fd, socket, metapos, done, buffer, buffer_pos, buf, pos, eof>>
    BY <1>4 DEF vars, opened, unread, stream
  <2>2. Link' = Link
    BY <2>1 DEF Link
  <2>3. RightIcy(start)' = RightIcy(start)
    BY <2>1, <2>2 DEF RightIcy, Holds, Dry, InBlock, Sync
  <2> QED
    BY <2>3
<1> QED
  BY <1>1, <1>2, <1>3, <1>4

LEMMA RightIcyDelivers ==
  ASSUME NEW start, Typed, RightIcy(start), icy
  PROVE  Delivers
<1>1. Len(buf) \in Nat /\ buf_pos \in 0 .. Len(buf) /\ pos \in Nat
  BY DEF Typed, TypeOK
<1>2. pc = "ready" => Holds(buf, pos - Len(buf))
  BY DEF RightIcy
<1> QED
  BY <1>1, <1>2, HoldsFromTell DEF Delivers

(* Of a plain stream, seekable or not, and whatever the body of an ICY     *)
(* answer is: who fills from it as the cache does, reading before the      *)
(* first seek and resetting it at its end, is given the medium from the    *)
(* position that the answers to its seeks have led it to, of any size, cut *)
(* in any way, after any seeks, refused, failed or not. The turns of       *)
(* stream_seek_long() and what came with a header are where a byte could   *)
(* be lost or given twice.                                                 *)
THEOREM SpecPlainDelivers ==
  ASSUME ~TimesOut, Careless = {}
  PROVE  Spec => [](~icy => Delivers)
<1>1. Init => Right /\ OneConnection
  BY ConnIs DEF Init, Right, OneConnection
<1>2. Typed /\ OneConnection /\ [Next]_vars => OneConnection'
  BY OneOpening, OneReading, OneSeeking, OneOther DEF Next, Working
<1>3. Typed /\ OneConnection /\ Right /\ [Next]_vars => Right'
  BY RightOpened, RightTake, RightFill, RightNopFill, RightSeek, RightOther DEF Next, Working
<1> QED
  BY <1>1, <1>2, <1>3, TypedInit, TypedStep, RightDelivers, PTL DEF Spec

LEMMA RightIcyInit == ASSUME NEW start, Init PROVE RightIcy(start)
  BY DEF Init, RightIcy

LEMMA RightIcyStep ==
  ASSUME ~TimesOut, Careless = {}, NEW start, IcyBlocks(start)
  PROVE  Typed /\ RightIcy(start) /\ [Next]_vars => RightIcy(start)'
<1> SUFFICES ASSUME Typed, RightIcy(start), [Next]_vars PROVE RightIcy(start)'
  OBVIOUS
<1>1. CASE Working
  BY <1>1, RightIcyOpened, RightIcyFill, RightIcyMeta, RightIcyOther DEF Working
<1>2. CASE Take \/ Fill \/ Seek \/ CloseStream \/ UNCHANGED vars
  BY <1>2, RightIcyQuiet, RightIcySeek, RightIcyOther
<1> QED
  BY <1>1, <1>2 DEF Next

(* The same of every stream: of an ICY stream too, when its server keeps   *)
(* to the blocks it announced, the caller gets the audio of the position   *)
(* the stream tells and only that, with metadata of any lengths anywhere   *)
(* in a sector or in what came with the header, after seeks that do not    *)
(* move it, and wherever the connection is lost: in the audio, or in the   *)
(* metadata, of which scast_streaming_read() does not tell how much it     *)
(* could read.                                                             *)
THEOREM SpecDelivers ==
  ASSUME ~TimesOut, Careless = {}, NEW start, IcyBlocks(start)
  PROVE  Spec => []Delivers
<1>1. Typed /\ RightIcy(start) => (icy => Delivers)
  BY RightIcyDelivers
<1>2. Init => RightIcy(start)
  BY RightIcyInit
<1>3. Typed /\ RightIcy(start) /\ [Next]_vars => RightIcy(start)'
  BY RightIcyStep
<1>4. Spec => [](~icy => Delivers)
  BY SpecPlainDelivers
<1> QED
  BY <1>1, <1>2, <1>3, <1>4, TypedInit, TypedStep, PTL DEF Spec

LEMMA HoldsNoMetadata ==
  ASSUME NEW s, NEW p, Holds(s, p)
  PROVE  \A i \in 1 .. Len(s) : s[i][1] \notin {"length", "meta"}
  BY DEF Holds, Audio

LEMMA SeekKeepsOrEmpties ==
  ASSUME Seek
  PROVE  buf' = buf \/ buf' = <<>>
<1>1. PICK p \in 0 .. Size, reset \in BOOLEAN :
        LET q == IF eof /\ reset THEN 0 ELSE pos IN
          IF p < q /\ p >= q - Len(buf)
          THEN /\ buf_pos' = p - (q - Len(buf))
               /\ want' = p
               /\ UNCHANGED <<pc, fd, socket, buffer, buf, pos, offset>>
          ELSE SeekLong(p, q)
  BY DEF Seek
<1>2. \A n, m : SeekLong(n, m) => buf' = <<>>
  BY DEF SeekLong
<1> QED
  BY <1>1, <1>2

LEMMA NoMetadataStep ==
  ASSUME ~TimesOut, NEW start, Typed, NoMetadata, Right', RightIcy(start)', [Next]_vars,
         RightIcy(start)
  PROVE  NoMetadata'
<1>1. CASE buf' = buf \/ buf' = <<>>
  BY <1>1 DEF NoMetadata
<1>2. CASE NopFill
  <2>1. ~icy' /\ pc' \in {"ready", "fill"}
    BY <1>2, NopFillIs DEF NopFill, opened, Filled
  <2>2. Holds(buf', pos' - Len(buf'))
    BY <2>1 DEF Right
  <2> QED
    BY <2>2, HoldsNoMetadata DEF NoMetadata
<1>3. CASE IcyFill
  <2>1. CASE pc' = "meta"
    <3>1. buf' = buf
      BY <1>3, <2>1 DEF IcyFill, Filled, stream
    <3> QED
      BY <1>1, <3>1
  <2>2. CASE pc' # "meta"
    <3>1. PICK bytes : Filled(bytes)
      BY <1>3, <2>2 DEF IcyFill
    <3>2. icy' /\ (pc' = "ready" \/ pc' = "fill")
      BY <1>3, <3>1 DEF IcyFill, opened, Filled
    <3> QED
      BY <3>2, HoldsNoMetadata DEF RightIcy, NoMetadata
  <2> QED
    BY <2>1, <2>2
<1>4. CASE ~NopFill /\ ~IcyFill
  <2>1. buf' = buf \/ buf' = <<>>
    BY <1>4, SeekKeepsOrEmpties
    DEF Next, Working, Request, Refused, Redirected, Response, Opened, IcyMeta, Take, Fill,
        CloseStream, vars, stream
  <2> QED
    BY <1>1, <2>1
<1> QED
  BY <1>2, <1>3, <1>4

(* No reader gives metadata for audio while no receive times out: that     *)
(* scast_streaming_read() does not look at what scast_meta_read() could    *)
(* read is harmless when a connection is lost, for then nothing follows.   *)
THEOREM SpecNoMetadata ==
  ASSUME ~TimesOut, Careless = {}, NEW start, IcyBlocks(start)
  PROVE  Spec => []NoMetadata
<1>1. Init => Right /\ OneConnection /\ RightIcy(start) /\ NoMetadata
  <2> SUFFICES ASSUME Init PROVE Right /\ OneConnection /\ RightIcy(start) /\ NoMetadata
    OBVIOUS
  <2>1. Right /\ OneConnection
    BY ConnIs DEF Init, Right, OneConnection
  <2>2. NoMetadata
    <3>1. Len(buf) = 0
      BY DEF Init
    <3> QED
      BY <3>1 DEF NoMetadata
  <2> QED
    BY <2>1, <2>2, RightIcyInit
<1>2. Typed /\ OneConnection /\ [Next]_vars => OneConnection'
  BY OneOpening, OneReading, OneSeeking, OneOther DEF Next, Working
<1>3. Typed /\ OneConnection /\ Right /\ [Next]_vars => Right'
  BY RightOpened, RightTake, RightFill, RightNopFill, RightSeek, RightOther DEF Next, Working
<1>4. Typed /\ RightIcy(start) /\ [Next]_vars => RightIcy(start)'
  BY RightIcyStep
<1>5. /\ Typed /\ RightIcy(start) /\ NoMetadata /\ [Next]_vars /\ Right' /\ RightIcy(start)'
      => NoMetadata'
  BY NoMetadataStep
<1> QED
  BY <1>1, <1>2, <1>3, <1>4, <1>5, TypedInit, TypedStep, PTL DEF Spec
==============================================================================
