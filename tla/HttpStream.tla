------------------------------ MODULE HttpStream ------------------------------
(***************************************************************************)
(* A network stream: http_streaming_start() with its redirections,         *)
(* http_seek() and the two readers (stream_http.cpp, network.cpp, tcp.cpp) *)
(* under the buffer of stream.cpp and stream.h, as the process that fills  *)
(* the cache uses it: it reads first, and resets the stream before a seek  *)
(* when it is at its end (cache.cpp:164).                                  *)
(*                                                                         *)
(* A byte is <<"audio", i>>, the byte i of the medium, or a byte of a      *)
(* header or of metadata, whose length is in a <<"length", n>>. What the   *)
(* server does, and how the network cuts it, is any of the outcomes below. *)
(***************************************************************************)
EXTENDS Integers, Sequences

CONSTANTS
  Url,          \* the servers' urls; the stream is opened on FirstUrl
  FirstUrl,
  NoUrl,        \* no Location in the answer
  Location,     \* Location[u]: where u redirects to
  Size,         \* length of the medium
  IcyBody,      \* the body of an ICY answer: audio with metadata in between
  MetaInt,      \* Icy-MetaInt
  Sector,       \* STREAM_BUFFER_SIZE
  BodySize,     \* bound: bytes of the body that come with the header
  MaxFd,        \* bound: file descriptors
  TimesOut,     \* whether SO_RCVTIMEO may strike while the server is alive
  Careless      \* seeks that the filler of the cache does not make

Element == {"audio", "length", "meta", "header"} \X Nat
Audio(i) == <<"audio", i>>
Header == <<"header", 0>>
Fd == 1 .. MaxFd

ASSUME HttpAssumption ==
  /\ FirstUrl \in Url /\ NoUrl \notin Url
  /\ Location \in [Url -> Url \union {NoUrl}]
  /\ Size \in Nat /\ IcyBody \in Seq(Element)
  /\ MetaInt \in Nat \ {0} /\ Sector \in Nat \ {0}
  /\ BodySize \in Nat /\ BodySize < Sector
  /\ MaxFd \in Nat
  /\ TimesOut \in BOOLEAN
  /\ Careless \subseteq {"unread", "at eof"}

VARIABLES
  pc,          \* "request", "response", "failed"; "ready", "fill", "meta"; "closed"
  url, redirect,
  fd,          \* stream->fd, 0 for none
  socket,      \* socket[n]: what the descriptor n is, and the bytes to come
  icy,         \* whether scast_streaming_read() is the reader
  seekable,    \* whether stream->seek is set
  buffer, buffer_pos,   \* of the streaming_ctrl: bytes that came with a header
  metapos,
  done,        \* what scast_streaming_read() has put into its buffer
  buf, buf_pos,         \* stream->buffer up to buf_len
  pos, eof,
  offset,      \* a seek's way into the sector, NoOffset for a read
  want         \* where one who heeds stream_seek() takes the stream to be

opened == <<url, redirect, icy, seekable>>
unread == <<buffer, buffer_pos>>
stream == <<buf, buf_pos, pos, eof, offset>>
vars == <<pc, opened, fd, socket, unread, metapos, done, stream, want>>

NoOffset == -1
Least(a, b) == IF a < b THEN a ELSE b
From(body, n) == SubSeq(body, n + 1, Len(body))
Plain == [i \in 1 .. Size |-> Audio(i - 1)]

Closed == [is |-> "closed", rest |-> <<>>]
Unconnected == [is |-> "unconnected", rest |-> <<>>]
Connected(r) == [is |-> "connected", rest |-> r]

Init ==
  /\ pc = "request"
  /\ url = FirstUrl /\ redirect = FALSE
  /\ fd = 0 /\ socket = [n \in Fd |-> Closed]
  /\ icy = FALSE /\ seekable = FALSE
  /\ buffer = <<>> /\ buffer_pos = 0
  /\ metapos = 0 /\ done = <<>>
  /\ buf = <<>> /\ buf_pos = 0 /\ pos = 0 /\ eof = FALSE
  /\ offset = NoOffset
  /\ want = 0

-----------------------------------------------------------------------------
(* The network. A new descriptor is the lowest that is free: the process   *)
(* opens nothing else.                                                     *)

Close(s, n) == [m \in Fd |-> IF m = n THEN Closed ELSE s[m]]

(* http_send_request() returns a descriptor, or none. If the connection    *)
(* cannot be made, connectServer_with_af() mostly leaves its socket open;  *)
(* if it cannot be begun or the request cannot be sent, none is left.      *)
Requested(s) ==
  {[socket |-> s, fd |-> 0]} \union
  UNION {{[socket |-> [s EXCEPT ![n] = Unconnected], fd |-> 0],
          [socket |-> [s EXCEPT ![n] = Connected(<<>>)], fd |-> n]} :
         n \in {m \in Fd : s[m] = Closed /\ \A k \in Fd : k < m => s[k] # Closed}}

(* http_read_response() without an answer: the connection is lost, or its  *)
(* receive times out with all of the answer still to come.                 *)
NoResponse(s, n, body) ==
  {[s EXCEPT ![n] = Unconnected]} \union
  (IF TimesOut THEN {[s EXCEPT ![n] = Connected(<<Header>> \o body)]} ELSE {})

(* The connection of the stream, or one that gives nothing.                *)
Link == IF fd = 0 THEN Closed ELSE socket[fd]
LinkIs(c) == socket' = IF fd = 0 THEN socket ELSE [socket EXCEPT ![fd] = c]

(* recv() of up to n bytes from connection c: bytes, the end, or -1.       *)
Recv(n, c) ==
  IF c.is # "connected" THEN {[ret |-> -1, bytes |-> <<>>, from |-> c]}
  ELSE {[ret |-> k, bytes |-> SubSeq(c.rest, 1, k), from |-> Connected(From(c.rest, k))] :
          k \in {k \in 0 .. Least(n, Len(c.rest)) : k = 0 => c.rest = <<>>}}
       \union {[ret |-> -1, bytes |-> <<>>, from |-> Unconnected]}
       \union (IF TimesOut THEN {[ret |-> -1, bytes |-> <<>>, from |-> c]} ELSE {})

(* my_read() of n bytes, the buffer read up to p: from the buffer and then *)
(* from connection c until there are n or recv() gives none.               *)
MyRead(n, p, c) ==
  LET left == Least(n, Len(buffer) - p)
      all == Least(n - left, Len(c.rest))
      After(k, from) ==
        [pos |-> p + left, from |-> from,
         got |-> SubSeq(buffer, p + 1, p + left) \o SubSeq(c.rest, 1, k)]
  IN IF c.is # "connected" THEN {After(0, c)}
     ELSE {After(all, Connected(From(c.rest, all)))}
          \union {After(k, Unconnected) : k \in {k \in 0 .. all : left + k < n}}
          \union (IF TimesOut THEN {After(k, Connected(From(c.rest, k))) : k \in 0 .. all} ELSE {})

-----------------------------------------------------------------------------
(* Opening: http_streaming_start() and fixup_open().                       *)

StartFails(s) ==
  /\ pc' = "failed"
  /\ fd' = 0
  /\ socket' = s

(* Mutant: redirect keeps its value of the turn before. *)
RequestAgain ==
  /\ pc = "request"
  /\ \E r \in Requested(Close(socket, fd)) :
       IF r.fd = 0 THEN StartFails(r.socket)
       ELSE pc' = "response" /\ fd' = r.fd /\ socket' = r.socket
  /\ UNCHANGED <<opened, unread, metapos, done, stream, want>>

Request ==
  /\ pc = "request"
  /\ redirect' = FALSE
  /\ \E r \in Requested(Close(socket, fd)) :
       IF r.fd = 0 THEN StartFails(r.socket)
       ELSE pc' = "response" /\ fd' = r.fd /\ socket' = r.socket
  /\ UNCHANGED <<url, icy, seekable, unread, metapos, done, stream, want>>

Response == pc = "response" /\ UNCHANGED <<metapos, done, stream, want>>

(* No answer, or a status that is no success; a 401 too, for nothing sets  *)
(* network_username.                                                       *)
Refused ==
  /\ Response
  /\ StartFails(Close(socket, fd))
  /\ UNCHANGED <<opened, unread>>

(* A 301, 302 or 303; without Location, it leaves the loop into err_out.   *)
Redirected ==
  /\ Response
  /\ redirect' = (redirect \/ Location[url] # NoUrl)
  /\ url' = IF Location[url] # NoUrl THEN Location[url] ELSE url
  /\ IF redirect' THEN pc' = "request" /\ UNCHANGED <<fd, socket>>
     ELSE StartFails(Close(socket, fd))
  /\ UNCHANGED <<icy, seekable, unread>>

(* A 200, what came with the header left for the reader: of an ICY stream, *)
(* scast_streaming_start(), or nop_streaming_start().                      *)
Opened ==
  /\ Response
  /\ \E i, s \in BOOLEAN :
       /\ icy' = i /\ seekable' = (s /\ ~i)
       /\ LET body == IF i THEN IcyBody ELSE Plain IN
            \E k \in 0 .. Least(BodySize, Len(body)) :
              /\ buffer' = SubSeq(body, 1, k)
              /\ LinkIs(Connected(From(body, k)))
  /\ pc' = "ready"
  /\ UNCHANGED <<url, redirect, fd, buffer_pos>>

-----------------------------------------------------------------------------
(* Reading: stream_read() and stream_fill_buffer().                        *)

Take ==
  /\ pc = "ready" /\ buf_pos < Len(buf)
  /\ \E n \in 1 .. Len(buf) - buf_pos : buf_pos' = buf_pos + n /\ want' = want + n
  /\ UNCHANGED <<pc, opened, fd, socket, unread, metapos, done, buf, pos, eof, offset>>

Fill ==
  /\ pc = "ready" /\ buf_pos = Len(buf) /\ ~eof
  /\ pc' = "fill"
  /\ UNCHANGED <<opened, fd, socket, unread, metapos, done, stream, want>>

(* The end of stream_fill_buffer() with its bytes, and of the turn of      *)
(* stream_seek_long()'s loop; that one returns 0 at the end of the stream, *)
(* and its caller is where stream_tell() says.                             *)
Filled(bytes) ==
  /\ buf' = bytes
  /\ pos' = pos + Len(bytes)
  /\ eof' = (bytes = <<>>)
  /\ done' = <<>>
  /\ want' = IF offset # NoOffset /\ bytes = <<>> THEN pos ELSE want
  /\ IF offset > Len(bytes) /\ bytes # <<>>
     THEN pc' = "fill" /\ offset' = offset - Len(bytes) /\ buf_pos' = 0
     ELSE /\ pc' = "ready" /\ offset' = NoOffset
          /\ buf_pos' = IF offset = NoOffset \/ bytes = <<>> THEN 0 ELSE offset

(* Mutant: recv() may give a whole sector behind what was left. *)
NopFillOver ==
  /\ pc = "fill" /\ ~icy
  /\ LET left == SubSeq(buffer, buffer_pos + 1, Least(Len(buffer), buffer_pos + Sector))
         used == buffer_pos + Len(left) = Len(buffer)
     IN /\ buffer' = IF used THEN <<>> ELSE buffer
        /\ buffer_pos' = IF used THEN 0 ELSE buffer_pos + Len(left)
        /\ IF Len(left) = Sector THEN Filled(left) /\ UNCHANGED socket
           ELSE \E r \in Recv(Sector, Link) :
                  /\ LinkIs(r.from)
                  /\ Filled(SubSeq(left \o r.bytes, 1, Len(left) + r.ret))
  /\ UNCHANGED <<opened, fd, metapos>>

(* nop_streaming_read(): len is less by one when recv() fails.             *)
NopFill ==
  /\ pc = "fill" /\ ~icy
  /\ LET left == SubSeq(buffer, buffer_pos + 1, Least(Len(buffer), buffer_pos + Sector))
         used == buffer_pos + Len(left) = Len(buffer)
     IN /\ buffer' = IF used THEN <<>> ELSE buffer
        /\ buffer_pos' = IF used THEN 0 ELSE buffer_pos + Len(left)
        /\ IF Len(left) = Sector THEN Filled(left) /\ UNCHANGED socket
           ELSE \E r \in Recv(Sector - Len(left), Link) :
                  /\ LinkIs(r.from)
                  /\ Filled(SubSeq(left \o r.bytes, 1, Len(left) + r.ret))
  /\ UNCHANGED <<opened, fd, metapos>>

(* scast_streaming_read(): a block of audio up to the next metadata.       *)
IcyFill ==
  /\ pc = "fill" /\ icy
  /\ LET block == Least(MetaInt - metapos, Sector - Len(done)) IN
       \E r \in MyRead(block, buffer_pos, Link) :
         /\ LinkIs(r.from)
         /\ buffer_pos' = r.pos
         /\ metapos' = metapos + Len(r.got)
         /\ IF Len(r.got) = block /\ Len(done \o r.got) < Sector
            THEN /\ pc' = "meta" /\ done' = done \o r.got
                 /\ UNCHANGED <<stream, want>>
            ELSE Filled(done \o r.got)
  /\ UNCHANGED <<opened, fd, buffer>>

(* Its metadata: scast_meta_read() of a length, and of as many bytes.      *)
IcyMeta ==
  /\ pc = "meta"
  /\ \E l \in MyRead(1, buffer_pos, Link) :
       \E m \in MyRead(IF l.got = <<>> THEN 0 ELSE l.got[1][2], l.pos, l.from) :
         /\ LinkIs(m.from)
         /\ buffer_pos' = m.pos
  /\ metapos' = 0
  /\ pc' = "fill"
  /\ UNCHANGED <<opened, fd, buffer, done, stream, want>>

-----------------------------------------------------------------------------
(* Seeking: stream_seek(), with the reset before it, stream_seek_long()    *)
(* and http_seek().                                                        *)

(* stream_seek_long() gives up: it returns 0 with its buffer empty, and    *)
(* whoever looks finds itself where the stream was left.                   *)
SeekReturns == pc' = "ready" /\ offset' = NoOffset /\ want' = pos'

(* It goes on with fills until it has byte o of the sector, which is p.    *)
SeekFills(p, o) ==
  IF eof' THEN SeekReturns ELSE pc' = "fill" /\ offset' = o /\ want' = p

(* http_seek() without a connection or an answer: stream->fd keeps the     *)
(* number of the old one.                                                  *)
HttpSeekFails(r, p, q) ==
  /\ IF r.fd = 0 THEN socket' = r.socket
     ELSE socket' \in NoResponse(r.socket, r.fd, From(Plain, p))
  /\ pos' = q /\ SeekReturns
  /\ UNCHANGED <<fd, buffer>>

(* Mutant: what came with the header is not kept. *)
HttpSeekEndsDropping(r, p, o) ==
  /\ r.fd # 0
  /\ \/ fd' = 0 /\ socket' = Close(r.socket, r.fd)
     \/ /\ p < Size /\ fd' = r.fd
        /\ \E k \in 0 .. Least(BodySize, Size - p) :
             socket' = [r.socket EXCEPT ![r.fd] = Connected(From(Plain, p + k))]
  /\ pos' = p /\ SeekFills(p + o, o)
  /\ UNCHANGED buffer

(* With an answer: what came with the header of a 206, or of a 200 to no   *)
(* range, is left to the reader; a refusal is taken for a success without  *)
(* a connection. A server that took ranges when it was opened takes them.  *)
HttpSeekEnds(r, p, o) ==
  /\ r.fd # 0
  /\ \/ /\ fd' = 0 /\ socket' = Close(r.socket, r.fd)
        /\ UNCHANGED buffer
     \/ /\ p < Size /\ fd' = r.fd
        /\ \E k \in 0 .. Least(BodySize, Size - p) :
             /\ buffer' = IF k = 0 THEN buffer ELSE SubSeq(Plain, p + 1, p + k)
             /\ socket' = [r.socket EXCEPT ![r.fd] = Connected(From(Plain, p + k))]
  /\ pos' = p /\ SeekFills(p + o, o)

(* Mutant: the old connection is not closed. *)
HttpSeekOpen(p, q, o) ==
  \E r \in Requested(socket) : HttpSeekFails(r, p, q) \/ HttpSeekEnds(r, p, o)

(* http_seek() of a stream at position q to the start p of a sector: a new *)
(* connection.                                                             *)
HttpSeek(p, q, o) ==
  \E r \in Requested(Close(socket, fd)) : HttpSeekFails(r, p, q) \/ HttpSeekEnds(r, p, o)

(* stream_seek_long() to p of a stream that is at position q: nothing      *)
(* reconnects an ICY stream, which reads on where it is and returns 1, and *)
(* nop_streaming_seek() refuses.                                           *)
SeekLong(p, q) ==
  \E newpos \in {n \in 0 .. p : n % Sector = 0 /\ p < n + Sector} :
    LET stays == newpos # 0 /\ newpos = q IN
      /\ buf' = <<>> /\ buf_pos' = 0
      /\ \/ /\ stays \/ icy
            /\ pos' = q /\ SeekFills(p, p - newpos)
            /\ UNCHANGED <<fd, socket, buffer>>
         \/ /\ ~stays /\ seekable
            /\ HttpSeek(newpos, q, p - newpos)
         \/ /\ ~stays /\ ~seekable /\ ~icy
            /\ pos' = q /\ SeekReturns
            /\ UNCHANGED <<fd, socket, buffer>>

(* stream_seek() to p, with or without the stream_reset() before it; the   *)
(* filler has read before it seeks, for it begins inside of its window,    *)
(* and resets a stream that is at its end. It asks any stream to seek.     *)
Seek ==
  /\ pc = "ready"
  /\ pos > 0 \/ eof \/ "unread" \in Careless
  /\ \E p \in 0 .. Size, reset \in BOOLEAN :
       /\ reset \/ ~eof \/ "at eof" \in Careless
       /\ eof' = (eof /\ ~reset)
       /\ LET q == IF eof /\ reset THEN 0 ELSE pos IN
            IF p < q /\ p >= q - Len(buf)
            THEN /\ buf_pos' = p - (q - Len(buf))
                 /\ want' = p
                 /\ UNCHANGED <<pc, fd, socket, buffer, buf, pos, offset>>
            ELSE SeekLong(p, q)
  /\ UNCHANGED <<opened, buffer_pos, metapos, done>>

(* close_s() *)
CloseStream ==
  /\ pc = "ready"
  /\ pc' = "closed"
  /\ socket' = Close(socket, fd)
  /\ UNCHANGED <<opened, fd, unread, metapos, done, stream, want>>

-----------------------------------------------------------------------------
Working == Request \/ Refused \/ Redirected \/ Opened \/ NopFill \/ IcyFill \/ IcyMeta

Next == Working \/ Take \/ Fill \/ Seek \/ CloseStream

Spec == Init /\ [][Next]_vars

FairSpec == Spec /\ WF_vars(Working)

-----------------------------------------------------------------------------
(* What scast_streaming_read() takes the body of an ICY answer to be: the  *)
(* medium in blocks of MetaInt bytes, the k-th from start[k] on, with the  *)
(* length of its metadata behind each and then as many bytes of any kind.  *)
IcyBlocks(start) ==
  /\ start \in Seq(Nat) /\ start # <<>> /\ start[1] = 0
  /\ \A k \in DOMAIN start :
       LET end == start[k] + MetaInt IN
         /\ \A i \in 0 .. MetaInt - 1 :
              start[k] + i < Len(IcyBody) =>
                IcyBody[start[k] + i + 1] = Audio((k - 1) * MetaInt + i)
         /\ end < Len(IcyBody) =>
              /\ IcyBody[end + 1][1] = "length" /\ k < Len(start)
              /\ start[k + 1] = end + 1 + IcyBody[end + 1][2]

-----------------------------------------------------------------------------
TypeOK ==
  /\ pc \in {"request", "response", "failed", "ready", "fill", "meta", "closed"}
  /\ url \in Url /\ redirect \in BOOLEAN
  /\ fd \in 0 .. MaxFd
  /\ socket \in [Fd -> [is : {"closed", "unconnected", "connected"}, rest : Seq(Element)]]
  /\ icy \in BOOLEAN /\ seekable \in BOOLEAN
  /\ buffer \in Seq(Element) /\ buffer_pos \in 0 .. Len(buffer)
  /\ metapos \in 0 .. MetaInt
  /\ done \in Seq(Element) /\ Len(done) <= Sector
  /\ buf \in Seq(Element) /\ Len(buf) <= Sector
  /\ buf_pos \in 0 .. Len(buf)
  /\ pos \in Nat /\ eof \in BOOLEAN
  /\ offset \in NoOffset .. Sector - 1
  /\ want \in Nat

(* What the caller gets next is the medium from stream_tell() on, and that *)
(* is where the answers to its seeks have led it: whatever connections     *)
(* were made, refused and lost, whatever came with a header, whether the   *)
(* stream can seek or not, and without the metadata of an ICY stream. That *)
(* one alone says of a seek that it is where it was asked to go and is     *)
(* not, although it knows where it is (AnswersAreTrue).                    *)
Tell == pos + buf_pos - Len(buf)
Delivers ==
  pc = "ready" /\ buf # <<>> =>
    /\ ~icy => want = Tell
    /\ \A i \in buf_pos + 1 .. Len(buf) : buf[i] = Audio(Tell + i - buf_pos - 1)

(* A seek that returns 1 has led to where it was asked to go.              *)
AnswersAreTrue == pc = "ready" /\ buf # <<>> => want = Tell

(* However many connections were made, refused and lost, at most one of    *)
(* them is open, and it is the stream's, although http_seek() may leave    *)
(* the number of a closed one in stream->fd; a stream that failed to open  *)
(* or was closed leaves none.                                              *)
OneConnection ==
  \A n \in Fd : socket[n].is = "connected" => n = fd /\ pc \notin {"failed", "closed"}

(* No reader gives metadata for audio.                                     *)
NoMetadata == \A i \in 1 .. Len(buf) : buf[i][1] \notin {"length", "meta"}

(* Opening, reading and seeking end, if the redirections do.               *)
CallsEnd == pc \in {"request", "response", "fill", "meta"} ~> pc \in {"ready", "failed"}
==============================================================================
