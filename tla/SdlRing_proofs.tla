---------------------------- MODULE SdlRing_proofs ----------------------------
(***************************************************************************)
(* The ring never fills up and its two threads never touch the same cell,  *)
(* for every size of the ring and of a chunk; and the ring implements      *)
(* BoundedFifo.                                                            *)
(***************************************************************************)
EXTENDS SdlRing, SequenceTheorems, TLAPS

(* What a thread that has decided how much to copy relies on until it      *)
(* publishes: the other one can only have made more room, or more bytes.   *)
WriterFits == wpc \in {"copy", "publish"} => wlen <= buf_free
ReaderFits == rpc \in {"copy", "publish"} => rlen <= buf_used
ClosedIdle == device = "closed" => wpc = "idle" /\ rpc = "idle"

IInv == TypeOK /\ ChunkStaysEmpty /\ WriterFits /\ ReaderFits /\ ClosedIdle

(* A position that moves by at most one turn wraps at most once. *)
LEMMA Wrap ==
  ASSUME NEW p \in Pos, NEW len \in 0 .. Size
  PROVE  /\ Advance(p, len) \in Pos
         /\ Advance(p, len) = IF p + len < Size THEN p + len ELSE p + len - Size
<1>1. ASSUME NEW x \in Nat, x < 2 * Size
      PROVE  x % Size = IF x < Size THEN x ELSE x - Size
  BY <1>1, RingAssumption, SMTT(30)
<1> DEFINE x == p + len
<1>2. x \in Nat /\ x < 2 * Size
  BY RingAssumption DEF Pos
<1>3. x % Size = IF x < Size THEN x ELSE x - Size
  <2> HIDE DEF x
  <2> QED BY <1>1, <1>2
<1>4. Advance(p, len) = IF x < Size THEN x ELSE x - Size
  BY <1>3 DEF Advance
<1> QED
  BY <1>4, RingAssumption DEF Pos

(* What is free and what is used make up the ring but for one chunk. *)
LEMMA FreePlusUsed ==
  ASSUME TypeOK, ChunkStaysEmpty
  PROVE  /\ buf_free \in Nat
         /\ buf_used \in Nat
         /\ buf_free + buf_used = Size - Outburst
BY RingAssumption DEF TypeOK, ChunkStaysEmpty, buf_free, buf_used, Pos

(* Whatever init() leaves in the ring satisfies the invariant. *)
THEOREM InitIInv == Init => IInv
BY RingAssumption DEF Init, IInv, TypeOK, ChunkStaysEmpty, WriterFits, ReaderFits,
   ClosedIdle, buf_used, Pos

(* Every step of either thread and of the device preserves the invariant.  *)
THEOREM NextIInv == IInv /\ [Next]_vars => IInv'
<1> SUFFICES ASSUME IInv, [Next]_vars
             PROVE  IInv'
  OBVIOUS
<1> USE RingAssumption DEF IInv, ClosedIdle
<1>0. /\ buf_free \in Nat
      /\ buf_used \in Nat
      /\ buf_free + buf_used = Size - Outburst
  BY FreePlusUsed
<1>1. CASE Open
  BY <1>1 DEF Open, TypeOK, ChunkStaysEmpty, WriterFits, ReaderFits,
     buf_used, Pos, writer, reader
<1>2. CASE Pause \/ Resume \/ Close \/ DrainBegin \/ DrainEnd
  BY <1>2 DEF Pause, Resume, Close, DrainBegin, DrainEnd, TypeOK, ChunkStaysEmpty,
     WriterFits, ReaderFits, buf_used, buf_free, Pos, writer, reader
<1>3. ASSUME NEW len \in 0 .. MaxRequest, WriteBegin(len)
      PROVE  IInv'
  <2>1. (len \div Outburst) * Outburst \in Nat
    OBVIOUS
  <2>2. wlen' \in 0 .. Size /\ wlen' <= buf_free
    BY <1>0, <1>3, <2>1 DEF WriteBegin, Lesser
  <2> QED
    BY <1>3, <2>2 DEF WriteBegin, TypeOK, ChunkStaysEmpty, WriterFits, ReaderFits,
       buf_used, buf_free, reader
<1>4. CASE WriteCopy
  BY <1>4 DEF WriteCopy, TypeOK, ChunkStaysEmpty, WriterFits, ReaderFits,
     buf_used, buf_free, reader
<1>5. CASE WritePublish
  <2>1. wlen <= Size - Outburst - buf_used
    BY <1>0, <1>5 DEF WritePublish, WriterFits
  <2>2. /\ write_pos' \in Pos
        /\ write_pos' = IF write_pos + wlen < Size THEN write_pos + wlen
                        ELSE write_pos + wlen - Size
    BY <1>5, Wrap DEF WritePublish, TypeOK
  <2>3. buf_used' = buf_used + wlen
    BY <1>5, <2>1, <2>2 DEF WritePublish, buf_used, TypeOK, Pos
  <2>4. TypeOK'
    BY <1>5, <2>2 DEF WritePublish, TypeOK, reader
  <2> QED
    BY <1>0, <1>5, <2>1, <2>3, <2>4 DEF WritePublish, ChunkStaysEmpty, WriterFits,
       ReaderFits, TypeOK, reader
<1>6. ASSUME NEW len \in 1 .. MaxRequest, ReadBegin(len)
      PROVE  IInv'
  <2>1. rlen' \in 0 .. Size /\ rlen' <= buf_used
    BY <1>0, <1>6 DEF ReadBegin, Lesser
  <2> QED
    BY <1>6, <2>1 DEF ReadBegin, TypeOK, ChunkStaysEmpty, WriterFits, ReaderFits,
       buf_used, buf_free, writer
<1>7. CASE ReadCopy
  <2>1. \A i \in 1 .. rlen : Advance(read_pos, i - 1) \in Pos
    BY Wrap DEF TypeOK
  <2>2. stream' \in Seq(Byte)
    BY <1>7, <2>1 DEF ReadCopy, TypeOK
  <2> QED
    BY <1>7, <2>2 DEF ReadCopy, TypeOK, ChunkStaysEmpty, WriterFits, ReaderFits,
       buf_used, buf_free, writer
<1>8. CASE ReadPublish
  <2>1. rlen <= buf_used
    BY <1>8 DEF ReadPublish, ReaderFits
  <2>2. /\ read_pos' \in Pos
        /\ read_pos' = IF read_pos + rlen < Size THEN read_pos + rlen
                       ELSE read_pos + rlen - Size
    BY <1>8, Wrap DEF ReadPublish, TypeOK
  <2>3. buf_used' = buf_used - rlen
    BY <1>8, <2>1, <2>2 DEF ReadPublish, buf_used, TypeOK, Pos
  <2>4. TypeOK'
    BY <1>8, <2>2 DEF ReadPublish, TypeOK, writer
  <2>5. ChunkStaysEmpty'
    BY <1>0, <1>8, <2>1, <2>3 DEF ChunkStaysEmpty, TypeOK
  <2>6. buf_free' = buf_free + rlen
    BY <1>0, <1>8, <2>1, <2>2 DEF ReadPublish, buf_free, buf_used, TypeOK, Pos
  <2>7. WriterFits'
    BY <1>0, <1>8, <2>6 DEF ReadPublish, WriterFits, TypeOK, writer
  <2> QED
    BY <1>8, <2>4, <2>5, <2>7 DEF ReadPublish, ReaderFits, writer
<1>9. CASE UNCHANGED vars
  BY <1>9 DEF vars, writer, reader, TypeOK, ChunkStaysEmpty, WriterFits, ReaderFits,
     buf_used, buf_free
<1> QED
  BY <1>1, <1>2, <1>3, <1>4, <1>5, <1>6, <1>7, <1>8, <1>9
     DEF Next, Write, Playback, Control

(* The inductive invariant holds in every reachable state. *)
THEOREM SpecIInv == Spec => []IInv
BY InitIInv, NextIInv, PTL DEF Spec

(* The type invariant of the ring, for every size. *)
THEOREM SpecTypeOK == Spec => []TypeOK
<1>1. IInv => TypeOK
  BY DEF IInv
<1> QED
  BY <1>1, SpecIInv, PTL

(* One whole chunk of the ring always stays empty. *)
THEOREM SpecChunkStaysEmpty == Spec => []ChunkStaysEmpty
<1>1. IInv => ChunkStaysEmpty
  BY DEF IInv
<1> QED
  BY <1>1, SpecIInv, PTL

(* The writer and the callback copy disjoint cells. *)
THEOREM SpecNoDataRace == Spec => []NoDataRace
<1>1. IInv => NoDataRace
  <2> SUFFICES ASSUME IInv, wpc = "copy", rpc = "copy",
                      NEW i \in Region(write_pos, wlen), i \in Region(read_pos, rlen)
               PROVE  FALSE
    BY DEF NoDataRace
  <2>1. /\ wlen <= buf_free /\ rlen <= buf_used
        /\ buf_free + buf_used = Size - Outburst
    BY FreePlusUsed DEF IInv, WriterFits, ReaderFits
  <2>2. i \in Pos /\ Offset(i, write_pos) < wlen /\ Offset(i, read_pos) < rlen
    BY DEF Region
  <2> QED
    BY <2>1, <2>2, RingAssumption
       DEF IInv, TypeOK, Offset, buf_free, buf_used, Pos
<1> QED
  BY <1>1, SpecIInv, PTL

-----------------------------------------------------------------------------
(* The ring implements BoundedFifo. What a callback has copied stays the   *)
(* front of the queue until the callback publishes that it has taken it.   *)
StreamIsFront ==
  rpc = "publish" => stream = [i \in 1 .. rlen |-> buffer[Advance(read_pos, i - 1)]]

(* Two advances in a row are one. *)
LEMMA WrapTwice ==
  ASSUME NEW p \in Pos, NEW m \in 0 .. Size, NEW n \in 0 .. Size, m + n <= Size
  PROVE  Advance(Advance(p, m), n) = Advance(p, m + n)
<1>1. m + n \in 0 .. Size /\ Size \in Nat
  BY RingAssumption
<1>2. /\ Advance(p, m) \in Pos
      /\ Advance(p, m) = IF p + m < Size THEN p + m ELSE p + m - Size
  BY Wrap
<1>3. Advance(p, m + n) = IF p + (m + n) < Size THEN p + (m + n) ELSE p + (m + n) - Size
  BY <1>1, Wrap
<1>4. Advance(Advance(p, m), n) =
        IF Advance(p, m) + n < Size THEN Advance(p, m) + n ELSE Advance(p, m) + n - Size
  BY <1>2, Wrap
<1> QED
  BY <1>1, <1>2, <1>3, <1>4 DEF Pos

(* The cells of the bytes that wait are not those the writer copies into. *)
LEMMA WaitingUntouched ==
  ASSUME TypeOK, ChunkStaysEmpty, WriterFits, WriteCopy, NEW k \in Nat, k < buf_used
  PROVE  buffer'[Advance(read_pos, k)] = buffer[Advance(read_pos, k)]
<1> DEFINE c == Advance(read_pos, k)
<1>1. /\ buf_free \in Nat /\ buf_used \in Nat
      /\ buf_free + buf_used = Size - Outburst /\ wlen <= buf_free
  BY FreePlusUsed DEF WriteCopy, WriterFits
<1>2. k \in 0 .. Size
  BY <1>1, RingAssumption
<1>3. c \in Pos /\ c = IF read_pos + k < Size THEN read_pos + k ELSE read_pos + k - Size
  BY <1>2, Wrap DEF TypeOK
<1> HIDE DEF c
<1>4. ~(Offset(c, write_pos) < wlen)
  BY <1>1, <1>2, <1>3, RingAssumption DEF TypeOK, Offset, buf_free, buf_used, Pos
<1>5. c \in Pos \ Region(write_pos, wlen)
  BY <1>3, <1>4 DEF Region
<1> QED
  BY <1>5 DEF WriteCopy, c

(* The bytes of the queue, one by one. *)
QueueIsUsed ==
  /\ buf_used \in Nat /\ buf_used <= Size - Outburst
  /\ queue \in Seq(Byte)
  /\ Len(queue) = IF device = "closed" THEN 0 ELSE buf_used
  /\ \A i \in 1 .. Len(queue) : queue[i] = buffer[Advance(read_pos, i - 1)]

LEMMA QueueBytes == IInv => QueueIsUsed
<1> SUFFICES ASSUME IInv PROVE QueueIsUsed
  OBVIOUS
<1>1. buf_used \in Nat /\ buf_used <= Size
  BY FreePlusUsed, RingAssumption DEF IInv
<1>2. ASSUME NEW i \in 1 .. buf_used
      PROVE  buffer[Advance(read_pos, i - 1)] \in Byte
  <2>1. i - 1 \in 0 .. Size /\ read_pos \in Pos
    BY <1>1, RingAssumption DEF IInv, TypeOK
  <2>2. Advance(read_pos, i - 1) \in Pos
    BY <2>1, Wrap
  <2> QED
    BY <2>2 DEF IInv, TypeOK
<1>3. buf_used <= Size - Outburst
  BY DEF IInv, ChunkStaysEmpty
<1> QED
  BY <1>1, <1>2, <1>3 DEF queue, QueueIsUsed

(* Two ways to say that a sequence starts, or ends, with another. *)
LEMMA FrontOf ==
  ASSUME NEW S, NEW s \in Seq(S), NEW r \in Seq(S), Len(r) <= Len(s),
         \A i \in 1 .. Len(r) : r[i] = s[i]
  PROVE  SubSeq(s, 1, Len(r)) = r
<1>1. Len(r) \in Nat
  OBVIOUS
<1>2. /\ SubSeq(s, 1, Len(r)) \in Seq(S) /\ Len(SubSeq(s, 1, Len(r))) = Len(r)
      /\ \A i \in 1 .. Len(r) : SubSeq(s, 1, Len(r))[i] = s[i]
  BY <1>1
<1> QED
  BY <1>2, SeqEqual

LEMMA BackOf ==
  ASSUME NEW S, NEW s \in Seq(S), NEW n \in 0 .. Len(s), NEW r \in Seq(S),
         Len(r) = Len(s) - n,
         \A i \in 1 .. Len(r) : r[i] = s[n + i]
  PROVE  SubSeq(s, n + 1, Len(s)) = r
<1> DEFINE b == SubSeq(s, n + 1, Len(s))
<1>1. Len(r) \in Nat /\ Len(s) \in Nat
  OBVIOUS
<1>2. b \in Seq(S) /\ Len(b) = Len(r)
  BY <1>1
<1>3. \A i \in 1 .. Len(r) : b[i] = s[n + i]
  BY <1>1
<1> QED
  BY <1>2, <1>3, SeqEqual

(* The audio thread publishes what it has copied: bytes are put at the end. *)
LEMMA PublishPuts ==
  ASSUME IInv, IInv', WritePublish
  PROVE  Fifo!Put
<1>1. /\ device # "closed" /\ device' = device /\ buffer' = buffer
      /\ read_pos' = read_pos /\ played' = played
      /\ write_pos' = Advance(write_pos, wlen)
  BY DEF WritePublish, IInv, ClosedIdle
<1>2. /\ buf_free \in Nat /\ buf_used \in Nat
      /\ buf_free + buf_used = Size - Outburst /\ wlen <= buf_free
  BY FreePlusUsed DEF IInv, WritePublish, WriterFits
<1>3. QueueIsUsed /\ QueueIsUsed'
  BY QueueBytes, PTL
<1>4. buf_used' >= buf_used
  <2>1. /\ write_pos' \in Pos
        /\ write_pos' = IF write_pos + wlen < Size THEN write_pos + wlen
                        ELSE write_pos + wlen - Size
    BY <1>1, Wrap DEF IInv, TypeOK
  <2> QED
    BY <1>1, <1>2, <2>1, RingAssumption DEF buf_used, IInv, TypeOK, Pos
<1>5. /\ queue \in Seq(Byte) /\ Len(queue) = buf_used
      /\ \A i \in 1 .. Len(queue) : queue[i] = buffer[Advance(read_pos, i - 1)]
  BY <1>1, <1>3 DEF QueueIsUsed
<1>6. /\ queue' \in Seq(Byte) /\ Len(queue') = buf_used'
      /\ buf_used' \in Nat /\ buf_used' <= Size - Outburst
      /\ \A i \in 1 .. Len(queue') : queue'[i] = buffer[Advance(read_pos, i - 1)]
  BY <1>1, <1>3 DEF QueueIsUsed
<1>7. \A i \in 1 .. Len(queue) : queue[i] = queue'[i]
  <2>1. \A i \in 1 .. Len(queue) : i \in 1 .. Len(queue')
    BY <1>2, <1>4, <1>5, <1>6
  <2> QED
    BY <1>5, <1>6, <2>1
<1>8. SubSeq(queue', 1, Len(queue)) = queue
  BY <1>4, <1>5, <1>6, <1>7, FrontOf
<1>9. Len(queue') \in Len(queue) .. (Size - Outburst)
  BY <1>2, <1>4, <1>5, <1>6, RingAssumption
<1> QED
  BY <1>1, <1>8, <1>9 DEF Fifo!Put

(* The callback publishes what it has taken: the front of the queue.       *)
LEMMA PublishGets ==
  ASSUME IInv, IInv', StreamIsFront, ReadPublish
  PROVE  [Fifo!Get]_Fifo!vars
<1>1. /\ device # "closed" /\ device' = device /\ buffer' = buffer
      /\ write_pos' = write_pos /\ read_pos' = Advance(read_pos, rlen)
      /\ played' = IF rlen = 0 THEN played ELSE stream
      /\ stream = [i \in 1 .. rlen |-> buffer[Advance(read_pos, i - 1)]]
  BY DEF ReadPublish, IInv, ClosedIdle, StreamIsFront, writer
<1>2. buf_used \in Nat /\ buf_used <= Size /\ rlen \in 0 .. Size /\ rlen <= buf_used
  <2>1. rlen <= buf_used /\ rlen \in 0 .. Size
    BY DEF IInv, ReadPublish, ReaderFits, TypeOK
  <2> QED
    BY <2>1, FreePlusUsed, RingAssumption DEF IInv
<1>3. read_pos \in Pos /\ write_pos \in Pos /\ stream \in Seq(Byte)
  BY DEF IInv, TypeOK
<1>4. buf_used' = buf_used - rlen
  <2>1. read_pos' = IF read_pos + rlen < Size THEN read_pos + rlen
                    ELSE read_pos + rlen - Size
    BY <1>1, <1>2, <1>3, Wrap
  <2> QED
    BY <1>1, <1>2, <1>3, <2>1, RingAssumption DEF buf_used, Pos
<1>5. /\ queue \in Seq(Byte) /\ Len(queue) = buf_used
      /\ \A i \in 1 .. Len(queue) : queue[i] = buffer[Advance(read_pos, i - 1)]
  BY <1>1, QueueBytes DEF QueueIsUsed
<1>6. /\ queue' \in Seq(Byte) /\ Len(queue') = buf_used - rlen
      /\ \A i \in 1 .. Len(queue') : queue'[i] = buffer[Advance(read_pos', i - 1)]
  <2>1. QueueIsUsed'
    BY QueueBytes, PTL
  <2> QED
    BY <1>1, <1>4, <2>1 DEF QueueIsUsed
<1>7. ASSUME NEW i \in 1 .. Len(queue')
      PROVE  queue'[i] = queue[rlen + i]
  <2>1. /\ i - 1 \in 0 .. Size /\ rlen + (i - 1) <= Size
        /\ rlen + i \in 1 .. Len(queue) /\ (rlen + i) - 1 = rlen + (i - 1)
    <3>1. i \in 1 .. (buf_used - rlen) /\ Size \in Nat
      BY <1>6, RingAssumption
    <3>2. /\ i \in Nat /\ 1 <= i /\ i + rlen <= buf_used
          /\ rlen \in Nat /\ buf_used \in Nat
      BY <1>2, <3>1
    <3> QED
      BY <1>2, <1>5, <3>1, <3>2
  <2>2. Advance(read_pos', i - 1) = Advance(read_pos, (rlen + i) - 1)
    BY <1>1, <1>2, <1>3, <2>1, WrapTwice
  <2> QED
    BY <1>5, <1>6, <2>1, <2>2
<1>8. queue' = SubSeq(queue, rlen + 1, Len(queue))
  BY <1>2, <1>5, <1>6, <1>7, BackOf
<1>9. CASE rlen = 0
  <2>1. queue' = queue
    BY <1>5, <1>6, <1>7, <1>9, SeqEqual
  <2> QED
    BY <1>1, <1>9, <2>1 DEF Fifo!vars
<1>10. CASE rlen # 0
  <2>1. Len(stream) = rlen
    BY <1>1, <1>2, <1>3
  <2>2. \A i \in 1 .. Len(stream) : stream[i] = queue[i]
    BY <1>1, <1>2, <1>5, <2>1
  <2>3. SubSeq(queue, 1, rlen) = stream
    BY <1>2, <1>3, <1>5, <2>1, <2>2, FrontOf
  <2>4. rlen \in 1 .. Len(queue)
    BY <1>2, <1>5, <1>10
  <2> QED
    BY <1>1, <1>8, <1>10, <2>3, <2>4 DEF Fifo!Get
<1> QED
  BY <1>9, <1>10

(* The bytes that wait, and the copy of the callback, outlast a write.     *)
LEMMA CopyKeeps ==
  ASSUME IInv, IInv', StreamIsFront, WriteCopy
  PROVE  StreamIsFront' /\ UNCHANGED Fifo!vars
<1>1. /\ device' = device /\ read_pos' = read_pos /\ write_pos' = write_pos
      /\ played' = played /\ stream' = stream /\ rpc' = rpc /\ rlen' = rlen
  BY DEF WriteCopy, reader
<1>2. buf_used' = buf_used /\ buf_used \in Nat
  BY <1>1, FreePlusUsed DEF buf_used, IInv
<1>3. \A k \in Nat : k < buf_used =>
        buffer'[Advance(read_pos, k)] = buffer[Advance(read_pos, k)]
  BY WaitingUntouched DEF IInv
<1>4. StreamIsFront'
  <2> SUFFICES ASSUME rpc = "publish"
               PROVE  stream = [i \in 1 .. rlen |-> buffer'[Advance(read_pos, i - 1)]]
    BY <1>1 DEF StreamIsFront, Advance
  <2>1. rlen \in Nat /\ rlen <= buf_used
    BY DEF IInv, ReaderFits, TypeOK
  <2>2. \A i \in 1 .. rlen : i - 1 \in Nat /\ i - 1 < buf_used
    BY <1>2, <2>1
  <2>3. \A i \in 1 .. rlen :
          buffer'[Advance(read_pos, i - 1)] = buffer[Advance(read_pos, i - 1)]
    BY <1>3, <2>2
  <2> QED
    BY <2>3 DEF StreamIsFront
<1>5. queue' = queue
  <2>1. /\ queue \in Seq(Byte) /\ queue' \in Seq(Byte) /\ Len(queue') = Len(queue)
        /\ Len(queue) <= buf_used
        /\ \A i \in 1 .. Len(queue) :
             /\ queue[i] = buffer[Advance(read_pos, i - 1)]
             /\ queue'[i] = buffer'[Advance(read_pos, i - 1)]
    <3>1. QueueIsUsed /\ QueueIsUsed'
      BY QueueBytes, PTL
    <3> QED
      BY <1>1, <1>2, <3>1 DEF QueueIsUsed, Advance
  <2>2. \A i \in 1 .. Len(queue) : i - 1 \in Nat /\ i - 1 < buf_used
    BY <1>2, <2>1
  <2> QED
    BY <1>3, <2>1, <2>2, SeqEqual
<1> QED
  BY <1>1, <1>4, <1>5 DEF Fifo!vars

(* A step that touches neither the bytes that wait nor what was played. *)
LEMMA QueueKept ==
  ASSUME UNCHANGED <<buffer, read_pos, write_pos, played>>,
         device' = "closed" <=> device = "closed"
  PROVE  UNCHANGED Fifo!vars
BY DEF Fifo!vars, queue, buf_used, Advance

THEOREM NextPlaysInOrder ==
  IInv /\ IInv' /\ StreamIsFront /\ [Next]_vars => StreamIsFront' /\ [Fifo!Next]_Fifo!vars
<1> SUFFICES ASSUME IInv, IInv', StreamIsFront, [Next]_vars
             PROVE  StreamIsFront' /\ [Fifo!Next]_Fifo!vars
  OBVIOUS
<1>1. CASE Open
  <2>1. rpc' # "publish" /\ played' = played /\ device = "closed"
    BY <1>1 DEF Open, IInv, ClosedIdle, reader
  <2>2. buf_used' = 0
    BY <1>1 DEF Open, buf_used
  <2>3. queue = <<>> /\ queue' = <<>>
    <3>1. QueueIsUsed /\ QueueIsUsed'
      BY QueueBytes, PTL
    <3>2. /\ queue \in Seq(Byte) /\ Len(queue) = 0
          /\ queue' \in Seq(Byte) /\ Len(queue') = 0
      BY <2>1, <2>2, <3>1 DEF QueueIsUsed
    <3> QED
      BY <3>2, EmptySeq
  <2> QED
    BY <2>1, <2>3 DEF StreamIsFront, Fifo!vars
<1>2. CASE Close
  <2>1. rpc' # "publish" /\ played' = played /\ device' = "closed"
    BY <1>2 DEF Close, reader
  <2>2. queue' = <<>>
    BY <2>1 DEF queue
  <2> QED
    BY <2>1, <2>2 DEF StreamIsFront, Fifo!Next, Fifo!Clear
<1>3. ASSUME \/ Pause \/ Resume \/ DrainBegin \/ DrainEnd
             \/ \E len \in 0 .. MaxRequest : WriteBegin(len)
             \/ UNCHANGED vars
      PROVE  StreamIsFront' /\ [Fifo!Next]_Fifo!vars
  <2>1. /\ UNCHANGED <<buffer, read_pos, write_pos, played, stream, rpc, rlen>>
        /\ device' = "closed" <=> device = "closed"
    BY <1>3 DEF Pause, Resume, DrainBegin, DrainEnd, WriteBegin, vars, reader
  <2> QED
    BY <2>1, QueueKept DEF StreamIsFront, Advance
<1>4. CASE WriteCopy
  BY <1>4, CopyKeeps
<1>5. CASE WritePublish
  <2>1. StreamIsFront'
    BY <1>5 DEF WritePublish, StreamIsFront, Advance, reader
  <2> QED
    BY <1>5, <2>1, PublishPuts DEF Fifo!Next
<1>6. ASSUME NEW len \in 1 .. MaxRequest, ReadBegin(len)
      PROVE  StreamIsFront' /\ [Fifo!Next]_Fifo!vars
  <2>1. /\ UNCHANGED <<buffer, read_pos, write_pos, played, device>> /\ rpc' = "copy"
    BY <1>6 DEF ReadBegin
  <2> QED
    BY <2>1, QueueKept DEF StreamIsFront
<1>7. CASE ReadCopy
  <2>1. UNCHANGED <<buffer, read_pos, write_pos, played, device>>
    BY <1>7 DEF ReadCopy
  <2>2. StreamIsFront'
    BY <1>7 DEF ReadCopy, StreamIsFront, Advance
  <2> QED
    BY <2>1, <2>2, QueueKept
<1>8. CASE ReadPublish
  <2>1. rpc' # "publish"
    BY <1>8 DEF ReadPublish
  <2> QED
    BY <1>8, <2>1, PublishGets DEF StreamIsFront, Fifo!Next
<1> QED
  BY <1>1, <1>2, <1>3, <1>4, <1>5, <1>6, <1>7, <1>8 DEF Next, Write, Playback, Control

(* The unlocked ring of the SDL output implements BoundedFifo: whatever    *)
(* the interleaving of write() and the callback, bytes are played in the   *)
(* order they were written, each once, and none is overwritten while it    *)
(* waits, for every size of the ring, of a chunk and of a request.         *)
THEOREM SpecPlaysInOrder == Spec => PlaysInOrder
<1>1. Init => StreamIsFront /\ Fifo!Init
  BY DEF Init, StreamIsFront, Fifo!Init, queue
<1> QED
  BY <1>1, SpecIInv, NextPlaysInOrder, PTL DEF Spec, PlaysInOrder, Fifo!Spec
==============================================================================
