------------------------------- MODULE SdlRing -------------------------------
(***************************************************************************)
(* The ring buffer of the SDL audio output (audiosys/audiosys_sdl.cpp):    *)
(* the audio thread writes, SDL's playback thread reads from the callback  *)
(* outputaudio(), no lock is taken. write_pos is stored by the writer only *)
(* and read_pos by the reader only. A copy and the store of the position   *)
(* that publishes it are separate steps of the thread.                     *)
(*                                                                         *)
(* Also here, because its guard is the ring's: the loop in                 *)
(* ThreadAudio::onRunProcess that waits at end of file for the device.     *)
(***************************************************************************)
EXTENDS Integers, Sequences

CONSTANTS
  Size,        \* m_buffersize
  Outburst,    \* m_outburst
  Byte,        \* the values of an audio byte
  MaxRequest,  \* the most bytes asked of one write() or one callback
  DelayLimit   \* the .04 s of threadaudio.cpp:352, in bytes

(* audiosys_sdl.cpp:233: the size SDL obtained plus one chunk. *)
ASSUME RingAssumption ==
  /\ Outburst \in Nat \ {0}
  /\ Size \in Nat
  /\ Outburst < Size
  /\ MaxRequest \in Nat \ {0}
  /\ DelayLimit \in Nat
  /\ Byte # {}

VARIABLES
  device,     \* whether SDL has the device closed, paused or playing
  buffer, read_pos, write_pos,
  wpc, wlen,  \* the audio thread: where it is in write(), the len it copies
  rpc, rlen,  \* the playback thread, likewise
  stream,     \* what the callback has put in SDL's stream so far
  played      \* history: the last stream a callback returned to SDL

writer == <<wpc, wlen>>
reader == <<rpc, rlen>>
vars == <<device, buffer, read_pos, write_pos, writer, reader, stream, played>>

Pos == 0 .. Size - 1

Lesser(a, b) == IF a < b THEN a ELSE b

(* Mutant: only one byte is kept unused. *)
buf_freeButOne ==
  LET free == read_pos - write_pos - 1
  IN  IF free < 0 THEN free + Size ELSE free

buf_free ==
  LET free == read_pos - write_pos - Outburst
  IN  IF free < 0 THEN free + Size ELSE free

buf_used ==
  LET used == write_pos - read_pos
  IN  IF used < 0 THEN used + Size ELSE used

(* get_delay(), in bytes: times m_bps. *)
get_delay == (Size - Outburst - buf_free) + Size

(* Mutant: a position that does not wrap. *)
AdvanceStraight(p, len) == p + len

(* The position len cells after p. *)
Advance(p, len) == (p + len) % Size

(* The cells from p on, and how far cell i is from p. *)
Offset(i, p) == IF i < p THEN i - p + Size ELSE i - p
Region(p, len) == {i \in Pos : Offset(i, p) < len}

Init ==
  /\ device = "closed"
  /\ buffer \in [Pos -> Byte]
  /\ read_pos = 0 /\ write_pos = 0
  /\ wpc = "idle" /\ wlen = 0
  /\ rpc = "idle" /\ rlen = 0
  /\ stream = <<>> /\ played = <<>>

-----------------------------------------------------------------------------
(* The audio thread.                                                       *)

(* init(): the positions are reset while the device is paused; what        *)
(* malloc() returns holds any bytes.                                       *)
Open ==
  /\ device = "closed"
  /\ buffer' \in [Pos -> Byte]
  /\ read_pos' = 0 /\ write_pos' = 0
  /\ device' = "playing"
  /\ UNCHANGED <<writer, reader, stream, played>>

Pause ==
  /\ device = "playing" /\ wpc = "idle"
  /\ device' = "paused"
  /\ UNCHANGED <<buffer, read_pos, write_pos, writer, reader, stream, played>>

Resume ==
  /\ device = "paused" /\ wpc = "idle"
  /\ device' = "playing"
  /\ UNCHANGED <<buffer, read_pos, write_pos, writer, reader, stream, played>>

(* uninit(): SDL_CloseAudio() returns once no callback is running. *)
Close ==
  /\ device # "closed" /\ wpc = "idle" /\ rpc = "idle"
  /\ device' = "closed"
  /\ UNCHANGED <<buffer, read_pos, write_pos, writer, reader, stream, played>>

(* Mutant: write_buffer() does not look at what is free. *)
WriteBeginAnyway(len) ==
  /\ device # "closed" /\ wpc = "idle"
  /\ wlen' = (len \div Outburst) * Outburst
  /\ wpc' = "copy"
  /\ UNCHANGED <<device, buffer, read_pos, write_pos, reader, stream, played>>

(* write(): len is rounded down to whole chunks, then to what is free. *)
WriteBegin(len) ==
  /\ device # "closed" /\ wpc = "idle"
  /\ wlen' = Lesser((len \div Outburst) * Outburst, buf_free)
  /\ wpc' = "copy"
  /\ UNCHANGED <<device, buffer, read_pos, write_pos, reader, stream, played>>

WriteCopy ==
  /\ wpc = "copy"
  /\ buffer' \in {b \in [Pos -> Byte] :
                    \A i \in Pos \ Region(write_pos, wlen) : b[i] = buffer[i]}
  /\ wpc' = "publish"
  /\ UNCHANGED <<device, read_pos, write_pos, wlen, reader, stream, played>>

WritePublish ==
  /\ wpc = "publish"
  /\ write_pos' = Advance(write_pos, wlen)
  /\ wpc' = "idle"
  /\ UNCHANGED <<device, buffer, read_pos, wlen, reader, stream, played>>

(* while(audio_out->get_delay() > .04); *)
DrainBegin ==
  /\ device = "playing" /\ wpc = "idle"
  /\ wpc' = "drain"
  /\ UNCHANGED <<device, buffer, read_pos, write_pos, wlen, reader, stream, played>>

DrainEnd ==
  /\ wpc = "drain"
  /\ get_delay <= DelayLimit
  /\ wpc' = "idle"
  /\ UNCHANGED <<device, buffer, read_pos, write_pos, wlen, reader, stream, played>>

-----------------------------------------------------------------------------
(* SDL's playback thread: outputaudio() and read_buffer().                 *)

ReadBegin(len) ==
  /\ device = "playing" /\ rpc = "idle"
  /\ rlen' = Lesser(len, buf_used)
  /\ rpc' = "copy"
  /\ UNCHANGED <<device, buffer, read_pos, write_pos, writer, stream, played>>

(* Mutant: the second part of a wrapped read starts where the first did. *)
ReadCopyUnwrapped ==
  /\ rpc = "copy"
  /\ stream' = [i \in 1 .. rlen |->
                  buffer[IF read_pos + i - 1 < Size THEN read_pos + i - 1 ELSE read_pos]]
  /\ rpc' = "publish"
  /\ UNCHANGED <<device, buffer, read_pos, write_pos, writer, rlen, played>>

ReadCopy ==
  /\ rpc = "copy"
  /\ stream' = [i \in 1 .. rlen |-> buffer[Advance(read_pos, i - 1)]]
  /\ rpc' = "publish"
  /\ UNCHANGED <<device, buffer, read_pos, write_pos, writer, rlen, played>>

(* Mutant: the callback plays the same bytes again and again. *)
ReadPublishNothing ==
  /\ rpc = "publish"
  /\ played' = IF rlen = 0 THEN played ELSE stream
  /\ rpc' = "idle"
  /\ UNCHANGED <<device, buffer, read_pos, write_pos, writer, rlen, stream>>

ReadPublish ==
  /\ rpc = "publish"
  /\ read_pos' = Advance(read_pos, rlen)
  /\ played' = IF rlen = 0 THEN played ELSE stream
  /\ rpc' = "idle"
  /\ UNCHANGED <<device, buffer, write_pos, writer, rlen, stream>>

-----------------------------------------------------------------------------
Write ==
  \/ \E len \in 0 .. MaxRequest : WriteBegin(len)
  \/ WriteCopy \/ WritePublish
Playback ==
  \/ \E len \in 1 .. MaxRequest : ReadBegin(len)
  \/ ReadCopy \/ ReadPublish
Control == Open \/ Pause \/ Resume \/ Close \/ DrainBegin \/ DrainEnd

Next == Write \/ Playback \/ Control

Spec == Init /\ [][Next]_vars

(* SDL keeps calling back while it plays; a wait that may end does. *)
FairSpec == Spec /\ WF_vars(Playback) /\ SF_vars(DrainEnd)

-----------------------------------------------------------------------------
(* Types.                                                                  *)
TypeOK ==
  /\ device \in {"closed", "paused", "playing"}
  /\ buffer \in [Pos -> Byte]
  /\ read_pos \in Pos /\ write_pos \in Pos
  /\ wpc \in {"idle", "copy", "publish", "drain"}
  /\ wlen \in 0 .. Size
  /\ rpc \in {"idle", "copy", "publish"}
  /\ rlen \in 0 .. Size
  /\ stream \in Seq(Byte)
  /\ played \in Seq(Byte)

(* One whole chunk always stays empty, so a full ring never looks empty,   *)
(* although neither thread sees the other's position change under it.      *)
ChunkStaysEmpty == buf_used <= Size - Outburst

(* The cells that the audio thread is filling and those that the callback  *)
(* is mixing are disjoint: the missing lock costs no torn byte.            *)
NoDataRace ==
  wpc = "copy" /\ rpc = "copy" =>
    Region(write_pos, wlen) \cap Region(read_pos, rlen) = {}

(* At end of file the thread waits for the device to run dry and goes on.  *)
DrainEnds == wpc = "drain" ~> wpc # "drain"

(* While the thread waits at end of file the device plays all that is left, *)
(* unless the wait has ended before.                                       *)
DrainPlaysAll == wpc = "drain" ~> buf_used = 0 \/ wpc # "drain"

-----------------------------------------------------------------------------
(* Refinement: what waits is what lies between the two positions.          *)
queue ==
  IF device = "closed" THEN <<>>
  ELSE [i \in 1 .. buf_used |-> buffer[Advance(read_pos, i - 1)]]

Fifo == INSTANCE BoundedFifo WITH Capacity <- Size - Outburst

(* The ring implements a bounded FIFO.                                     *)
PlaysInOrder == Fifo!Spec
==============================================================================
