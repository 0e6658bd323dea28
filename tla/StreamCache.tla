------------------------------ MODULE StreamCache ------------------------------
(***************************************************************************)
(* The stream cache (stream/cache.cpp). A filler process, forked by        *)
(* stream_enable_cache(), runs cache_fill() for ever over a ring in shared *)
(* memory; the audio thread reads the stream through it with cache_read()  *)
(* and moves in it with cache_stream_seek_long(). There is no lock: each   *)
(* load and store of a shared variable that the other process may change   *)
(* in between is a step.                                                   *)
(*                                                                         *)
(* A byte of the file is its position: a cell of the ring holds the        *)
(* position in the file of the byte that was read into it.                 *)
(***************************************************************************)
EXTENDS Integers, Sequences

CONSTANTS
  BufferSize,  \* buffer_size
  Sector,      \* sector_size, also STREAM_BUFFER_SIZE
  FillLimit,   \* fill_limit, 8 sectors
  MaxBlock,    \* the most that one cache_fill() reads, 4 sectors
  SeekLimit,   \* seek_limit as asked for
  Prefill,     \* min as asked for
  FileEnd,     \* length of the file
  Streamed,    \* whether the type is STREAMTYPE_STREAM
  Seekable,    \* whether the stream below can seek
  SeekTargets  \* where the demuxer seeks to; none: it reads straight on

(* cache_init() makes the ring at least 16 sectors. *)
ASSUME CacheAssumption ==
  /\ Sector \in Nat \ {0}
  /\ MaxBlock \in Nat \ {0}
  /\ FillLimit \in Nat
  /\ BufferSize \in Nat
  /\ MaxBlock <= FillLimit
  /\ 2 * FillLimit <= BufferSize
  /\ SeekLimit \in Nat
  /\ Prefill \in Nat
  /\ FileEnd \in Nat
  /\ Streamed \in BOOLEAN
  /\ Seekable \in BOOLEAN
  /\ SeekTargets \subseteq 0 .. FileEnd

VARIABLES
  buffer, eof, min_filepos, max_filepos, offset, read_filepos,  \* shared
  fpc, fread, fpos, flen,  \* filler: read, pos, and space, then len
  filepos,                 \* filler: how far its own stream has been read
  rpc, rpos, rlen,         \* reader: pos, newb
  stream_pos, stream_eof,  \* reader: pos and eof of its stream_t
  chunk                    \* reader: what this cache_read() has copied so far

window == <<min_filepos, max_filepos, offset>>
filler == <<fpc, fread, fpos, flen, filepos>>
reader == <<rpc, rpos, rlen, stream_pos, stream_eof, chunk>>
vars == <<buffer, eof, window, read_filepos, filler, reader>>

Lesser(a, b) == IF a < b THEN a ELSE b
Greater(a, b) == IF a < b THEN b ELSE a

Garbage == -1  \* a cell never filled

back_size == BufferSize \div 2

(* "make sure that we won't wait from cache_fill more data than it is      *)
(* alowed to fill"                                                         *)
seek_limit == Lesser(SeekLimit, BufferSize - FillLimit)
prefill == Lesser(Prefill, BufferSize - FillLimit)

(* The cell of the byte at distance pos from offset. *)
Cell(pos) ==
  IF pos < 0 THEN pos + BufferSize
  ELSE IF pos >= BufferSize THEN pos - BufferSize ELSE pos

Init ==
  /\ buffer = [i \in 0 .. BufferSize - 1 |-> Garbage]
  /\ eof = FALSE
  /\ min_filepos = 0 /\ max_filepos = 0 /\ offset = 0 /\ read_filepos = 0
  /\ fpc = "begin" /\ fread = 0 /\ fpos = 0 /\ flen = 0 /\ filepos = 0
  /\ rpc = "prefill" /\ rpos = 0 /\ rlen = 0
  /\ stream_pos = 0 /\ stream_eof = FALSE
  /\ chunk = <<>>

-----------------------------------------------------------------------------
(* The filler: one turn of the loop around cache_fill().                   *)

(* Mutant: a reader behind the window is not noticed. *)
OutOfWindowAhead(read) ==
  read > max_filepos /\ (~Streamed \/ read >= max_filepos + seek_limit)

(* Whether the window is dropped for a reader at position read. *)
OutOfWindow(read) ==
  \/ read < min_filepos
  \/ read > max_filepos /\ (~Streamed \/ read >= max_filepos + seek_limit)

FillBegin ==
  /\ fpc = "begin"
  /\ fread' = read_filepos
  /\ fpc' = IF OutOfWindow(read_filepos) THEN "drop_max" ELSE "plan"
  /\ UNCHANGED <<buffer, eof, window, read_filepos, fpos, flen, filepos, reader>>

(* s->offset = s->min_filepos = s->max_filepos = read stores from the      *)
(* right.                                                                  *)
DropMax ==
  /\ fpc = "drop_max"
  /\ max_filepos' = fread
  /\ fpc' = "drop_min"
  /\ UNCHANGED <<buffer, eof, min_filepos, offset, read_filepos,
                 fread, fpos, flen, filepos, reader>>

DropMin ==
  /\ fpc = "drop_min"
  /\ min_filepos' = fread
  /\ fpc' = "drop_offset"
  /\ UNCHANGED <<buffer, eof, max_filepos, offset, read_filepos,
                 fread, fpos, flen, filepos, reader>>

(* The seek's result is not looked at: a stream that cannot seek stays     *)
(* where it is.                                                            *)
DropOffset ==
  /\ fpc = "drop_offset"
  /\ offset' = fread
  /\ filepos' = IF Seekable THEN fread ELSE filepos
  /\ fpc' = "plan"
  /\ UNCHANGED <<buffer, eof, min_filepos, max_filepos, read_filepos,
                 fread, fpos, flen, reader>>

(* back, newb, the free space, and what of it one read takes. *)
Back == Lesser(Greater(fread - min_filepos, 0), back_size)
Newb == Greater(max_filepos - fread, 0)

(* Mutants: old bytes are never given up; new ones are not counted. *)
SpaceKeepingAll == BufferSize - (Newb + Greater(fread - min_filepos, 0))
SpaceOverNew == BufferSize - Back

Space == BufferSize - (Newb + Back)
FillPos == Cell(max_filepos - offset)
Block == Lesser(Lesser(Space, BufferSize - FillPos), MaxBlock)

(* Mutant: the bytes about to be overwritten stay in the window. *)
FillPlanKeepMin ==
  /\ fpc = "plan"
  /\ IF Space < FillLimit
     THEN fpc' = "begin" /\ UNCHANGED <<min_filepos, fpos, flen>>
     ELSE /\ fpc' = "read"
          /\ fpos' = FillPos
          /\ flen' = Block
          /\ UNCHANGED min_filepos
  /\ UNCHANGED <<buffer, eof, max_filepos, offset, read_filepos, fread, filepos, reader>>

(* Mutant: any free space is filled. *)
FillPlanAnySpace ==
  /\ fpc = "plan"
  /\ IF Space <= 0
     THEN fpc' = "begin" /\ UNCHANGED <<min_filepos, fpos, flen>>
     ELSE /\ fpc' = "read"
          /\ fpos' = FillPos
          /\ flen' = Block
          /\ min_filepos' = Greater(min_filepos, fread - (BufferSize - (Block + Newb)))
  /\ UNCHANGED <<buffer, eof, max_filepos, offset, read_filepos, fread, filepos, reader>>

(* The window gives up what the block to be read will overwrite. *)
FillPlan ==
  /\ fpc = "plan"
  /\ IF Space < FillLimit
     THEN fpc' = "begin" /\ UNCHANGED <<min_filepos, fpos, flen>>
     ELSE /\ fpc' = "read"
          /\ fpos' = FillPos
          /\ flen' = Block
          /\ min_filepos' = Greater(min_filepos, fread - (BufferSize - (Block + Newb)))
  /\ UNCHANGED <<buffer, eof, max_filepos, offset, read_filepos, fread, filepos, reader>>

(* stream_read(): less than asked only at the end of the file. *)
FillRead ==
  /\ fpc = "read"
  /\ flen' = Lesser(flen, FileEnd - filepos)
  /\ buffer' = [i \in 0 .. BufferSize - 1 |->
                  IF i \in fpos .. fpos + flen' - 1 THEN filepos + i - fpos ELSE buffer[i]]
  /\ filepos' = filepos + flen'
  /\ fpc' = "publish"
  /\ UNCHANGED <<eof, window, read_filepos, fread, fpos, reader>>

FillEof ==
  /\ fpc = "publish" /\ flen = 0
  /\ eof' = TRUE
  /\ fpc' = "begin"
  /\ UNCHANGED <<buffer, window, read_filepos, fread, fpos, flen, filepos, reader>>

(* Mutant: the ring starts over a block late. *)
FillPublishPastEnd ==
  /\ fpc = "publish" /\ flen > 0
  /\ max_filepos' = max_filepos + flen
  /\ fpc' = IF fpos + flen > BufferSize THEN "wrap" ELSE "begin"
  /\ UNCHANGED <<buffer, eof, min_filepos, offset, read_filepos,
                 fread, fpos, flen, filepos, reader>>

FillPublish ==
  /\ fpc = "publish" /\ flen > 0
  /\ max_filepos' = max_filepos + flen
  /\ fpc' = IF fpos + flen >= BufferSize THEN "wrap" ELSE "begin"
  /\ UNCHANGED <<buffer, eof, min_filepos, offset, read_filepos,
                 fread, fpos, flen, filepos, reader>>

(* Mutant: the ring starts over a byte early. *)
FillWrapShort ==
  /\ fpc = "wrap"
  /\ offset' = offset + BufferSize - 1
  /\ fpc' = "begin"
  /\ UNCHANGED <<buffer, eof, min_filepos, max_filepos, read_filepos,
                 fread, fpos, flen, filepos, reader>>

FillWrap ==
  /\ fpc = "wrap"
  /\ offset' = offset + BufferSize
  /\ fpc' = "begin"
  /\ UNCHANGED <<buffer, eof, min_filepos, max_filepos, read_filepos,
                 fread, fpos, flen, filepos, reader>>

-----------------------------------------------------------------------------
(* The reader.                                                             *)

(* stream_enable_cache() waits for the first prefill bytes, or the end. *)
PrefillWait ==
  /\ rpc = "prefill"
  /\ rpc' = IF read_filepos < min_filepos \/ max_filepos - read_filepos < prefill
            THEN "prefill_eof" ELSE "idle"
  /\ UNCHANGED <<buffer, eof, window, read_filepos, filler,
                 rpos, rlen, stream_pos, stream_eof, chunk>>

PrefillEof ==
  /\ rpc = "prefill_eof"
  /\ rpc' = IF eof THEN "idle" ELSE "prefill"
  /\ UNCHANGED <<buffer, eof, window, read_filepos, filler,
                 rpos, rlen, stream_pos, stream_eof, chunk>>

(* cache_stream_fill_buffer() for the demuxer. *)
ReadBegin ==
  /\ rpc = "idle" /\ ~stream_eof
  /\ rpc' = "max"
  /\ UNCHANGED <<buffer, eof, window, read_filepos, filler,
                 rpos, rlen, stream_pos, stream_eof, chunk>>

(* Mutant: a reader at the end of the window is let in. *)
ReadMaxIncluded ==
  /\ rpc = "max"
  /\ rpc' = IF read_filepos > max_filepos THEN "eof" ELSE "min"
  /\ UNCHANGED <<buffer, eof, window, read_filepos, filler,
                 rpos, rlen, stream_pos, stream_eof, chunk>>

(* read_filepos >= max_filepos || read_filepos < min_filepos *)
ReadMax ==
  /\ rpc = "max"
  /\ rpc' = IF read_filepos >= max_filepos THEN "eof" ELSE "min"
  /\ UNCHANGED <<buffer, eof, window, read_filepos, filler,
                 rpos, rlen, stream_pos, stream_eof, chunk>>

ReadMin ==
  /\ rpc = "min"
  /\ rpc' = IF read_filepos < min_filepos THEN "eof" ELSE "newb"
  /\ UNCHANGED <<buffer, eof, window, read_filepos, filler,
                 rpos, rlen, stream_pos, stream_eof, chunk>>

ReadEof ==
  /\ rpc = "eof"
  /\ rpc' = IF eof THEN "return" ELSE "max"
  /\ UNCHANGED <<buffer, eof, window, read_filepos, filler,
                 rpos, rlen, stream_pos, stream_eof, chunk>>

(* The new bytes, as far as they are asked for. *)
ReadNewb ==
  /\ rpc = "newb"
  /\ rlen' = Lesser(max_filepos - read_filepos, Sector - Len(chunk))
  /\ rpc' = "plan"
  /\ UNCHANGED <<buffer, eof, window, read_filepos, filler,
                 rpos, stream_pos, stream_eof, chunk>>

(* The cell to copy from, and no further than the end of the ring. *)
ReadPlan ==
  /\ rpc = "plan"
  /\ rpos' = Cell(read_filepos - offset)
  /\ rlen' = Lesser(rlen, BufferSize - rpos')
  /\ rpc' = "copy"
  /\ UNCHANGED <<buffer, eof, window, read_filepos, filler,
                 stream_pos, stream_eof, chunk>>

(* What lies outside the ring is garbage; a negative length is fatal.      *)
ReadCopy ==
  /\ rpc = "copy"
  /\ chunk' = chunk \o [i \in 1 .. rlen |->
                          IF rpos + i - 1 \in DOMAIN buffer THEN buffer[rpos + i - 1]
                          ELSE Garbage]
  /\ rpc' = IF rlen < 0 THEN "crashed" ELSE "advance"
  /\ UNCHANGED <<buffer, eof, window, read_filepos, filler,
                 rpos, rlen, stream_pos, stream_eof>>

ReadAdvance ==
  /\ rpc = "advance"
  /\ read_filepos' = read_filepos + rlen
  /\ rpc' = IF Len(chunk) < Sector THEN "max" ELSE "return"
  /\ UNCHANGED <<buffer, eof, window, filler, rpos, rlen, stream_pos, stream_eof, chunk>>

ReadReturn ==
  /\ rpc = "return"
  /\ stream_pos' = stream_pos + Len(chunk)
  /\ stream_eof' = (chunk = <<>>)
  /\ chunk' = <<>>
  /\ rpc' = "idle"
  /\ UNCHANGED <<buffer, eof, window, read_filepos, filler, rpos, rlen>>

(* cache_stream_seek_long(), after a stream_reset() or not. A stream at    *)
(* its end stays there: no byte is read.                                   *)
SeekBegin(pos, reset) ==
  /\ rpc = "idle"
  /\ read_filepos' = (pos \div Sector) * Sector
  /\ stream_pos' = read_filepos'
  /\ stream_eof' = (stream_eof /\ ~reset)
  /\ rpc' = "seek"
  /\ UNCHANGED <<buffer, eof, window, filler, rpos, rlen, chunk>>

SeekEof ==
  /\ rpc = "seek"
  /\ eof' = FALSE
  /\ rpc' = IF stream_eof THEN "idle" ELSE "max"
  /\ UNCHANGED <<buffer, window, read_filepos, filler,
                 rpos, rlen, stream_pos, stream_eof, chunk>>

-----------------------------------------------------------------------------
Fill ==
  \/ FillBegin \/ DropMax \/ DropMin \/ DropOffset
  \/ FillPlan \/ FillRead \/ FillEof \/ FillPublish \/ FillWrap
Read ==
  \/ PrefillWait \/ PrefillEof
  \/ ReadMax \/ ReadMin \/ ReadEof \/ ReadNewb \/ ReadPlan
  \/ ReadCopy \/ ReadAdvance \/ ReadReturn \/ SeekEof
Seek == \E pos \in SeekTargets, reset \in BOOLEAN : SeekBegin(pos, reset)

Next == Fill \/ Read \/ ReadBegin \/ Seek

Spec == Init /\ [][Next]_vars

(* Two processes run; whether the demuxer reads on or seeks is its own.    *)
FairSpec == Spec /\ WF_vars(Fill) /\ WF_vars(Read)

-----------------------------------------------------------------------------
(* Types.                                                                  *)
TypeOK ==
  /\ buffer \in [0 .. BufferSize - 1 -> Nat \cup {Garbage}]
  /\ eof \in BOOLEAN
  /\ min_filepos \in Nat /\ max_filepos \in Nat
  /\ offset \in Nat /\ read_filepos \in Nat
  /\ fpc \in {"begin", "drop_max", "drop_min", "drop_offset",
              "plan", "read", "publish", "wrap"}
  /\ fread \in Nat
  /\ fpos \in 0 .. BufferSize - 1
  /\ flen \in Nat /\ fpos + flen <= BufferSize
  /\ filepos \in 0 .. FileEnd
  /\ rpc \in {"prefill", "prefill_eof", "idle", "max", "min", "eof", "newb",
              "plan", "copy", "advance", "return", "seek", "crashed"}
  /\ rpos \in Int /\ rlen \in Int
  /\ stream_pos \in Nat /\ stream_eof \in BOOLEAN
  /\ chunk \in Seq(Nat \cup {Garbage})

(* Between two turns of the filler, and until it gives up bytes it is      *)
(* about to overwrite, each position of the window min .. max is in the    *)
(* ring, in the cell where the reader looks for it.                        *)
WindowHoldsFile ==
  fpc \notin {"drop_max", "drop_min", "drop_offset"} =>
    /\ min_filepos <= max_filepos
    /\ \A p \in min_filepos .. max_filepos - 1 : buffer[Cell(p - offset)] = p

(* The reader is given the bytes of the file that are at its position.     *)
ReadsItsBytes == \A i \in 1 .. Len(chunk) : chunk[i] = stream_pos + i - 1

(* The block that the filler reads and the bytes that the reader copies    *)
(* are in different cells, so that neither copy need be atomic.            *)
NoDataRace ==
  fpc = "read" /\ rpc = "copy" =>
    (fpos .. fpos + flen - 1) \cap (rpos .. rpos + rlen - 1) = {}

(* What is copied lies inside the ring, and is something.                  *)
CopiesInRing ==
  rpc = "copy" => rlen \in 1 .. Sector /\ rpos \in 0 .. BufferSize - rlen

(* The stream ends where the file does. This is so in the smallest ring,   *)
(* for a file longer than the fill limit, and in no larger one.            *)
EndsAtTheEnd == stream_eof => stream_pos = FileEnd

(* stream_enable_cache() returns, and so does each call for more bytes:    *)
(* the reader does not wait for what the filler will not fill, and its     *)
(* process does not die.                                                   *)
ReaderServed == rpc # "idle" ~> rpc = "idle"

(* Wherever the reader seeks, its wait for the filler ends: sooner or      *)
(* later the window holds its position, or the stream has ended.           *)
Waiting == rpc \in {"prefill", "prefill_eof", "max", "min", "eof"}
WaitEnds == Waiting ~> ~Waiting

(* "requires no locking": whatever the other process stores in between,    *)
(* cache_read() asks memcpy() for no negative length, which is fatal.      *)
NeverCrashes == rpc # "crashed"

(* What cache_read() checks before it copies, and calls a bug to be        *)
(* reported: the filler has not given up the byte that it found.           *)
StillThere == rpc = "copy" => read_filepos >= min_filepos
==============================================================================
