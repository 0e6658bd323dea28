-------------------------- MODULE StreamCache_proofs ---------------------------
(***************************************************************************)
(* What the missing lock of the cache costs and what it does not, for      *)
(* every geometry of the ring: over a stream that can seek, the window     *)
(* always holds the file, wherever the reader seeks; and a reader that     *)
(* never seeks gets its bytes without a data race, and in the smallest     *)
(* ring all of them.                                                       *)
(***************************************************************************)
EXTENDS StreamCache, TLAPS

Dropping == fpc \in {"drop_max", "drop_min", "drop_offset"}

(* The reader never gets past the end of the file. *)
InFile ==
  /\ read_filepos <= FileEnd /\ fread <= FileEnd /\ max_filepos <= FileEnd
  /\ rpc \in {"plan", "copy", "advance"} => read_filepos + rlen <= FileEnd
  /\ rpc = "advance" => rlen >= 0

(* Where the window lies in the ring. *)
Placed ==
  /\ ~Dropping => /\ min_filepos <= max_filepos
                  /\ max_filepos - min_filepos <= BufferSize
                  /\ offset <= max_filepos
                  /\ max_filepos - offset <= BufferSize
  /\ fpc \in {"begin", "plan", "read", "publish"} => max_filepos - offset < BufferSize
  /\ fpc = "wrap" => max_filepos - offset = BufferSize

(* What the filler has decided and what it has read but not published.     *)
Planned ==
  /\ fpc = "plan" => fread >= min_filepos /\ fread <= max_filepos + seek_limit
  /\ fpc \in {"read", "publish"} =>
       /\ fpos = max_filepos - offset
       /\ min_filepos >= max_filepos + flen - BufferSize
  /\ fpc \in {"drop_min", "drop_offset"} => max_filepos = fread
  /\ fpc = "drop_offset" => min_filepos = fread
  /\ fpc = "read" => flen > 0
  /\ fpc \in {"begin", "plan", "read", "wrap"} => filepos = max_filepos
  /\ fpc = "publish" =>
       /\ filepos = max_filepos + flen
       /\ \A i \in fpos .. fpos + flen - 1 : buffer[i] = max_filepos + i - fpos

IInv == TypeOK /\ InFile /\ Placed /\ Planned /\ WindowHoldsFile

(* A reader that never seeks stays in the window, and the filler never     *)
(* knows a position of it that it has not reached.                         *)
Behind ==
  /\ ~Dropping
  /\ rpc # "seek"
  /\ min_filepos <= fread /\ fread <= read_filepos /\ read_filepos <= max_filepos
  /\ rpc \in {"min", "newb", "plan"} => read_filepos < max_filepos

Copying ==
  /\ rpc \in {"plan", "copy"} => rlen \in 1 .. Sector - Len(chunk)
  /\ rpc = "advance" => rlen >= 1
  /\ rpc \in {"plan", "copy", "advance"} => read_filepos + rlen <= max_filepos
  /\ rpc = "copy" => rpos = Cell(read_filepos - offset) /\ rpos + rlen <= BufferSize
  /\ stream_pos + Len(chunk) = read_filepos + (IF rpc = "advance" THEN rlen ELSE 0)
  /\ rpc \in {"prefill", "prefill_eof", "idle"} => chunk = <<>>
  /\ rpc \in {"max", "min", "eof", "newb", "plan", "copy"} => Len(chunk) < Sector

SInv == IInv /\ Behind /\ Copying /\ ReadsItsBytes

(* Aligning a position to a sector moves it back. *)
LEMMA Align ==
  ASSUME NEW pos \in 0 .. FileEnd
  PROVE  (pos \div Sector) * Sector \in 0 .. FileEnd
BY CacheAssumption, SMTT(30)

(* The empty ring satisfies the invariant.                                 *)
THEOREM InitIInv == Init => IInv
BY CacheAssumption DEF Init, IInv, TypeOK, InFile, Placed, Planned, Dropping, WindowHoldsFile

(* What the filler plans to read is something, fits before the end of the  *)
(* ring and leaves the new bytes alone.                                    *)
LEMMA BlockFits ==
  ASSUME IInv, fpc = "plan", ~(Space < FillLimit)
  PROVE  /\ FillPos = max_filepos - offset
         /\ FillPos \in 0 .. BufferSize - 1
         /\ Newb = IF max_filepos < fread THEN 0 ELSE max_filepos - fread
         /\ Block \in Nat \ {0}
         /\ Block <= BufferSize - FillPos
         /\ Block <= MaxBlock
         /\ Block <= BufferSize - Newb
<1> USE CacheAssumption DEF IInv, Placed, Dropping, TypeOK
<1>1. FillPos = max_filepos - offset /\ FillPos \in 0 .. BufferSize - 1
  BY DEF FillPos, Cell
<1>2. Newb \in Nat /\ Newb = IF max_filepos < fread THEN 0 ELSE max_filepos - fread
  BY DEF Newb, Greater
<1>3. Back \in Nat
  BY DEF Back, Lesser, Greater, back_size
<1> QED
  BY <1>1, <1>2, <1>3 DEF Block, Space, Lesser

(* A window that gives up its first bytes still fits. *)
LEMMA Shorter ==
  ASSUME NEW lo \in Nat, NEW lo2 \in Nat, NEW hi \in Nat, NEW n \in Nat,
         lo2 >= lo, hi - lo <= n
  PROVE  hi - lo2 <= n
OBVIOUS

(* Planning a read keeps the window in the ring, and gives up no byte that *)
(* the reader had yet to read.                                             *)
LEMMA FillPlanStep ==
  ASSUME IInv, FillPlan
  PROVE  IInv' /\ (min_filepos <= fread => min_filepos' <= fread)
<1>1. CASE Space < FillLimit
  <2>1. fpc = "plan" /\ fpc' = "begin" /\ UNCHANGED <<buffer, eof, window, read_filepos, fread,
                                                    fpos, flen, filepos, reader>>
    BY <1>1 DEF FillPlan, window
  <2>2. TypeOK' /\ InFile'
    BY <2>1 DEF IInv, TypeOK, InFile, window, reader
  <2>3. Placed' /\ Planned'
    BY <2>1 DEF IInv, Placed, Planned, Dropping, window
  <2>4. WindowHoldsFile'
    BY <2>1 DEF IInv, WindowHoldsFile, window, Cell
  <2> QED
    BY <2>1, <2>2, <2>3, <2>4 DEF IInv, window
<1>2. CASE ~(Space < FillLimit)
  <2>1. fpc = "plan" /\ fpc' = "read" /\ flen' = Block /\ fpos' = FillPos
    BY <1>2 DEF FillPlan
  <2>2. /\ buffer' = buffer /\ eof' = eof
        /\ max_filepos' = max_filepos /\ offset' = offset
        /\ read_filepos' = read_filepos /\ fread' = fread /\ filepos' = filepos
        /\ rpc' = rpc /\ rpos' = rpos /\ rlen' = rlen
        /\ stream_pos' = stream_pos /\ stream_eof' = stream_eof /\ chunk' = chunk
    BY <1>2 DEF FillPlan, reader
  <2>3. min_filepos' = Greater(min_filepos, fread - (BufferSize - (Block + Newb)))
    BY <1>2 DEF FillPlan
  <2>4. /\ FillPos = max_filepos - offset
        /\ FillPos \in 0 .. BufferSize - 1
        /\ Newb = IF max_filepos < fread THEN 0 ELSE max_filepos - fread
        /\ Block \in Nat \ {0}
        /\ Block <= BufferSize - FillPos
        /\ Block <= MaxBlock
        /\ Block <= BufferSize - Newb
    BY <1>2, <2>1, BlockFits
  <2>5. /\ BufferSize \in Nat /\ fread \in Nat
        /\ min_filepos \in Nat /\ max_filepos \in Nat /\ offset \in Nat
        /\ min_filepos <= max_filepos
        /\ max_filepos - min_filepos <= BufferSize
        /\ offset <= max_filepos
        /\ max_filepos - offset < BufferSize
        /\ filepos = max_filepos
    BY <2>1, CacheAssumption DEF IInv, TypeOK, Placed, Planned, Dropping
  <2>6. fread <= max_filepos + seek_limit
    BY <2>1 DEF IInv, Planned
  <2>7. min_filepos' \in Nat /\ min_filepos' >= min_filepos /\ min_filepos' <= max_filepos
    BY <2>3, <2>4, <2>5, <2>6, CacheAssumption DEF Greater, Lesser, seek_limit
  <2>8. min_filepos' >= max_filepos + Block - BufferSize
    BY <2>3, <2>4, <2>5 DEF Greater
  <2>9. min_filepos <= fread => min_filepos' <= fread
    BY <2>3, <2>4, <2>5 DEF Greater
  <2>10. TypeOK' /\ InFile'
    BY <2>1, <2>2, <2>4, <2>5, <2>7 DEF IInv, TypeOK, InFile
  <2>11. Placed'
    <3>1. max_filepos - min_filepos' <= BufferSize
      BY <2>5, <2>7, Shorter
    <3>2. max_filepos - offset <= BufferSize
      BY <2>5
    <3>3. offset <= max_filepos /\ max_filepos - offset < BufferSize /\ min_filepos' <= max_filepos
      BY <2>5, <2>7
    <3>4. fpc' = "read" /\ max_filepos' = max_filepos /\ offset' = offset
      BY <2>1, <2>2
    <3> QED
      BY <3>1, <3>2, <3>3, <3>4 DEF Placed, Dropping
  <2>12. Planned'
    BY <2>1, <2>2, <2>4, <2>5, <2>7, <2>8 DEF Planned
  <2>13. WindowHoldsFile'
    BY <2>1, <2>2, <2>5, <2>7 DEF IInv, WindowHoldsFile, Cell
  <2> QED
    BY <2>9, <2>10, <2>11, <2>12, <2>13 DEF IInv
<1> QED BY <1>1, <1>2

(* Publishing a block adds it to the window. *)
LEMMA PublishStep ==
  ASSUME IInv, FillPublish
  PROVE  WindowHoldsFile'
<1>1. /\ fpos \in Nat /\ flen \in Nat /\ offset \in Nat /\ BufferSize \in Nat
      /\ min_filepos \in Nat /\ max_filepos \in Nat
      /\ min_filepos <= max_filepos
      /\ fpos = max_filepos - offset
      /\ fpos + flen <= BufferSize
  BY CacheAssumption DEF FillPublish, IInv, TypeOK, Placed, Planned, Dropping
<1>2. /\ max_filepos' = max_filepos + flen
      /\ min_filepos' = min_filepos /\ offset' = offset /\ buffer' = buffer
  BY DEF FillPublish
<1>3. ASSUME NEW p \in min_filepos .. max_filepos - 1
      PROVE  buffer[Cell(p - offset)] = p
  BY DEF FillPublish, IInv, WindowHoldsFile
<1>4. ASSUME NEW p \in max_filepos .. max_filepos + flen - 1
      PROVE  buffer[Cell(p - offset)] = p
  <2> DEFINE i == p - offset
  <2>1. i \in fpos .. fpos + flen - 1 /\ max_filepos + i - fpos = p
    BY <1>1
  <2>2. i \in Int /\ i >= 0 /\ i < BufferSize
    BY <1>1, <2>1
  <2>3. buffer[i] = max_filepos + i - fpos
    BY <2>1 DEF FillPublish, IInv, Planned
  <2> HIDE DEF i
  <2>4. Cell(i) = i
    BY <1>1, <2>2 DEF Cell
  <2>5. buffer[Cell(i)] = p
    BY <2>1, <2>3, <2>4
  <2> QED BY <2>5 DEF i
<1>5. ASSUME NEW p \in min_filepos .. max_filepos + flen - 1
      PROVE  buffer[Cell(p - offset)] = p
  BY <1>1, <1>3, <1>4
<1> QED
  BY <1>1, <1>2, <1>5 DEF WindowHoldsFile, Cell

(* Every step of either process preserves it, seeks included.             *)
THEOREM NextIInv ==
  ASSUME Seekable, IInv, [Next]_vars
  PROVE  IInv'
<1>20. CASE SeekEof
  <2>1. TypeOK' /\ InFile'
    BY <1>20 DEF SeekEof, IInv, TypeOK, InFile, window, filler
  <2>2. Placed' /\ Planned' /\ WindowHoldsFile'
    BY <1>20 DEF SeekEof, IInv, Placed, Planned, WindowHoldsFile, Dropping, window, filler, Cell, seek_limit, Lesser
  <2> QED
    BY <2>1, <2>2 DEF IInv
<1> USE CacheAssumption DEF IInv, InFile, Placed, Planned, Dropping, WindowHoldsFile, TypeOK
<1>1. CASE FillBegin
  BY <1>1 DEF FillBegin, OutOfWindow, seek_limit, Lesser, window, filler, reader
<1>2. CASE DropMax
  BY <1>2 DEF DropMax, window, filler, reader
<1>3. CASE DropMin
  BY <1>3 DEF DropMin, window, filler, reader
<1>4. CASE DropOffset
  BY <1>4 DEF DropOffset, seek_limit, Lesser, window, filler, reader
<1>5. CASE FillPlan
  BY <1>5, FillPlanStep
<1>6. CASE FillRead
  BY <1>6 DEF FillRead, Cell, Lesser, window, filler, reader
<1>7. CASE FillEof
  BY <1>7 DEF FillEof, window, filler, reader
<1>8. CASE FillPublish
  <2>1. TypeOK' /\ InFile'
    BY <1>8 DEF FillPublish, window, filler, reader
  <2>2. Placed' /\ Planned'
    BY <1>8 DEF FillPublish, window, filler, reader
  <2> QED
    BY <1>8, <2>1, <2>2, PublishStep
<1>9. CASE FillWrap
  BY <1>9 DEF FillWrap, Cell, window, filler, reader
<1>10. CASE PrefillWait
  BY <1>10 DEF PrefillWait, window, filler, reader
<1>11. CASE PrefillEof
  BY <1>11 DEF PrefillEof, window, filler, reader
<1>12. CASE ReadMax
  BY <1>12 DEF ReadMax, window, filler, reader
<1>13. CASE ReadMin
  BY <1>13 DEF ReadMin, window, filler, reader
<1>14. CASE ReadEof
  BY <1>14 DEF ReadEof, window, filler, reader
<1>15. CASE ReadNewb
  BY <1>15 DEF ReadNewb, Lesser, window, filler, reader
<1>16. CASE ReadPlan
  BY <1>16 DEF ReadPlan, Cell, Lesser, window, filler, reader
<1>17. CASE ReadCopy
  BY <1>17 DEF ReadCopy, Garbage, window, filler, reader
<1>18. CASE ReadAdvance
  BY <1>18 DEF ReadAdvance, window, filler, reader
<1>19. CASE ReadReturn
  BY <1>19 DEF ReadReturn, window, filler, reader
<1>21. CASE ReadBegin
  BY <1>21 DEF ReadBegin, window, filler, reader
<1>22. CASE Seek
  BY <1>22, Align DEF Seek, SeekBegin, window, filler, reader
<1>23. CASE UNCHANGED vars
  BY <1>23 DEF vars, window, filler, reader
<1> QED
  BY <1>1, <1>2, <1>3, <1>4, <1>5, <1>6, <1>7, <1>8, <1>9, <1>10, <1>11, <1>12, <1>13, <1>14, <1>15, <1>16, <1>17, <1>18, <1>19, <1>20, <1>21, <1>22, <1>23 DEF Next, Fill, Read

(* For every ring, file and sequence of seeks, the window of the cache     *)
(* holds the file: what the filler drops, overwrites and wraps.            *)
THEOREM SpecWindowHoldsFile == ASSUME Seekable PROVE Spec => []WindowHoldsFile
<1>1. IInv => WindowHoldsFile
  BY DEF IInv
<1> QED
  BY InitIInv, NextIInv, <1>1, PTL DEF Spec

(* Every variable keeps its type.                                          *)
THEOREM SpecTypeOK == ASSUME Seekable PROVE Spec => []TypeOK
<1>1. IInv => TypeOK
  BY DEF IInv
<1> QED
  BY InitIInv, NextIInv, <1>1, PTL DEF Spec

-----------------------------------------------------------------------------
(* What appending to a sequence gives. *)
LEMMA Concat ==
  ASSUME NEW S, NEW a \in Seq(S), NEW b \in Seq(S)
  PROVE  /\ Len(a) \in Nat
         /\ a \o b \in Seq(S)
         /\ Len(a \o b) = Len(a) + Len(b)
         /\ \A i \in 1 .. Len(a) : (a \o b)[i] = a[i]
         /\ \A i \in 1 .. Len(b) : (a \o b)[Len(a) + i] = b[i]
OBVIOUS

(* A reader that never seeks starts in the window ...                      *)
THEOREM InitSInv == Init => SInv
BY InitIInv, CacheAssumption DEF Init, SInv, Behind, Copying, ReadsItsBytes, Dropping

(* What such a reader copies are the next bytes of the file. *)
LEMMA CopyStep ==
  ASSUME SInv, ReadCopy
  PROVE  /\ Len(chunk') = Len(chunk) + rlen
         /\ rlen >= 1
         /\ ReadsItsBytes'
<1> DEFINE new == [i \in 1 .. rlen |->
                     IF rpos + i - 1 \in DOMAIN buffer THEN buffer[rpos + i - 1]
                     ELSE Garbage]
<1>1. /\ rlen \in Nat \ {0}
      /\ rpos = Cell(read_filepos - offset) /\ rpos \in Int
      /\ rpos + rlen <= BufferSize
      /\ chunk \in Seq(Nat \cup {Garbage})
      /\ buffer \in [0 .. BufferSize - 1 -> Nat \cup {Garbage}]
      /\ read_filepos \in Nat /\ offset \in Nat /\ stream_pos \in Nat
      /\ BufferSize \in Nat
  BY CacheAssumption DEF SInv, Copying, ReadCopy, IInv, TypeOK
<1>2. new \in Seq(Nat \cup {Garbage}) /\ Len(new) = rlen
  BY <1>1
<1>3. rpos >= 0 /\ \A i \in 1 .. rlen : Cell((read_filepos + i - 1) - offset) = rpos + i - 1
  BY <1>1 DEF ReadCopy, SInv, Behind, Dropping, Cell, IInv, TypeOK, Placed
<1>4. \A i \in 1 .. rlen : buffer[Cell((read_filepos + i - 1) - offset)] = read_filepos + i - 1
  <2>1. \A p \in min_filepos .. max_filepos - 1 : buffer[Cell(p - offset)] = p
    BY DEF SInv, IInv, Behind, Dropping, WindowHoldsFile
  <2>2. /\ min_filepos \in Nat /\ max_filepos \in Nat
        /\ min_filepos <= read_filepos
        /\ read_filepos + rlen <= max_filepos
    BY DEF ReadCopy, SInv, IInv, TypeOK, Behind, Copying
  <2>3. ASSUME NEW i \in 1 .. rlen
        PROVE  buffer[Cell((read_filepos + i - 1) - offset)] = read_filepos + i - 1
    <3> DEFINE p == read_filepos + i - 1
    <3>1. p \in min_filepos .. max_filepos - 1
      BY <1>1, <2>2
    <3> HIDE DEF p
    <3>2. buffer[Cell(p - offset)] = p
      BY <2>1, <3>1
    <3> QED BY <3>2 DEF p
  <2> QED BY <2>3
<1>5. ASSUME NEW i \in 1 .. rlen PROVE new[i] = read_filepos + i - 1
  <2>1. rpos + i - 1 \in DOMAIN buffer
    BY <1>1, <1>3
  <2>2. buffer[rpos + i - 1] = read_filepos + i - 1
    BY <1>3, <1>4
  <2> QED BY <2>1, <2>2
<1>6. chunk' = chunk \o new
  BY DEF ReadCopy
<1>7. stream_pos + Len(chunk) = read_filepos /\ stream_pos' = stream_pos
  BY <1>1 DEF ReadCopy, SInv, Copying, reader
<1> HIDE DEF new
<1>8. Len(chunk') = Len(chunk) + rlen /\ Len(chunk) \in Nat
  BY <1>1, <1>2, <1>6, Concat
<1>9. ASSUME NEW i \in 1 .. Len(chunk') PROVE chunk'[i] = stream_pos + i - 1
  <2>1. CASE i <= Len(chunk)
    BY <1>1, <1>2, <1>6, <1>8, <2>1, Concat DEF SInv, ReadsItsBytes
  <2>2. CASE i > Len(chunk)
    <3>1. i - Len(chunk) \in 1 .. rlen
      BY <1>1, <1>8, <2>2
    <3>2. chunk'[i] = new[i - Len(chunk)]
      BY <1>1, <1>2, <1>6, <1>8, <3>1, Concat
    <3>3. new[i - Len(chunk)] = read_filepos + (i - Len(chunk)) - 1
      BY <1>5, <3>1
    <3>4. read_filepos + (i - Len(chunk)) - 1 = stream_pos + i - 1
      <4> DEFINE n == Len(chunk)
      <4>1. n \in Nat /\ i \in Int /\ stream_pos \in Nat /\ read_filepos = stream_pos + n
        BY <1>1, <1>7, <1>8
      <4> HIDE DEF n
      <4>2. read_filepos + (i - n) - 1 = stream_pos + i - 1
        BY <4>1
      <4> QED BY <4>2 DEF n
    <3> QED BY <3>2, <3>3, <3>4
  <2> QED BY <1>1, <1>8, <2>1, <2>2
<1> QED
  BY <1>1, <1>7, <1>8, <1>9 DEF ReadsItsBytes

(* ... and stays there.                                                    *)
THEOREM NextSInv ==
  ASSUME Seekable, SeekTargets = {}, SInv, [Next]_vars
  PROVE  SInv'
<1>0. IInv'
  BY NextIInv DEF SInv
<1>17. CASE ReadCopy
  <2>1. Behind'
    BY <1>0, <1>17 DEF ReadCopy, SInv, Behind, Dropping, window, filler
  <2>2. /\ Len(chunk') = Len(chunk) + rlen
        /\ rlen >= 1
        /\ ReadsItsBytes'
    BY <1>17, CopyStep
  <2>3. rpc' = "advance" /\ UNCHANGED <<read_filepos, max_filepos, rlen, stream_pos>>
    BY <1>17, <2>2 DEF ReadCopy, window, SInv, IInv, TypeOK
  <2>4. stream_pos + Len(chunk) = read_filepos /\ read_filepos + rlen <= max_filepos
    BY <1>17 DEF ReadCopy, SInv, Copying, IInv, TypeOK
  <2>5. stream_pos \in Nat /\ Len(chunk) \in Nat /\ rlen \in Int /\ read_filepos \in Nat
    BY Concat DEF SInv, IInv, TypeOK
  <2>6. Copying'
    BY <2>2, <2>3, <2>4, <2>5 DEF Copying
  <2> QED
    BY <1>0, <2>1, <2>2, <2>6 DEF SInv
<1> USE CacheAssumption DEF SInv, Behind, Copying, ReadsItsBytes, Dropping
<1>1. CASE FillBegin
  BY <1>0, <1>1 DEF FillBegin, OutOfWindow, IInv, TypeOK, Placed, Planned, window, filler, reader
<1>2. CASE DropMax
  BY <1>0, <1>2 DEF DropMax, IInv, TypeOK, Placed, Planned, window, filler, reader
<1>3. CASE DropMin
  BY <1>0, <1>3 DEF DropMin, IInv, TypeOK, Placed, Planned, window, filler, reader
<1>4. CASE DropOffset
  BY <1>0, <1>4 DEF DropOffset, IInv, TypeOK, Placed, Planned, window, filler, reader
<1>5. CASE FillPlan
  <2>1. min_filepos' <= fread
    BY <1>5, FillPlanStep
  <2> QED
    BY <1>0, <1>5, <2>1 DEF FillPlan, window, filler, reader
<1>6. CASE FillRead
  BY <1>0, <1>6 DEF FillRead, Cell, Lesser, IInv, TypeOK, Placed, Planned, window, filler, reader
<1>7. CASE FillEof
  BY <1>0, <1>7 DEF FillEof, IInv, TypeOK, Placed, Planned, window, filler, reader
<1>8. CASE FillPublish
  BY <1>0, <1>8 DEF FillPublish, Cell, IInv, TypeOK, Placed, Planned, window, filler, reader
<1>9. CASE FillWrap
  BY <1>0, <1>9 DEF FillWrap, Cell, IInv, TypeOK, Placed, Planned, window, filler, reader
<1>10. CASE PrefillWait
  BY <1>0, <1>10 DEF PrefillWait, IInv, TypeOK, Placed, Planned, window, filler, reader
<1>11. CASE PrefillEof
  BY <1>0, <1>11 DEF PrefillEof, IInv, TypeOK, Placed, Planned, window, filler, reader
<1>12. CASE ReadMax
  BY <1>0, <1>12 DEF ReadMax, IInv, TypeOK, Placed, Planned, window, filler, reader
<1>13. CASE ReadMin
  BY <1>0, <1>13 DEF ReadMin, IInv, TypeOK, Placed, Planned, window, filler, reader
<1>14. CASE ReadEof
  BY <1>0, <1>14 DEF ReadEof, IInv, TypeOK, Placed, Planned, window, filler, reader
<1>15. CASE ReadNewb
  BY <1>0, <1>15 DEF ReadNewb, Lesser, IInv, TypeOK, Placed, Planned, window, filler, reader
<1>16. CASE ReadPlan
  BY <1>0, <1>16 DEF ReadPlan, Cell, Lesser, IInv, TypeOK, Placed, Planned, window, filler, reader
<1>18. CASE ReadAdvance
  BY <1>0, <1>18 DEF ReadAdvance, IInv, TypeOK, Placed, Planned, window, filler, reader
<1>19. CASE ReadReturn
  BY <1>0, <1>19 DEF ReadReturn, IInv, TypeOK, Placed, Planned, window, filler, reader
<1>20. CASE SeekEof
  BY <1>0, <1>20 DEF SeekEof, IInv, TypeOK, Placed, Planned, window, filler, reader
<1>21. CASE ReadBegin
  BY <1>0, <1>21 DEF ReadBegin, IInv, TypeOK, Placed, Planned, window, filler, reader
<1>22. CASE Seek
  BY <1>22 DEF Seek
<1>23. CASE UNCHANGED vars
  BY <1>0, <1>23 DEF vars, window, filler, reader
<1> QED
  BY <1>1, <1>2, <1>3, <1>4, <1>5, <1>6, <1>7, <1>8, <1>9, <1>10, <1>11, <1>12, <1>13, <1>14, <1>15, <1>16, <1>17, <1>18, <1>19, <1>20, <1>21, <1>22, <1>23 DEF Next, Fill, Read

(* Without a lock, a reader that never seeks gets the bytes of the file in *)
(* order ...                                                               *)
THEOREM SpecReadsItsBytes ==
  ASSUME Seekable, SeekTargets = {} PROVE Spec => []ReadsItsBytes
<1>1. SInv => ReadsItsBytes
  BY DEF SInv
<1> QED
  BY InitSInv, NextSInv, <1>1, PTL DEF Spec

(* ... from cells that the filler is not writing.                          *)
THEOREM SpecNoDataRace ==
  ASSUME Seekable, SeekTargets = {} PROVE Spec => []NoDataRace
<1>1. SInv => NoDataRace
  BY CacheAssumption DEF SInv, IInv, TypeOK, Placed, Planned, Behind, Copying, NoDataRace, Cell
<1> QED
  BY InitSInv, NextSInv, <1>1, PTL DEF Spec

(* Each of its copies lies inside the ring and moves at least a byte.      *)
THEOREM SpecCopiesInRing ==
  ASSUME Seekable, SeekTargets = {} PROVE Spec => []CopiesInRing
<1>1. SInv => CopiesInRing
  BY CacheAssumption DEF SInv, IInv, TypeOK, Placed, Planned, Behind, Copying, CopiesInRing, Cell, Dropping
<1> QED
  BY InitSInv, NextSInv, <1>1, PTL DEF Spec

-----------------------------------------------------------------------------
(* When the stream ends where the file does. The reader takes eof for its  *)
(* end if it has just found no new byte, so that it must not be set while  *)
(* there are some. In a ring of twice the fill limit, the filler reads on  *)
(* over unread bytes only while it keeps few old ones: that is in a window *)
(* no larger than the fill limit, which later windows are.                 *)
SmallestRing == BufferSize = 2 * FillLimit /\ FillLimit < FileEnd

Wide ==
  \/ min_filepos = 0
  \/ max_filepos - min_filepos > FillLimit
  \/ fpc \in {"read", "publish"} /\ flen > 0 /\ max_filepos - min_filepos = FillLimit
  \/ fread = FileEnd /\ max_filepos = FileEnd

Ending ==
  /\ fpc \in {"read", "publish"} /\ max_filepos = FileEnd => fread = FileEnd
  /\ fpc = "publish" /\ flen = 0 => max_filepos = FileEnd
  /\ eof => read_filepos = FileEnd
  /\ rpc = "return" /\ chunk = <<>> => stream_pos = FileEnd
  /\ stream_eof => stream_pos = FileEnd /\ rpc = "idle"

EInv == SInv /\ Wide /\ Ending

(* A block planned at the end of the file, which will have no byte, is     *)
(* planned for a reader that is there; and the window stays wide.          *)
LEMMA PlanAtEnd ==
  ASSUME SmallestRing, EInv, FillPlan
  PROVE  /\ Wide'
         /\ fpc' = "read" /\ max_filepos = FileEnd => fread = FileEnd
<1> DEFINE room == Space
<1>1. /\ min_filepos \in Nat /\ max_filepos \in Nat /\ fread \in Nat
      /\ min_filepos <= fread /\ fread <= max_filepos
      /\ FillLimit \in Nat /\ FillLimit > 0 /\ BufferSize = 2 * FillLimit
      /\ FillLimit < FileEnd /\ FileEnd \in Nat
      /\ fpc = "plan" /\ max_filepos' = max_filepos /\ fread' = fread
  BY CacheAssumption DEF EInv, SInv, IInv, TypeOK, Behind, FillPlan, SmallestRing, window
<1>2. /\ Newb = max_filepos - fread
      /\ Back = IF fread - min_filepos < FillLimit THEN fread - min_filepos ELSE FillLimit
  BY <1>1 DEF Newb, Back, back_size, Greater, Lesser
<1>3. \/ min_filepos = 0
      \/ max_filepos - min_filepos > FillLimit
      \/ fread = FileEnd /\ max_filepos = FileEnd
  BY <1>1 DEF EInv, Wide
<1>4. CASE room < FillLimit
  BY <1>1, <1>3, <1>4 DEF FillPlan, Wide
<1>5. CASE ~(room < FillLimit)
  <2>1. Newb + Back <= FillLimit
    BY <1>1, <1>2, <1>5 DEF Space
  <2>2. max_filepos = FileEnd => fread = FileEnd
    BY <1>1, <1>2, <1>3, <2>1
  <2>3. Block \in Int /\ Block > 0 /\ Block <= FillLimit
    <3>1. FillPos \in Int /\ FillPos < BufferSize
      BY <1>1, CacheAssumption DEF FillPos, Cell, EInv, SInv, IInv, TypeOK, Placed
    <3>2. Space \in Int /\ Space >= FillLimit
      BY <1>1, <1>2, <1>5 DEF Space
    <3> QED
      BY <1>1, <3>1, <3>2, CacheAssumption DEF Block, Lesser
  <2>4. /\ fpc' = "read" /\ flen' = Block
        /\ min_filepos' = Greater(min_filepos, fread - (BufferSize - (Block + Newb)))
    BY <1>5 DEF FillPlan
  <2>5. CASE min_filepos' = min_filepos
    BY <1>1, <1>3, <2>2, <2>3, <2>4, <2>5 DEF Wide
  <2>6. CASE min_filepos' = fread - (BufferSize - (Block + Newb))
    <3>1. max_filepos' - min_filepos' = BufferSize - Block
      BY <1>1, <1>2, <2>3, <2>6
    <3> QED
      BY <1>1, <2>2, <2>3, <2>4, <3>1 DEF Wide
  <2> QED
    BY <2>2, <2>4, <2>5, <2>6 DEF Greater
<1> QED
  BY <1>4, <1>5

THEOREM InitEInv == Init => EInv
BY InitSInv DEF Init, EInv, Wide, Ending

THEOREM NextEInv ==
  ASSUME Seekable, SeekTargets = {}, SmallestRing, EInv, [Next]_vars
  PROVE  EInv'
<1>0. SInv'
  BY NextSInv DEF EInv
<1>1. /\ TypeOK /\ TypeOK' /\ Behind /\ Copying /\ Copying' /\ Planned /\ InFile /\ Wide /\ Ending
  BY <1>0 DEF EInv, SInv, IInv
<1> SUFFICES Wide' /\ Ending'
  BY <1>0 DEF EInv
<1> USE <1>1, CacheAssumption DEF SmallestRing, Wide, Ending
<1>2. CASE FillBegin
  BY <1>2 DEF FillBegin, TypeOK, Behind, Dropping, InFile, window, filler, reader
<1>3. CASE DropMax \/ DropMin \/ DropOffset
  BY <1>3 DEF DropMax, DropMin, DropOffset, Behind, Dropping
<1>4. CASE FillPlan
  <2>1. Wide' /\ (fpc' = "read" /\ max_filepos = FileEnd => fread = FileEnd)
    BY <1>4, PlanAtEnd DEF EInv
  <2> QED
    BY <1>4, <2>1 DEF FillPlan, window, reader
<1>5. CASE FillRead
  BY <1>5 DEF FillRead, Lesser, TypeOK, Planned, window, reader
<1>6. CASE FillEof
  BY <1>6 DEF FillEof, TypeOK, Behind, InFile, window, reader
<1>7. CASE FillPublish
  BY <1>7 DEF FillPublish, TypeOK, Planned, InFile, reader
<1>8. CASE FillWrap
  BY <1>8 DEF FillWrap, TypeOK, Planned, reader
<1>9. CASE PrefillWait \/ PrefillEof \/ ReadMax \/ ReadMin \/ ReadNewb \/ ReadPlan
  BY <1>9 DEF PrefillWait, PrefillEof, ReadMax, ReadMin, ReadNewb, ReadPlan, window, filler
<1>10. CASE ReadEof
  BY <1>10 DEF ReadEof, Copying, TypeOK, window, filler
<1>11. CASE ReadCopy
  BY <1>11 DEF ReadCopy, window, filler
<1>12. CASE ReadAdvance
  <2>1. rpc' = "return" => chunk' # <<>>
    BY <1>12 DEF ReadAdvance
  <2>2. read_filepos' = read_filepos + rlen /\ rlen >= 1 /\ read_filepos + rlen <= FileEnd
    BY <1>12 DEF ReadAdvance, Copying, InFile
  <2>3. ~eof
    BY <2>2 DEF TypeOK
  <2> QED
    BY <1>12, <2>1, <2>3 DEF ReadAdvance, window, filler
<1>13. CASE ReadReturn
  BY <1>13 DEF ReadReturn, TypeOK, window, filler
<1>14. CASE ReadBegin
  BY <1>14 DEF ReadBegin, window, filler
<1>15. CASE SeekEof \/ Seek
  BY <1>15 DEF SeekEof, Seek, Behind
<1>16. CASE UNCHANGED vars
  BY <1>16 DEF vars, window, filler, reader
<1> QED
  BY <1>2, <1>3, <1>4, <1>5, <1>6, <1>7, <1>8, <1>9, <1>10, <1>11, <1>12, <1>13, <1>14,
     <1>15, <1>16 DEF Next, Fill, Read

(* In the smallest ring that cache_init() makes, a reader of a file longer *)
(* than the fill limit that never seeks is told of the end at the end: the *)
(* order in which cache_read() loads max_filepos and eof does no harm      *)
(* there.                                                                  *)
THEOREM SpecEndsAtTheEnd ==
  ASSUME Seekable, SeekTargets = {}, SmallestRing PROVE Spec => []EndsAtTheEnd
<1>1. EInv => EndsAtTheEnd
  BY DEF EInv, Ending, EndsAtTheEnd
<1> QED
  BY InitEInv, NextEInv, <1>1, PTL DEF Spec
================================================================================
