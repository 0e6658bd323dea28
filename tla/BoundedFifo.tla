----------------------------- MODULE BoundedFifo -----------------------------
(***************************************************************************)
(* What an audio device promises to the thread that feeds it: bytes come   *)
(* out in the order they went in, each once, and never more than Capacity  *)
(* of them wait. Closing the device drops what waits.                      *)
(***************************************************************************)
EXTENDS Naturals, Sequences

CONSTANTS Byte, Capacity

VARIABLES
  queue,   \* the bytes that wait
  played   \* the chunk the device took last

vars == <<queue, played>>

Init == queue = <<>> /\ played = <<>>

Put ==
  /\ Len(queue') \in Len(queue) .. Capacity
  /\ SubSeq(queue', 1, Len(queue)) = queue
  /\ UNCHANGED played

Get ==
  \E n \in 1 .. Len(queue) :
    /\ played' = SubSeq(queue, 1, n)
    /\ queue' = SubSeq(queue, n + 1, Len(queue))

Clear == queue' = <<>> /\ UNCHANGED played

Next == Put \/ Get \/ Clear

Spec == Init /\ [][Next]_vars
==============================================================================
