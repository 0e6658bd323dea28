----------------------------- MODULE EventPumpMC -----------------------------
EXTENDS EventPump, TLC

CONSTANTS Io, Audio

(* openwsp.cpp:150: the I/O thread is cancelled once the main thread was   *)
(* joined, the audio thread once the I/O thread was.                       *)
ShutdownOrder == [t \in Thread \ {Main} |-> IF t = Audio /\ Io \in Thread THEN Io ELSE Main]
==============================================================================
