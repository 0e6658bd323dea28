---------------------------- MODULE EventDelivery ----------------------------
(***************************************************************************)
(* What the event loop promises to the code that posts events: an event    *)
(* posted to a thread waits there until that thread runs it, is run by no  *)
(* other thread, and is run once. Nothing is promised about the order in   *)
(* which waiting events are run.                                           *)
(***************************************************************************)
EXTENDS Naturals

CONSTANTS Thread, Event

VARIABLES
  pending,  \* pending[t]: the events that wait for thread t
  runs      \* runs[e]: how many times e has been run

vars == <<pending, runs>>

Posted(e) == runs[e] > 0 \/ \E t \in Thread : e \in pending[t]

Init ==
  /\ pending = [t \in Thread |-> {}]
  /\ runs = [e \in Event |-> 0]

Post(t, e) ==
  /\ ~Posted(e)
  /\ pending' = [pending EXCEPT ![t] = @ \cup {e}]
  /\ UNCHANGED runs

Run(t, e) ==
  /\ e \in pending[t]
  /\ pending' = [pending EXCEPT ![t] = @ \ {e}]
  /\ runs' = [runs EXCEPT ![e] = @ + 1]

Next == \E t \in Thread, e \in Event : Post(t, e) \/ Run(t, e)

Spec == Init /\ [][Next]_vars
==============================================================================
