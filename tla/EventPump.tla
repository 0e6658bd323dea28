------------------------------ MODULE EventPump ------------------------------
(***************************************************************************)
(* The event loop of OpenWSP: WSEventPump (eventpump.cpp), the reference   *)
(* counts of its events (autoptr.h), EventLoop::PostEvent (eventloop.cpp)  *)
(* and the three threads that pop and run events (thread{main,io,audio}).  *)
(*                                                                         *)
(* A thread is an automaton over pc. The list of a priority is the         *)
(* sequence reachable from root[pri]; a thread that has read root holds    *)
(* the list it read in snap, so an unlocked access would lose an update.   *)
(* ref() and release() take their spin lock in a temporary that dies at    *)
(* the end of its own statement (autoptr.h:62 and 80), so ++m_count and    *)
(* --m_count run unlocked: each is a load into reg and a later store.      *)
(***************************************************************************)
EXTENDS Naturals, Sequences, Functions

CONSTANTS
  Thread,          \* the threads that own a pump
  Main,            \* the one that also runs the GUI from app().idle()
  Event,           \* WSEvent objects; each address is allocated once
  NoThread, NoEvent,
  EventPriMax,     \* EVENT_PRI_MAX
  Respond,         \* the events that callers pass to cancelEvents()
  CancelAfter      \* CancelAfter[t]: whose join precedes t->cancel()

Pri == 0 .. EventPriMax - 1
EVENT_PRI_NORMAL == 0

ASSUME PumpAssumption ==
  /\ Main \in Thread
  /\ NoThread \notin Thread
  /\ NoEvent \notin Event
  /\ EventPriMax \in Nat \ {0}
  /\ Respond \subseteq Event
  /\ CancelAfter \in [Thread \ {Main} -> Thread]

VARIABLES
  root,      \* root[t][p]: the list of priority p in t's pump
  spin,      \* spin[t][p]: the holder of that list's spin lock
  count,     \* count[e]: m_count
  life,      \* life[e]: whether e's memory is allocated
  canceled,  \* canceled[e]: m_canceled_sig
  raised,    \* raised[t]: m_canceled of the thread
  runs,      \* history: how many times e->run() was called
  pc, pri, snap, cur, reg, out

threadVars == <<pc, pri, snap, cur, reg, out>>
vars == <<root, spin, count, life, canceled, raised, runs, threadVars>>

(* What a posting thread remembers across its call. *)
Call == [ev : Event \cup {NoEvent}, to : Thread, pri : Pri, ret : {"handler", "loop"}]

PC == {"scan", "popcs", "popStore", "run", "handler", "relStore", "loop", "done",
       "postLock", "postLink", "retLoad", "retStore", "dropLoad", "dropStore",
       "cancelLock", "cancelLink"}

Linked(t, p) == Range(root[t][p])
InPump(e) == \E t \in Thread, p \in Pri : e \in Linked(t, p)

Init ==
  /\ root = [t \in Thread |-> [p \in Pri |-> <<>>]]
  /\ spin = [t \in Thread |-> [p \in Pri |-> NoThread]]
  /\ count = [e \in Event |-> 0]
  /\ life = [e \in Event |-> "unborn"]
  /\ canceled = [e \in Event |-> FALSE]
  /\ raised = [t \in Thread |-> FALSE]
  /\ runs = [e \in Event |-> 0]
  /\ pc = [t \in Thread |-> "scan"]
  /\ pri = [t \in Thread |-> EventPriMax - 1]
  /\ snap = [t \in Thread |-> <<>>]
  /\ cur = [t \in Thread |-> NoEvent]
  /\ reg = [t \in Thread |-> 0]
  /\ out = [t \in Thread |-> [ev |-> NoEvent, to |-> Main,
                              pri |-> EVENT_PRI_NORMAL, ret |-> "loop"]]

-----------------------------------------------------------------------------
(* Steps that ref(), release() and the spin locks are made of.             *)

Goto(t, l) == pc' = [pc EXCEPT ![t] = l]

(* The counter of a freed event is whatever the allocator left there. *)
Load(t, e) ==
  \E v \in IF life[e] = "freed" THEN 0 .. 3 ELSE {count[e]} :
    reg' = [reg EXCEPT ![t] = v]

StoreIncremented(t, e) ==
  /\ count' = [count EXCEPT ![e] = reg[t] + 1]
  /\ UNCHANGED life

(* An object whose count reaches zero is deleted by the thread that saw it. *)
StoreDecremented(t, e) ==
  LET cnt == IF reg[t] = 0 THEN 0 ELSE reg[t] - 1 IN
  /\ count' = [count EXCEPT ![e] = cnt]
  /\ life' = IF cnt = 0 THEN [life EXCEPT ![e] = "freed"] ELSE life

(* Mutant: list access without the spin lock. *)
AcquireUnguarded(t, q, p) ==
  /\ spin' = [spin EXCEPT ![q][p] = t]
  /\ snap' = [snap EXCEPT ![t] = root[q][p]]

(* acquire() and the read of root[p] that follows it. *)
Acquire(t, q, p) ==
  /\ spin[q][p] = NoThread
  /\ spin' = [spin EXCEPT ![q][p] = t]
  /\ snap' = [snap EXCEPT ![t] = root[q][p]]

Unlock(q, p) == spin' = [spin EXCEPT ![q][p] = NoThread]

SetRoot(q, p, list) == root' = [root EXCEPT ![q][p] = list]

-----------------------------------------------------------------------------
(* WSEventPump::pop, from the highest priority down.                       *)

PopLock(t) ==
  /\ pc[t] = "scan"
  /\ Acquire(t, t, pri[t])
  /\ Goto(t, "popcs")
  /\ UNCHANGED <<root, count, life, canceled, raised, runs, pri, cur, reg, out>>

(* Mutant: the scan of the priorities runs past the lowest one. *)
PopEmptyPastNormal(t) ==
  /\ pc[t] = "popcs"
  /\ snap[t] = <<>>
  /\ Unlock(t, pri[t])
  /\ Goto(t, "scan")
  /\ pri' = [pri EXCEPT ![t] = @ - 1]
  /\ UNCHANGED <<root, count, life, canceled, raised, runs, snap, cur, reg, out>>

(* Mutant: an empty list ends the scan of the priorities. *)
PopEmptyAtOnce(t) ==
  /\ pc[t] = "popcs"
  /\ snap[t] = <<>>
  /\ Unlock(t, pri[t])
  /\ Goto(t, "loop")
  /\ UNCHANGED <<root, count, life, canceled, raised, runs, pri, snap, cur, reg, out>>

PopEmpty(t) ==
  /\ pc[t] = "popcs"
  /\ snap[t] = <<>>
  /\ Unlock(t, pri[t])
  /\ IF pri[t] = EVENT_PRI_NORMAL
     THEN Goto(t, "loop") /\ UNCHANGED pri
     ELSE Goto(t, "scan") /\ pri' = [pri EXCEPT ![t] = @ - 1]
  /\ UNCHANGED <<root, count, life, canceled, raised, runs, snap, cur, reg, out>>

PopUnlink(t) ==
  /\ pc[t] = "popcs"
  /\ snap[t] # <<>>
  /\ SetRoot(t, pri[t], Tail(snap[t]))
  /\ cur' = [cur EXCEPT ![t] = Head(snap[t])]
  /\ Load(t, Head(snap[t]))
  /\ Goto(t, "popStore")
  /\ UNCHANGED <<spin, count, life, canceled, raised, runs, pri, snap, out>>

PopRelease(t) ==
  /\ pc[t] = "popStore"
  /\ StoreDecremented(t, cur[t])
  /\ Unlock(t, pri[t])
  /\ Goto(t, "run")
  /\ UNCHANGED <<root, canceled, raised, runs, pri, snap, cur, reg, out>>

-----------------------------------------------------------------------------
(* The loop of the threads around pop.                                     *)

(* event->run(this): neither the loop nor run() looks at m_canceled_sig. *)
RunEvent(t) ==
  /\ pc[t] = "run"
  /\ runs' = [runs EXCEPT ![cur[t]] = @ + 1]
  /\ Goto(t, "handler")
  /\ UNCHANGED <<root, spin, count, life, canceled, raised, pri, snap, cur, reg, out>>

(* event->release() once the handler has returned. *)
LoopRelease(t) ==
  /\ pc[t] = "handler"
  /\ Load(t, cur[t])
  /\ Goto(t, "relStore")
  /\ UNCHANGED <<root, spin, count, life, canceled, raised, runs, pri, snap, cur, out>>

LoopReleased(t) ==
  /\ pc[t] = "relStore"
  /\ StoreDecremented(t, cur[t])
  /\ cur' = [cur EXCEPT ![t] = NoEvent]
  /\ Goto(t, "loop")
  /\ UNCHANGED <<root, spin, canceled, raised, runs, pri, snap, reg, out>>

(* cancelRaised() in the worker threads; app().idle() in the main thread,  *)
(* which goes on until the GUI has been closed.                            *)
LoopBack(t) ==
  /\ pc[t] = "loop"
  /\ t = Main \/ ~raised[t]
  /\ pri' = [pri EXCEPT ![t] = EventPriMax - 1]
  /\ Goto(t, "scan")
  /\ UNCHANGED <<root, spin, count, life, canceled, raised, runs, snap, cur, reg, out>>

LoopExit(t) ==
  /\ pc[t] = "loop"
  /\ t = Main \/ raised[t]
  /\ Goto(t, "done")
  /\ UNCHANGED <<root, spin, count, life, canceled, raised, runs, pri, snap, cur, reg, out>>

(* RunMainLoop() cancels a worker once the thread before it was joined. *)
RaiseCancel(t) ==
  /\ t # Main
  /\ pc[CancelAfter[t]] = "done"
  /\ ~raised[t]
  /\ raised' = [raised EXCEPT ![t] = TRUE]
  /\ UNCHANGED <<root, spin, count, life, canceled, runs, threadVars>>

-----------------------------------------------------------------------------
(* EventLoop::PostEvent and WSEventPump::push. A handler posts, and so     *)
(* does the GUI of the main thread.                                        *)

MayCall(t) == pc[t] = "handler" \/ (pc[t] = "loop" /\ t = Main)

(* Mutant: an event object is posted again while it is in use. *)
BeginCallReusing(t, q, e, p, first) ==
  /\ MayCall(t)
  /\ life[e] # "freed"
  /\ life' = [life EXCEPT ![e] = "alive"]
  /\ out' = [out EXCEPT ![t] = [ev |-> e, to |-> q, pri |-> p, ret |-> pc[t]]]
  /\ Goto(t, first)

BeginCall(t, q, e, p, first) ==
  /\ MayCall(t)
  /\ life[e] = "unborn"
  /\ life' = [life EXCEPT ![e] = "alive"]
  /\ out' = [out EXCEPT ![t] = [ev |-> e, to |-> q, pri |-> p, ret |-> pc[t]]]
  /\ Goto(t, first)

(* The event is new: the count of its construction, the reference that the *)
(* temporary AutoPtr takes and drops again, and that of push(), which is   *)
(* taken before the lock. Nobody else knows the event yet.                 *)
PostBegin(t, q, e) ==
  /\ e \notin Respond
  /\ BeginCall(t, q, e, EVENT_PRI_NORMAL, "postLock")
  /\ count' = [count EXCEPT ![e] = 2]
  /\ UNCHANGED <<root, spin, canceled, raised, runs, pri, snap, cur, reg>>

PostLock(t) ==
  /\ pc[t] = "postLock"
  /\ Acquire(t, out[t].to, out[t].pri)
  /\ Goto(t, "postLink")
  /\ UNCHANGED <<root, count, life, canceled, raised, runs, pri, cur, reg, out>>

PostLink(t) ==
  /\ pc[t] = "postLink"
  /\ SetRoot(out[t].to, out[t].pri, <<out[t].ev>> \o snap[t])
  /\ Unlock(out[t].to, out[t].pri)
  /\ Goto(t, "retLoad")
  /\ UNCHANGED <<count, life, canceled, raised, runs, pri, snap, cur, reg, out>>

(* "return ptr": the AutoPtr of the caller is built from the raw pointer   *)
(* after the push, and dies at the end of the caller's statement.          *)
ReturnRef(t) ==
  /\ pc[t] = "retLoad"
  /\ Load(t, out[t].ev)
  /\ Goto(t, "retStore")
  /\ UNCHANGED <<root, spin, count, life, canceled, raised, runs, pri, snap, cur, out>>

ReturnRefStore(t) ==
  /\ pc[t] = "retStore"
  /\ StoreIncremented(t, out[t].ev)
  /\ Goto(t, "dropLoad")
  /\ UNCHANGED <<root, spin, canceled, raised, runs, pri, snap, cur, reg, out>>

DropRef(t) ==
  /\ pc[t] = "dropLoad"
  /\ Load(t, out[t].ev)
  /\ Goto(t, "dropStore")
  /\ UNCHANGED <<root, spin, count, life, canceled, raised, runs, pri, snap, cur, out>>

DropRefStore(t) ==
  /\ pc[t] = "dropStore"
  /\ StoreDecremented(t, out[t].ev)
  /\ Goto(t, out[t].ret)
  /\ UNCHANGED <<root, spin, canceled, raised, runs, pri, snap, cur, reg, out>>

-----------------------------------------------------------------------------
(* WSEventPump::cancelEvents(pri, resp).                                   *)

CancelBegin(t, q, e, p) ==
  /\ e \in Respond
  /\ BeginCall(t, q, e, p, "cancelLock")
  /\ count' = [count EXCEPT ![e] = 1]
  /\ UNCHANGED <<root, spin, canceled, raised, runs, pri, snap, cur, reg>>

(* Mutant: cancelEvents() links its respond event without a reference. *)
CancelLockUnreferenced(t) ==
  /\ pc[t] = "cancelLock"
  /\ Acquire(t, out[t].to, out[t].pri)
  /\ Goto(t, "cancelLink")
  /\ UNCHANGED <<root, count, life, canceled, raised, runs, pri, cur, reg, out>>

CancelLock(t) ==
  /\ pc[t] = "cancelLock"
  /\ Acquire(t, out[t].to, out[t].pri)
  /\ count' = [count EXCEPT ![out[t].ev] = @ + 1]
  /\ Goto(t, "cancelLink")
  /\ UNCHANGED <<root, life, canceled, raised, runs, pri, cur, reg, out>>

CancelLink(t) ==
  /\ pc[t] = "cancelLink"
  /\ SetRoot(out[t].to, out[t].pri, <<out[t].ev>> \o snap[t])
  /\ canceled' = [e \in Event |-> canceled[e] \/ e \in Range(snap[t])]
  /\ Unlock(out[t].to, out[t].pri)
  /\ Goto(t, out[t].ret)
  /\ UNCHANGED <<count, life, raised, runs, pri, snap, cur, reg, out>>

-----------------------------------------------------------------------------
Step(t) ==
  \/ PopLock(t) \/ PopEmpty(t) \/ PopUnlink(t) \/ PopRelease(t)
  \/ RunEvent(t) \/ LoopRelease(t) \/ LoopReleased(t)
  \/ LoopBack(t) \/ LoopExit(t)
  \/ PostLock(t) \/ PostLink(t)
  \/ ReturnRef(t) \/ ReturnRefStore(t) \/ DropRef(t) \/ DropRefStore(t)
  \/ CancelLock(t) \/ CancelLink(t)

Request(t) ==
  \E q \in Thread, e \in Event :
    \/ PostBegin(t, q, e)
    \/ \E p \in Pri : CancelBegin(t, q, e, p)

(* Everything has been joined. *)
Terminated ==
  /\ \A t \in Thread : pc[t] = "done"
  /\ UNCHANGED vars

Next ==
  \/ \E t \in Thread : Step(t) \/ Request(t) \/ RaiseCancel(t)
  \/ Terminated

Spec == Init /\ [][Next]_vars

(* Threads are scheduled preemptively, so each goes on stepping; a spin    *)
(* lock that is free again and again is won in the end. When the GUI posts *)
(* and when it closes is up to the user.                                   *)
Fairness ==
  \A t \in Thread :
    /\ WF_vars(Step(t)) /\ WF_vars(RaiseCancel(t))
    /\ SF_vars(PopLock(t)) /\ SF_vars(PostLock(t)) /\ SF_vars(CancelLock(t))

FairSpec == Spec /\ Fairness

-----------------------------------------------------------------------------
(* Types. Every variable of every thread ranges over what the code can     *)
(* store in it.                                                            *)
TypeOK ==
  /\ root \in [Thread -> [Pri -> Seq(Event)]]
  /\ spin \in [Thread -> [Pri -> Thread \cup {NoThread}]]
  /\ count \in [Event -> Nat]
  /\ life \in [Event -> {"unborn", "alive", "freed"}]
  /\ canceled \in [Event -> BOOLEAN]
  /\ raised \in [Thread -> BOOLEAN]
  /\ runs \in [Event -> Nat]
  /\ pc \in [Thread -> PC]
  /\ pri \in [Thread -> Pri]
  /\ snap \in [Thread -> Seq(Event)]
  /\ cur \in [Thread -> Event \cup {NoEvent}]
  /\ reg \in [Thread -> Nat]
  /\ out \in [Thread -> Call]

(* An event that waits in a pump has not been deleted, and its count still *)
(* holds the reference of its creation and that of the pump, whatever the  *)
(* unlocked counting of the thread that posted it does meanwhile.          *)
LinkedAlive ==
  \A e \in Event : InPump(e) => life[e] = "alive" /\ count[e] >= 2

(* No event is linked twice, in one list or in two: next is one field.     *)
LinkedOnce ==
  \A t \in Thread, p \in Pri :
    /\ IsInjective(root[t][p])
    /\ \A u \in Thread, r \in Pri :
         Linked(t, p) \cap Linked(u, r) # {} => t = u /\ p = r

(* The event that a loop runs is deleted by that loop and by nobody else.  *)
RunnerHoldsLive ==
  \A t \in Thread :
    pc[t] \in {"run", "handler", "relStore"} => life[cur[t]] # "freed"

(* Every event in a pump is run, unless its thread has ended first.        *)
EventuallyRun ==
  \A t \in Thread, e \in Event :
    (\E p \in Pri : e \in Linked(t, p)) ~> (runs[e] > 0 \/ pc[t] = "done")

(* The respond event of cancelEvents() is run when the events that it      *)
(* cancelled are finished (eventpump.cpp:107). It is not: the front of the *)
(* list, where it is linked, is where pop() takes from.                    *)
RespondsLast ==
  \A r \in Respond, e \in Event : runs[r] > 0 /\ canceled[e] => runs[e] > 0

-----------------------------------------------------------------------------
(* Why the pump is safe although the counts are not: the inductive         *)
(* invariant behind LinkedAlive and LinkedOnce.                            *)

Posting(t) == pc[t] \in {"postLock", "postLink", "cancelLock", "cancelLink"}
Returning(t) == pc[t] \in {"retLoad", "retStore", "dropLoad", "dropStore"}
Calling(t) == Posting(t) \/ Returning(t)

(* Whoever is inside a critical section holds its lock, and the list it    *)
(* has read there is the list that is linked.                              *)
InsideLock(t, q, p) == spin[q][p] = t /\ (pc[t] # "popStore" => snap[t] = root[q][p])
LockHeld(t) ==
  /\ pc[t] \in {"popcs", "popStore"} => InsideLock(t, t, pri[t])
  /\ pc[t] \in {"postLink", "cancelLink"} => InsideLock(t, out[t].to, out[t].pri)

(* The event a thread runs has left the pumps for good. *)
RunningUnlinked(t) ==
  /\ \/ pc[t] \in {"popStore", "run", "handler", "relStore"}
     \/ Calling(t) /\ out[t].ret = "handler"
     => cur[t] \in Event
  /\ cur[t] # NoEvent => ~InPump(cur[t]) /\ life[cur[t]] # "unborn"

(* An event that is being posted is its caller's alone until it is linked. *)
PostingOwns(t) ==
  /\ Calling(t) => out[t].ev \in Event /\ life[out[t].ev] # "unborn"
  /\ Posting(t) =>
       /\ life[out[t].ev] = "alive"
       /\ count[out[t].ev] = IF pc[t] = "cancelLock" THEN 1 ELSE 2
       /\ ~InPump(out[t].ev)
       /\ \A u \in Thread : cur[u] # out[t].ev
OneCaller(t) ==
  \A u \in Thread : Calling(t) /\ Calling(u) /\ t # u => out[t].ev # out[u].ev

(* While its event still waits, the caller that takes and drops a          *)
(* reference is the only one to count, so it loses no update.              *)
ReturningCounts(t) ==
  Returning(t) /\ InPump(out[t].ev) =>
    /\ pc[t] = "retStore" => reg[t] >= 2
    /\ pc[t] = "dropLoad" => count[out[t].ev] >= 3
    /\ pc[t] = "dropStore" => reg[t] >= 3

ThreadInv(t) ==
  /\ LockHeld(t) /\ RunningUnlinked(t) /\ PostingOwns(t) /\ OneCaller(t)
  /\ ReturningCounts(t)

IInv == TypeOK /\ LinkedAlive /\ LinkedOnce /\ \A t \in Thread : ThreadInv(t)

-----------------------------------------------------------------------------
(* Refinement: an event is pending from the store that links it to the     *)
(* call of its run().                                                      *)
pending ==
  [t \in Thread |->
     (UNION {Linked(t, p) : p \in Pri})
       \cup (IF pc[t] \in {"popStore", "run"} THEN {cur[t]} ELSE {})]

Delivery == INSTANCE EventDelivery

(* The pump implements the delivery of events: none is lost between two    *)
(* lists, none is run by another thread or a second time.                  *)
Delivers == Delivery!Spec
==============================================================================
