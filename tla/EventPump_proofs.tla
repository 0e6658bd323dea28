-------------------------- MODULE EventPump_proofs --------------------------
(***************************************************************************)
(* Proofs about EventPump for every number of threads, events and          *)
(* priorities: IInv is inductive, so TypeOK, LinkedAlive and LinkedOnce    *)
(* hold in every reachable state, and the pump implements EventDelivery.   *)
(***************************************************************************)
EXTENDS EventPump, SequenceTheorems, TLAPS

(* What push() does to a list. *)
LEMMA ConsList ==
  ASSUME NEW S, NEW s \in Seq(S), NEW e \in S
  PROVE  LET c == <<e>> \o s IN
         /\ c \in Seq(S)
         /\ Range(c) = {e} \cup Range(s)
         /\ IsInjective(s) /\ e \notin Range(s) => IsInjective(c)
<1> DEFINE c == <<e>> \o s
<1>1. /\ c \in Seq(S) /\ Len(c) = Len(s) + 1
      /\ c[1] = e
      /\ \A i \in 2 .. Len(c) : c[i] = s[i - 1]
  OBVIOUS
<1>2. DOMAIN c = 1 .. Len(c) /\ DOMAIN s = 1 .. Len(s) /\ Len(s) \in Nat
  BY <1>1
<1> HIDE DEF c
<1>3. \A i \in DOMAIN s : c[i + 1] = s[i] /\ i + 1 \in DOMAIN c
  BY <1>1, <1>2
<1>4. \A i \in DOMAIN c : i = 1 \/ (i - 1 \in DOMAIN s /\ c[i] = s[i - 1])
  BY <1>1, <1>2
<1>5. 1 \in DOMAIN c
  BY <1>1, <1>2
<1>6. Range(c) = {e} \cup Range(s)
  <2>1. e \in Range(c)
    BY <1>1, <1>5 DEF Range
  <2>2. \A x \in Range(s) : x \in Range(c)
    BY <1>3 DEF Range
  <2>3. \A x \in Range(c) : x = e \/ x \in Range(s)
    BY <1>1, <1>4 DEF Range
  <2> QED
    BY <2>1, <2>2, <2>3
<1>7. ASSUME IsInjective(s), e \notin Range(s)
      PROVE  IsInjective(c)
  <2> SUFFICES ASSUME NEW i \in DOMAIN c, NEW j \in DOMAIN c, c[i] = c[j]
               PROVE  i = j
    BY DEF IsInjective
  <2>1. i \in Nat /\ j \in Nat
    BY <1>2
  <2>2. CASE i = 1 \/ j = 1
    BY <1>1, <1>4, <1>7, <2>2 DEF Range
  <2>3. CASE i # 1 /\ j # 1
    BY <1>4, <1>7, <2>1, <2>3 DEF IsInjective
  <2> QED
    BY <2>2, <2>3
<1> QED
  BY <1>1, <1>6, <1>7 DEF c

(* What pop() does to a list. *)
LEMMA TailList ==
  ASSUME NEW S, NEW s \in Seq(S), s # <<>>
  PROVE  /\ Head(s) \in Range(s) /\ Head(s) \in S
         /\ Tail(s) \in Seq(S)
         /\ Range(s) = {Head(s)} \cup Range(Tail(s))
         /\ IsInjective(s) => IsInjective(Tail(s)) /\ Head(s) \notin Range(Tail(s))
<1> DEFINE r == Tail(s)
<1>1. /\ r \in Seq(S) /\ Len(r) = Len(s) - 1 /\ Len(s) >= 1
      /\ Head(s) = s[1]
      /\ \A i \in 1 .. Len(r) : r[i] = s[i + 1]
  OBVIOUS
<1>2. DOMAIN r = 1 .. Len(r) /\ DOMAIN s = 1 .. Len(s) /\ Len(s) \in Nat
  BY <1>1
<1> HIDE DEF r
<1>3. 1 \in DOMAIN s /\ s[1] \in S
  BY <1>1, <1>2
<1>4. \A i \in DOMAIN r : i + 1 \in DOMAIN s /\ i + 1 # 1 /\ r[i] = s[i + 1]
  BY <1>1, <1>2
<1>5. \A i \in DOMAIN r : i \in Nat
  BY <1>2
<1>6. ASSUME IsInjective(s)
      PROVE  IsInjective(r) /\ s[1] \notin Range(r)
  BY <1>3, <1>4, <1>5, <1>6 DEF IsInjective, Range
<1>7. \A i \in DOMAIN s : i = 1 \/ (i - 1 \in DOMAIN r /\ s[i] = r[i - 1])
  BY <1>1, <1>2
<1>8. Range(s) = {s[1]} \cup Range(r)
  <2>1. \A x \in Range(s) : x = s[1] \/ x \in Range(r)
    BY <1>7 DEF Range
  <2>2. s[1] \in Range(s) /\ \A x \in Range(r) : x \in Range(s)
    BY <1>3, <1>4 DEF Range
  <2> QED
    BY <2>1, <2>2
<1> QED
  BY <1>1, <1>3, <1>6, <1>8 DEF r

(* The pumps start empty and the threads at the top of their loops. *)
THEOREM InitIInv == Init => IInv
<1> SUFFICES ASSUME Init PROVE IInv
  OBVIOUS
<1>1. \A t \in Thread, p \in Pri : root[t][p] = <<>>
  BY DEF Init
<1>2. Range(<<>>) = {} /\ IsInjective(<<>>)
  BY DEF Range, IsInjective
<1>3. \A e \in Event : ~InPump(e)
  BY <1>1, <1>2 DEF InPump, Linked
<1>4. TypeOK
  BY PumpAssumption DEF Init, TypeOK, Pri, PC, Call, EVENT_PRI_NORMAL
<1>5. LinkedOnce
  BY <1>1, <1>2 DEF LinkedOnce, Linked
<1> QED
  BY <1>3, <1>4, <1>5 DEF IInv, Init, LinkedAlive, ThreadInv, LockHeld,
     RunningUnlinked, PostingOwns,
     OneCaller, ReturningCounts, Posting, Returning, Calling

-----------------------------------------------------------------------------
(* A step of thread t changes the variables of no other thread. *)
OnlyOwn(t) ==
  \A u \in Thread \ {t} :
    /\ pc'[u] = pc[u] /\ pri'[u] = pri[u] /\ snap'[u] = snap[u]
    /\ cur'[u] = cur[u] /\ reg'[u] = reg[u] /\ out'[u] = out[u]

(* What a step of thread t leaves to another thread u: the locks it holds  *)
(* with their lists, the event it runs and the event it is posting.        *)
Spares(t, u) ==
  /\ \A q \in Thread, p \in Pri :
       spin[q][p] = u => spin'[q][p] = u /\ root'[q][p] = root[q][p]
  /\ \A e \in Event :
       InPump(e)' => InPump(e) \/ (e # cur[u] /\ (Calling(u) => e # out[u].ev))
  /\ \A e \in Event : life[e] # "unborn" => life'[e] # "unborn"
  /\ Posting(u) => /\ count'[out[u].ev] = count[out[u].ev]
                   /\ life'[out[u].ev] = life[out[u].ev]
                   /\ cur'[t] # out[u].ev
  /\ Calling(u) /\ InPump(out[u].ev) => count'[out[u].ev] = count[out[u].ev]
  /\ Calling(u) /\ Calling(t)' => out'[t].ev # out[u].ev

(* A thread that is spared keeps its part of the invariant. *)
LEMMA OtherThread ==
  ASSUME TypeOK, NEW t \in Thread, NEW u \in Thread, u # t,
         ThreadInv(u), OnlyOwn(t), Spares(t, u)
  PROVE  ThreadInv(u)'
<1>1. \A w \in Thread : w # t =>
        /\ Posting(w)' <=> Posting(w)
        /\ Returning(w)' <=> Returning(w)
        /\ Calling(w)' <=> Calling(w)
  BY DEF OnlyOwn, Posting, Returning, Calling
<1>2. out[u].to \in Thread /\ out[u].pri \in Pri /\ pri[u] \in Pri
  BY DEF TypeOK, Call
<1>3. cur[u] \in Event \cup {NoEvent}
  BY DEF TypeOK
<1>4. LockHeld(u)'
  BY <1>2 DEF OnlyOwn, Spares, ThreadInv, LockHeld, InsideLock
<1>5. RunningUnlinked(u)'
  BY <1>1, <1>3, PumpAssumption DEF OnlyOwn, Spares, ThreadInv, RunningUnlinked
<1>6. PostingOwns(u)'
  BY <1>1 DEF OnlyOwn, Spares, ThreadInv, PostingOwns, Calling
<1>7. OneCaller(u)'
  BY <1>1 DEF OnlyOwn, Spares, ThreadInv, OneCaller
<1>8. ReturningCounts(u)'
  BY <1>1 DEF OnlyOwn, Spares, ThreadInv, ReturningCounts, PostingOwns, Calling
<1> QED
  BY <1>4, <1>5, <1>6, <1>7, <1>8 DEF ThreadInv

(* A step that leaves the lists alone and stores the count of at most one  *)
(* event e, one that nobody posts and that is no worse off if it waits.    *)
LEMMA SameLists ==
  ASSUME IInv, TypeOK', NEW t \in Thread, NEW e \in Event \cup {NoEvent}, OnlyOwn(t),
         root' = root, out'[t] = out[t], cur'[t] \in {cur[t], NoEvent},
         Calling(t)' => Calling(t),
         \A q \in Thread, p \in Pri :
           spin[q][p] \notin {t, NoThread} => spin'[q][p] = spin[q][p],
         \A f \in Event : f # e => count'[f] = count[f] /\ life'[f] = life[f],
         e # NoEvent => /\ life[e] # "unborn" /\ life'[e] # "unborn"
                        /\ InPump(e) => life'[e] = "alive" /\ count'[e] >= 2
                        /\ \A u \in Thread : u # t /\ Calling(u) /\ out[u].ev = e =>
                             ~Posting(u) /\ ~InPump(e),
         ThreadInv(t)'
  PROVE  IInv'
<1>1. \A f \in Event : InPump(f)' <=> InPump(f)
  BY DEF InPump, Linked
<1>2. LinkedOnce'
  BY DEF IInv, LinkedOnce, Linked
<1>3. LinkedAlive'
  BY <1>1, PumpAssumption DEF IInv, LinkedAlive
<1>4. ASSUME NEW u \in Thread, u # t
      PROVE  ThreadInv(u)'
  <2>1. u # NoThread
    BY PumpAssumption
  <2>2. ThreadInv(u) /\ ThreadInv(t) /\ TypeOK
    BY DEF IInv
  <2>3. Calling(u) => out[u].ev \in Event /\ out[u].ev # NoEvent
    BY <2>2, PumpAssumption DEF ThreadInv, PostingOwns
  <2>4. Posting(u) => cur[t] # out[u].ev
    BY <2>2 DEF ThreadInv, PostingOwns
  <2>5. Posting(u) => Calling(u)
    BY DEF Calling
  <2>6. Calling(u) /\ Calling(t)' => out'[t].ev # out[u].ev
    BY <1>4, <2>2 DEF ThreadInv, OneCaller
  <2>7. Spares(t, u)
    BY <1>1, <1>4, <2>1, <2>3, <2>4, <2>5, <2>6, PumpAssumption DEF Spares
  <2> QED
    BY <1>4, <2>2, <2>7, OtherThread
<1> QED
  BY <1>2, <1>3, <1>4 DEF IInv

-----------------------------------------------------------------------------
(* pop() takes the lock of the next list. *)
LEMMA PopLockIInv ==
  ASSUME IInv, NEW t \in Thread, PopLock(t)
  PROVE  IInv'
<1>1. TypeOK /\ ThreadInv(t)
  BY DEF IInv
<1>2. pri[t] \in Pri
  BY <1>1, PumpAssumption DEF TypeOK, PC
<1>3. TypeOK'
  BY <1>1, <1>2 DEF PopLock, Goto, Acquire, TypeOK, PC
<1>4. OnlyOwn(t)
  BY <1>1 DEF PopLock, Goto, Acquire, TypeOK, OnlyOwn
<1>5. \A f \in Event : InPump(f)' <=> InPump(f)
  BY DEF PopLock, InPump, Linked
<1>6. ThreadInv(t)'
  <2>1. LockHeld(t)'
    BY <1>1 DEF PopLock, Goto, Acquire, TypeOK, Call, ThreadInv, LockHeld, InsideLock
  <2>2. RunningUnlinked(t)'
    BY <1>1, <1>5 DEF PopLock, Goto, Acquire, TypeOK, Call, ThreadInv, RunningUnlinked,
       PostingOwns, Calling, Posting, Returning
  <2>3. PostingOwns(t)'
    BY <1>1, <1>5 DEF PopLock, Goto, Acquire, TypeOK, Call, ThreadInv, PostingOwns,
       Calling, Posting, Returning
  <2>4. OneCaller(t)'
    BY <1>1, <1>4 DEF PopLock, Goto, Acquire, TypeOK, Call, ThreadInv, OneCaller,
       OnlyOwn, Calling, Posting, Returning
  <2>5. ReturningCounts(t)'
    BY <1>1, <1>2, <1>5 DEF PopLock, Goto, Acquire, TypeOK, Call, ThreadInv,
       ReturningCounts, Calling, Posting, Returning
  <2> QED
    BY <2>1, <2>2, <2>3, <2>4, <2>5 DEF ThreadInv
<1>7. /\ root' = root /\ out'[t] = out[t] /\ cur'[t] \in {cur[t], NoEvent}
      /\ Calling(t)' => Calling(t)
  BY <1>1 DEF PopLock, Goto, Acquire, TypeOK, Calling, Posting, Returning
<1>8. \A q \in Thread, p \in Pri :
        spin[q][p] \notin {t, NoThread} => spin'[q][p] = spin[q][p]
  BY <1>1 DEF PopLock, Goto, Acquire, TypeOK, Call, ThreadInv, LockHeld, InsideLock
<1>9. \A f \in Event : f # NoEvent => count'[f] = count[f] /\ life'[f] = life[f]
  BY <1>1 DEF PopLock, Goto, Acquire, TypeOK
<1> QED
  BY <1>3, <1>4, <1>6, <1>7, <1>8, <1>9, SameLists

(* pop() leaves an empty list for the next priority, or for the loop. *)
LEMMA PopEmptyIInv ==
  ASSUME IInv, NEW t \in Thread, PopEmpty(t)
  PROVE  IInv'
<1>1. TypeOK /\ ThreadInv(t)
  BY DEF IInv
<1>2. pri[t] # EVENT_PRI_NORMAL => pri[t] - 1 \in Pri
  <2>1. pri[t] \in Pri
    BY <1>1 DEF TypeOK
  <2> QED
    BY <2>1, PumpAssumption DEF Pri, EVENT_PRI_NORMAL
<1>3. TypeOK'
  <2>1. pri[t] \in Pri
    BY <1>1 DEF TypeOK
  <2>2. spin' \in [Thread -> [Pri -> Thread \cup {NoThread}]]
    BY <1>1, <2>1 DEF PopEmpty, Unlock, TypeOK
  <2>3. pc' \in [Thread -> PC] /\ pri' \in [Thread -> Pri]
    BY <1>1, <1>2, <2>1 DEF PopEmpty, Goto, TypeOK, PC
  <2> QED
    BY <1>1, <2>2, <2>3 DEF PopEmpty, TypeOK
<1>4. OnlyOwn(t)
  BY <1>1 DEF PopEmpty, Goto, Unlock, TypeOK, OnlyOwn
<1>5. \A f \in Event : InPump(f)' <=> InPump(f)
  BY DEF PopEmpty, InPump, Linked
<1>6. ThreadInv(t)'
  <2>1. LockHeld(t)'
    BY <1>1 DEF PopEmpty, Goto, Unlock, TypeOK, Call, ThreadInv, LockHeld, InsideLock
  <2>2. RunningUnlinked(t)'
    BY <1>1, <1>5 DEF PopEmpty, Goto, Unlock, TypeOK, Call, ThreadInv, RunningUnlinked,
       PostingOwns, Calling, Posting, Returning
  <2>3. PostingOwns(t)'
    BY <1>1, <1>5 DEF PopEmpty, Goto, Unlock, TypeOK, Call, ThreadInv, PostingOwns,
       Calling, Posting, Returning
  <2>4. OneCaller(t)'
    BY <1>1 DEF PopEmpty, Goto, TypeOK, OneCaller, Calling, Posting, Returning
  <2>5. ReturningCounts(t)'
    BY <1>1, <1>2, <1>5 DEF PopEmpty, Goto, Unlock, TypeOK, Call, ThreadInv,
       ReturningCounts, Calling, Posting, Returning
  <2> QED
    BY <2>1, <2>2, <2>3, <2>4, <2>5 DEF ThreadInv
<1>7. /\ root' = root /\ out'[t] = out[t] /\ cur'[t] \in {cur[t], NoEvent}
      /\ Calling(t)' => Calling(t)
  BY <1>1 DEF PopEmpty, Goto, Unlock, TypeOK, Calling, Posting, Returning
<1>8. \A q \in Thread, p \in Pri :
        spin[q][p] \notin {t, NoThread} => spin'[q][p] = spin[q][p]
  BY <1>1 DEF PopEmpty, Goto, Unlock, TypeOK, Call, ThreadInv, LockHeld, InsideLock
<1>9. \A f \in Event : f # NoEvent => count'[f] = count[f] /\ life'[f] = life[f]
  BY <1>1 DEF PopEmpty, Goto, Unlock, TypeOK
<1> QED
  BY <1>3, <1>4, <1>6, <1>7, <1>8, <1>9, SameLists

(* The loop calls run() on the event it popped. *)
LEMMA RunEventIInv ==
  ASSUME IInv, NEW t \in Thread, RunEvent(t)
  PROVE  IInv'
<1>1. TypeOK /\ ThreadInv(t)
  BY DEF IInv
<1>2. cur[t] \in Event
  BY <1>1, PumpAssumption DEF RunEvent, TypeOK, ThreadInv, RunningUnlinked
<1>3. TypeOK'
  BY <1>1, <1>2 DEF RunEvent, Goto, TypeOK, PC
<1>4. OnlyOwn(t)
  BY <1>1 DEF RunEvent, Goto, TypeOK, OnlyOwn
<1>5. \A f \in Event : InPump(f)' <=> InPump(f)
  BY DEF RunEvent, InPump, Linked
<1>6. ThreadInv(t)'
  <2>1. LockHeld(t)'
    BY <1>1 DEF RunEvent, Goto, TypeOK, Call, ThreadInv, LockHeld, InsideLock
  <2>2. RunningUnlinked(t)'
    BY <1>1, <1>5 DEF RunEvent, Goto, TypeOK, Call, ThreadInv, RunningUnlinked,
       PostingOwns, Calling, Posting, Returning
  <2>3. PostingOwns(t)'
    BY <1>1, <1>5 DEF RunEvent, Goto, TypeOK, Call, ThreadInv, PostingOwns, Calling,
       Posting, Returning
  <2>4. OneCaller(t)'
    BY <1>1, <1>4 DEF RunEvent, Goto, TypeOK, Call, ThreadInv, OneCaller, OnlyOwn,
       Calling, Posting, Returning
  <2>5. ReturningCounts(t)'
    BY <1>1, <1>2, <1>5 DEF RunEvent, Goto, TypeOK, Call, ThreadInv, ReturningCounts,
       Calling, Posting, Returning
  <2> QED
    BY <2>1, <2>2, <2>3, <2>4, <2>5 DEF ThreadInv
<1>7. /\ root' = root /\ out'[t] = out[t] /\ cur'[t] \in {cur[t], NoEvent}
      /\ Calling(t)' => Calling(t)
  BY <1>1 DEF RunEvent, Goto, TypeOK, Calling, Posting, Returning
<1>8. \A q \in Thread, p \in Pri :
        spin[q][p] \notin {t, NoThread} => spin'[q][p] = spin[q][p]
  BY <1>1 DEF RunEvent, Goto, TypeOK, Call, ThreadInv, LockHeld, InsideLock
<1>9. \A f \in Event : f # NoEvent => count'[f] = count[f] /\ life'[f] = life[f]
  BY <1>1 DEF RunEvent, Goto, TypeOK
<1> QED
  BY <1>3, <1>4, <1>6, <1>7, <1>8, <1>9, SameLists

(* The loop reads the count that it is about to decrement. *)
LEMMA LoopReleaseIInv ==
  ASSUME IInv, NEW t \in Thread, LoopRelease(t)
  PROVE  IInv'
<1>1. TypeOK /\ ThreadInv(t)
  BY DEF IInv
<1>2. cur[t] \in Event
  BY <1>1, PumpAssumption DEF LoopRelease, TypeOK, ThreadInv, RunningUnlinked
<1>3. TypeOK'
  <2>1. reg' \in [Thread -> Nat]
    BY <1>1, <1>2 DEF LoopRelease, Load, TypeOK
  <2>2. pc' \in [Thread -> PC]
    BY <1>1, <1>2 DEF LoopRelease, Goto, TypeOK, PC
  <2> QED
    BY <1>1, <1>2, <2>1, <2>2 DEF LoopRelease, TypeOK
<1>4. OnlyOwn(t)
  BY <1>1 DEF LoopRelease, Goto, Load, TypeOK, OnlyOwn
<1>5. \A f \in Event : InPump(f)' <=> InPump(f)
  BY DEF LoopRelease, InPump, Linked
<1>6. ThreadInv(t)'
  <2>1. LockHeld(t)'
    BY <1>1 DEF LoopRelease, Goto, Load, TypeOK, Call, ThreadInv, LockHeld, InsideLock
  <2>2. RunningUnlinked(t)'
    BY <1>1, <1>5 DEF LoopRelease, Goto, Load, TypeOK, Call, ThreadInv,
       RunningUnlinked, PostingOwns, Calling, Posting, Returning
  <2>3. PostingOwns(t)'
    BY <1>1, <1>5 DEF LoopRelease, Goto, Load, TypeOK, Call, ThreadInv, PostingOwns,
       Calling, Posting, Returning
  <2>4. OneCaller(t)'
    BY <1>1, <1>4 DEF LoopRelease, Goto, Load, TypeOK, Call, ThreadInv, OneCaller,
       OnlyOwn, Calling, Posting, Returning
  <2>5. ReturningCounts(t)'
    BY <1>1, <1>2, <1>5 DEF LoopRelease, Goto, Load, TypeOK, Call, ThreadInv,
       ReturningCounts, Calling, Posting, Returning
  <2> QED
    BY <2>1, <2>2, <2>3, <2>4, <2>5 DEF ThreadInv
<1>7. /\ root' = root /\ out'[t] = out[t] /\ cur'[t] \in {cur[t], NoEvent}
      /\ Calling(t)' => Calling(t)
  BY <1>1 DEF LoopRelease, Goto, Load, TypeOK, Calling, Posting, Returning
<1>8. \A q \in Thread, p \in Pri :
        spin[q][p] \notin {t, NoThread} => spin'[q][p] = spin[q][p]
  BY <1>1 DEF LoopRelease, Goto, Load, TypeOK, Call, ThreadInv, LockHeld, InsideLock
<1>9. \A f \in Event : f # NoEvent => count'[f] = count[f] /\ life'[f] = life[f]
  BY <1>1 DEF LoopRelease, Goto, Load, TypeOK
<1> QED
  BY <1>3, <1>4, <1>6, <1>7, <1>8, <1>9, SameLists

(* The loop starts over. *)
LEMMA LoopBackIInv ==
  ASSUME IInv, NEW t \in Thread, LoopBack(t)
  PROVE  IInv'
<1>1. TypeOK /\ ThreadInv(t)
  BY DEF IInv
<1>2. EventPriMax - 1 \in Pri
  BY <1>1, PumpAssumption DEF TypeOK, Pri
<1>3. TypeOK'
  BY <1>1, <1>2 DEF LoopBack, Goto, TypeOK, PC
<1>4. OnlyOwn(t)
  BY <1>1 DEF LoopBack, Goto, TypeOK, OnlyOwn
<1>5. \A f \in Event : InPump(f)' <=> InPump(f)
  BY DEF LoopBack, InPump, Linked
<1>6. ThreadInv(t)'
  <2>1. LockHeld(t)'
    BY <1>1 DEF LoopBack, Goto, TypeOK, Call, ThreadInv, LockHeld, InsideLock
  <2>2. RunningUnlinked(t)'
    BY <1>1, <1>5 DEF LoopBack, Goto, TypeOK, Call, ThreadInv, RunningUnlinked,
       PostingOwns, Calling, Posting, Returning
  <2>3. PostingOwns(t)'
    BY <1>1, <1>5 DEF LoopBack, Goto, TypeOK, Call, ThreadInv, PostingOwns, Calling,
       Posting, Returning
  <2>4. OneCaller(t)'
    BY <1>1, <1>4 DEF LoopBack, Goto, TypeOK, Call, ThreadInv, OneCaller, OnlyOwn,
       Calling, Posting, Returning
  <2>5. ReturningCounts(t)'
    BY <1>1, <1>2, <1>5 DEF LoopBack, Goto, TypeOK, Call, ThreadInv, ReturningCounts,
       Calling, Posting, Returning
  <2> QED
    BY <2>1, <2>2, <2>3, <2>4, <2>5 DEF ThreadInv
<1>7. /\ root' = root /\ out'[t] = out[t] /\ cur'[t] \in {cur[t], NoEvent}
      /\ Calling(t)' => Calling(t)
  BY <1>1 DEF LoopBack, Goto, TypeOK, Calling, Posting, Returning
<1>8. \A q \in Thread, p \in Pri :
        spin[q][p] \notin {t, NoThread} => spin'[q][p] = spin[q][p]
  BY <1>1 DEF LoopBack, Goto, TypeOK, Call, ThreadInv, LockHeld, InsideLock
<1>9. \A f \in Event : f # NoEvent => count'[f] = count[f] /\ life'[f] = life[f]
  BY <1>1 DEF LoopBack, Goto, TypeOK
<1> QED
  BY <1>3, <1>4, <1>6, <1>7, <1>8, <1>9, SameLists

(* The loop ends. *)
LEMMA LoopExitIInv ==
  ASSUME IInv, NEW t \in Thread, LoopExit(t)
  PROVE  IInv'
<1>1. TypeOK /\ ThreadInv(t)
  BY DEF IInv
<1>2. pri[t] \in Pri
  BY <1>1, PumpAssumption DEF LoopExit, TypeOK, PC
<1>3. TypeOK'
  BY <1>1, <1>2 DEF LoopExit, Goto, TypeOK, PC
<1>4. OnlyOwn(t)
  BY <1>1 DEF LoopExit, Goto, TypeOK, OnlyOwn
<1>5. \A f \in Event : InPump(f)' <=> InPump(f)
  BY DEF LoopExit, InPump, Linked
<1>6. ThreadInv(t)'
  <2>1. LockHeld(t)'
    BY <1>1 DEF LoopExit, Goto, TypeOK, Call, ThreadInv, LockHeld, InsideLock
  <2>2. RunningUnlinked(t)'
    BY <1>1, <1>5 DEF LoopExit, Goto, TypeOK, Call, ThreadInv, RunningUnlinked,
       PostingOwns, Calling, Posting, Returning
  <2>3. PostingOwns(t)'
    BY <1>1, <1>5 DEF LoopExit, Goto, TypeOK, Call, ThreadInv, PostingOwns, Calling,
       Posting, Returning
  <2>4. OneCaller(t)'
    BY <1>1, <1>4 DEF LoopExit, Goto, TypeOK, Call, ThreadInv, OneCaller, OnlyOwn,
       Calling, Posting, Returning
  <2>5. ReturningCounts(t)'
    BY <1>1, <1>2, <1>5 DEF LoopExit, Goto, TypeOK, Call, ThreadInv, ReturningCounts,
       Calling, Posting, Returning
  <2> QED
    BY <2>1, <2>2, <2>3, <2>4, <2>5 DEF ThreadInv
<1>7. /\ root' = root /\ out'[t] = out[t] /\ cur'[t] \in {cur[t], NoEvent}
      /\ Calling(t)' => Calling(t)
  BY <1>1 DEF LoopExit, Goto, TypeOK, Calling, Posting, Returning
<1>8. \A q \in Thread, p \in Pri :
        spin[q][p] \notin {t, NoThread} => spin'[q][p] = spin[q][p]
  BY <1>1 DEF LoopExit, Goto, TypeOK, Call, ThreadInv, LockHeld, InsideLock
<1>9. \A f \in Event : f # NoEvent => count'[f] = count[f] /\ life'[f] = life[f]
  BY <1>1 DEF LoopExit, Goto, TypeOK
<1> QED
  BY <1>3, <1>4, <1>6, <1>7, <1>8, <1>9, SameLists

LEMMA RaiseCancelIInv ==
  ASSUME IInv, NEW t \in Thread, RaiseCancel(t)
  PROVE  IInv'
<1>1. TypeOK /\ ThreadInv(t)
  BY DEF IInv
<1>2. Calling(t) => out[t].ev \in Event
  BY <1>1, PumpAssumption DEF RaiseCancel, TypeOK, ThreadInv, PostingOwns
<1>3. TypeOK'
  BY <1>1, <1>2 DEF RaiseCancel, threadVars, TypeOK, PC
<1>4. OnlyOwn(t)
  BY <1>1 DEF RaiseCancel, threadVars, TypeOK, OnlyOwn
<1>5. \A f \in Event : InPump(f)' <=> InPump(f)
  BY DEF RaiseCancel, InPump, Linked
<1>6. ThreadInv(t)'
  <2>1. LockHeld(t)'
    BY <1>1 DEF RaiseCancel, threadVars, TypeOK, Call, ThreadInv, LockHeld, InsideLock
  <2>2. RunningUnlinked(t)'
    BY <1>1, <1>5 DEF RaiseCancel, threadVars, TypeOK, Call, ThreadInv,
       RunningUnlinked, PostingOwns, Calling, Posting, Returning
  <2>3. PostingOwns(t)'
    BY <1>1, <1>5 DEF RaiseCancel, threadVars, TypeOK, Call, ThreadInv, PostingOwns,
       Calling, Posting, Returning
  <2>4. OneCaller(t)'
    BY <1>1, <1>4 DEF RaiseCancel, threadVars, TypeOK, Call, ThreadInv, OneCaller,
       OnlyOwn, Calling, Posting, Returning
  <2>5. ReturningCounts(t)'
    BY <1>1, <1>2, <1>5 DEF RaiseCancel, threadVars, ThreadInv, ReturningCounts,
       Calling, Posting, Returning
  <2> QED
    BY <2>1, <2>2, <2>3, <2>4, <2>5 DEF ThreadInv
<1>7. /\ root' = root /\ out'[t] = out[t] /\ cur'[t] \in {cur[t], NoEvent}
      /\ Calling(t)' => Calling(t)
  BY <1>1 DEF RaiseCancel, threadVars, TypeOK, Calling, Posting, Returning
<1>8. \A q \in Thread, p \in Pri :
        spin[q][p] \notin {t, NoThread} => spin'[q][p] = spin[q][p]
  BY <1>1 DEF RaiseCancel, threadVars, TypeOK, Call, ThreadInv, LockHeld, InsideLock
<1>9. \A f \in Event : f # NoEvent => count'[f] = count[f] /\ life'[f] = life[f]
  BY <1>1 DEF RaiseCancel, threadVars, TypeOK
<1> QED
  BY <1>3, <1>4, <1>6, <1>7, <1>8, <1>9, SameLists

(* push() takes the lock of the list it will link to. *)
LEMMA PostLockIInv ==
  ASSUME IInv, NEW t \in Thread, PostLock(t)
  PROVE  IInv'
<1>1. TypeOK /\ ThreadInv(t)
  BY DEF IInv
<1>2. /\ out[t].ev \in Event /\ out[t].to \in Thread
      /\ out[t].pri \in Pri /\ out[t].ret \in {"handler", "loop"}
  BY <1>1, PumpAssumption DEF PostLock, TypeOK, Call, ThreadInv, PostingOwns, Calling,
     Posting, Returning
<1>3. TypeOK'
  <2>1. spin' \in [Thread -> [Pri -> Thread \cup {NoThread}]]
    BY <1>1, <1>2 DEF PostLock, Acquire, TypeOK
  <2>2. snap' \in [Thread -> Seq(Event)]
    BY <1>1, <1>2 DEF PostLock, Acquire, TypeOK
  <2>3. pc' \in [Thread -> PC]
    BY <1>1 DEF PostLock, Goto, TypeOK, PC
  <2> QED
    BY <1>1, <2>1, <2>2, <2>3 DEF PostLock, TypeOK
<1>4. OnlyOwn(t)
  BY <1>1 DEF PostLock, Goto, Acquire, TypeOK, OnlyOwn
<1>5. \A f \in Event : InPump(f)' <=> InPump(f)
  BY DEF PostLock, InPump, Linked
<1>6. ThreadInv(t)'
  <2>1. LockHeld(t)'
    BY <1>1 DEF PostLock, Goto, Acquire, TypeOK, Call, ThreadInv, LockHeld, InsideLock
  <2>2. RunningUnlinked(t)'
    BY <1>1, <1>5 DEF PostLock, Goto, Acquire, TypeOK, Call, ThreadInv,
       RunningUnlinked, PostingOwns, Calling, Posting, Returning
  <2>3. PostingOwns(t)'
    BY <1>1, <1>5 DEF PostLock, Goto, Acquire, TypeOK, Call, ThreadInv, PostingOwns,
       Calling, Posting, Returning
  <2>4. OneCaller(t)'
    BY <1>1, <1>4 DEF PostLock, Goto, Acquire, TypeOK, Call, ThreadInv, OneCaller,
       OnlyOwn, Calling, Posting, Returning
  <2>5. ReturningCounts(t)'
    BY <1>1, <1>2, <1>5 DEF PostLock, Goto, Acquire, TypeOK, Call, ThreadInv,
       ReturningCounts, Calling, Posting, Returning
  <2> QED
    BY <2>1, <2>2, <2>3, <2>4, <2>5 DEF ThreadInv
<1>7. /\ root' = root /\ out'[t] = out[t] /\ cur'[t] \in {cur[t], NoEvent}
      /\ Calling(t)' => Calling(t)
  BY <1>1 DEF PostLock, Goto, Acquire, TypeOK, Calling, Posting, Returning
<1>8. \A q \in Thread, p \in Pri :
        spin[q][p] \notin {t, NoThread} => spin'[q][p] = spin[q][p]
  BY <1>1 DEF PostLock, Goto, Acquire, TypeOK, Call, ThreadInv, LockHeld, InsideLock
<1>9. \A f \in Event : f # NoEvent => count'[f] = count[f] /\ life'[f] = life[f]
  BY <1>1 DEF PostLock, Goto, Acquire, TypeOK
<1> QED
  BY <1>3, <1>4, <1>6, <1>7, <1>8, <1>9, SameLists

(* The returned AutoPtr reads the count. *)
LEMMA ReturnRefIInv ==
  ASSUME IInv, NEW t \in Thread, ReturnRef(t)
  PROVE  IInv'
<1>1. TypeOK /\ ThreadInv(t)
  BY DEF IInv
<1>2. /\ out[t].ev \in Event /\ out[t].to \in Thread
      /\ out[t].pri \in Pri /\ out[t].ret \in {"handler", "loop"}
  BY <1>1, PumpAssumption DEF ReturnRef, TypeOK, Call, ThreadInv, PostingOwns, Calling,
     Posting, Returning
<1>3. TypeOK'
  <2>1. reg' \in [Thread -> Nat]
    BY <1>1, <1>2 DEF ReturnRef, Load, TypeOK
  <2>2. pc' \in [Thread -> PC]
    BY <1>1, <1>2 DEF ReturnRef, Goto, TypeOK, PC
  <2> QED
    BY <1>1, <1>2, <2>1, <2>2 DEF ReturnRef, TypeOK
<1>4. OnlyOwn(t)
  BY <1>1 DEF ReturnRef, Goto, Load, TypeOK, OnlyOwn
<1>5. \A f \in Event : InPump(f)' <=> InPump(f)
  BY DEF ReturnRef, InPump, Linked
<1>6. ThreadInv(t)'
  <2>1. LockHeld(t)'
    BY <1>1 DEF ReturnRef, Goto, Load, TypeOK, Call, ThreadInv, LockHeld, InsideLock
  <2>2. RunningUnlinked(t)'
    BY <1>1, <1>5 DEF ReturnRef, Goto, Load, TypeOK, Call, ThreadInv, RunningUnlinked,
       PostingOwns, Calling, Posting, Returning
  <2>3. PostingOwns(t)'
    BY <1>1, <1>5 DEF ReturnRef, Goto, Load, TypeOK, Call, ThreadInv, PostingOwns,
       Calling, Posting, Returning
  <2>4. OneCaller(t)'
    BY <1>1, <1>4 DEF ReturnRef, Goto, Load, TypeOK, Call, ThreadInv, OneCaller,
       OnlyOwn, Calling, Posting, Returning
  <2>5. ReturningCounts(t)'
    <3>1. InPump(out[t].ev) => life[out[t].ev] = "alive" /\ count[out[t].ev] >= 2
      BY <1>2 DEF IInv, LinkedAlive
    <3> QED
      BY <1>1, <1>2, <1>5, <3>1 DEF ReturnRef, Goto, Load, TypeOK, ThreadInv,
         ReturningCounts, Calling, Posting, Returning
  <2> QED
    BY <2>1, <2>2, <2>3, <2>4, <2>5 DEF ThreadInv
<1>7. /\ root' = root /\ out'[t] = out[t] /\ cur'[t] \in {cur[t], NoEvent}
      /\ Calling(t)' => Calling(t)
  BY <1>1 DEF ReturnRef, Goto, Load, TypeOK, Calling, Posting, Returning
<1>8. \A q \in Thread, p \in Pri :
        spin[q][p] \notin {t, NoThread} => spin'[q][p] = spin[q][p]
  BY <1>1 DEF ReturnRef, Goto, Load, TypeOK, Call, ThreadInv, LockHeld, InsideLock
<1>9. \A f \in Event : f # NoEvent => count'[f] = count[f] /\ life'[f] = life[f]
  BY <1>1 DEF ReturnRef, Goto, Load, TypeOK
<1> QED
  BY <1>3, <1>4, <1>6, <1>7, <1>8, <1>9, SameLists

(* The destructor of that AutoPtr reads the count. *)
LEMMA DropRefIInv ==
  ASSUME IInv, NEW t \in Thread, DropRef(t)
  PROVE  IInv'
<1>1. TypeOK /\ ThreadInv(t)
  BY DEF IInv
<1>2. /\ out[t].ev \in Event /\ out[t].to \in Thread
      /\ out[t].pri \in Pri /\ out[t].ret \in {"handler", "loop"}
  BY <1>1, PumpAssumption DEF DropRef, TypeOK, Call, ThreadInv, PostingOwns, Calling,
     Posting, Returning
<1>3. TypeOK'
  <2>1. reg' \in [Thread -> Nat]
    BY <1>1, <1>2 DEF DropRef, Load, TypeOK
  <2>2. pc' \in [Thread -> PC]
    BY <1>1, <1>2 DEF DropRef, Goto, TypeOK, PC
  <2> QED
    BY <1>1, <1>2, <2>1, <2>2 DEF DropRef, TypeOK
<1>4. OnlyOwn(t)
  BY <1>1 DEF DropRef, Goto, Load, TypeOK, OnlyOwn
<1>5. \A f \in Event : InPump(f)' <=> InPump(f)
  BY DEF DropRef, InPump, Linked
<1>6. ThreadInv(t)'
  <2>1. LockHeld(t)'
    BY <1>1 DEF DropRef, Goto, Load, TypeOK, Call, ThreadInv, LockHeld, InsideLock
  <2>2. RunningUnlinked(t)'
    BY <1>1, <1>5 DEF DropRef, Goto, Load, TypeOK, Call, ThreadInv, RunningUnlinked,
       PostingOwns, Calling, Posting, Returning
  <2>3. PostingOwns(t)'
    BY <1>1, <1>5 DEF DropRef, Goto, Load, TypeOK, Call, ThreadInv, PostingOwns,
       Calling, Posting, Returning
  <2>4. OneCaller(t)'
    BY <1>1, <1>4 DEF DropRef, Goto, Load, TypeOK, Call, ThreadInv, OneCaller, OnlyOwn,
       Calling, Posting, Returning
  <2>5. ReturningCounts(t)'
    <3>1. InPump(out[t].ev) => life[out[t].ev] = "alive" /\ count[out[t].ev] >= 2
      BY <1>2 DEF IInv, LinkedAlive
    <3> QED
      BY <1>1, <1>2, <1>5, <3>1 DEF DropRef, Goto, Load, TypeOK, ThreadInv,
         ReturningCounts, Calling, Posting, Returning
  <2> QED
    BY <2>1, <2>2, <2>3, <2>4, <2>5 DEF ThreadInv
<1>7. /\ root' = root /\ out'[t] = out[t] /\ cur'[t] \in {cur[t], NoEvent}
      /\ Calling(t)' => Calling(t)
  BY <1>1 DEF DropRef, Goto, Load, TypeOK, Calling, Posting, Returning
<1>8. \A q \in Thread, p \in Pri :
        spin[q][p] \notin {t, NoThread} => spin'[q][p] = spin[q][p]
  BY <1>1 DEF DropRef, Goto, Load, TypeOK, Call, ThreadInv, LockHeld, InsideLock
<1>9. \A f \in Event : f # NoEvent => count'[f] = count[f] /\ life'[f] = life[f]
  BY <1>1 DEF DropRef, Goto, Load, TypeOK
<1> QED
  BY <1>3, <1>4, <1>6, <1>7, <1>8, <1>9, SameLists

(* pop() drops the reference of the pump. *)
LEMMA PopReleaseIInv ==
  ASSUME IInv, NEW t \in Thread, PopRelease(t)
  PROVE  IInv'
<1>1. TypeOK /\ ThreadInv(t)
  BY DEF IInv
<1>2. cur[t] \in Event
  BY <1>1, PumpAssumption DEF PopRelease, TypeOK, ThreadInv, RunningUnlinked
<1>3. TypeOK'
  <2>1. count' \in [Event -> Nat] /\ life' \in [Event -> {"unborn", "alive", "freed"}]
    BY <1>1, <1>2 DEF PopRelease, StoreDecremented, TypeOK
  <2>2. pc' \in [Thread -> PC]
    BY <1>1, <1>2 DEF PopRelease, Goto, TypeOK, PC
  <2> QED
    BY <1>1, <1>2, <2>1, <2>2 DEF PopRelease, Unlock, TypeOK
<1>4. OnlyOwn(t)
  BY <1>1 DEF PopRelease, Goto, Unlock, StoreDecremented, TypeOK, OnlyOwn
<1>5. \A f \in Event : InPump(f)' <=> InPump(f)
  BY DEF PopRelease, InPump, Linked
<1>6. ThreadInv(t)'
  <2>1. LockHeld(t)'
    BY <1>1 DEF PopRelease, Goto, Unlock, StoreDecremented, TypeOK, Call, ThreadInv,
       LockHeld, InsideLock
  <2>2. RunningUnlinked(t)'
    BY <1>1, <1>5 DEF PopRelease, Goto, Unlock, StoreDecremented, TypeOK, Call,
       ThreadInv, RunningUnlinked, PostingOwns, Calling, Posting, Returning
  <2>3. PostingOwns(t)'
    BY <1>1, <1>5 DEF PopRelease, Goto, Unlock, StoreDecremented, TypeOK, Call,
       ThreadInv, PostingOwns, Calling, Posting, Returning
  <2>4. OneCaller(t)'
    BY <1>1, <1>4 DEF PopRelease, Goto, Unlock, StoreDecremented, TypeOK, Call,
       ThreadInv, OneCaller, OnlyOwn, Calling, Posting, Returning
  <2>5. ReturningCounts(t)'
    BY <1>1, <1>2, <1>5 DEF PopRelease, Goto, Unlock, StoreDecremented, TypeOK, Call,
       ThreadInv, ReturningCounts, Calling, Posting, Returning
  <2> QED
    BY <2>1, <2>2, <2>3, <2>4, <2>5 DEF ThreadInv
<1>7. /\ root' = root /\ out'[t] = out[t] /\ cur'[t] \in {cur[t], NoEvent}
      /\ Calling(t)' => Calling(t)
  BY <1>1 DEF PopRelease, Goto, Unlock, StoreDecremented, TypeOK, Calling, Posting,
     Returning
<1>8. \A q \in Thread, p \in Pri :
        spin[q][p] \notin {t, NoThread} => spin'[q][p] = spin[q][p]
  BY <1>1 DEF PopRelease, Goto, Unlock, StoreDecremented, TypeOK, Call, ThreadInv,
     LockHeld, InsideLock
<1>9. \A f \in Event : f # cur[t] => count'[f] = count[f] /\ life'[f] = life[f]
  BY <1>1 DEF PopRelease, Goto, Unlock, StoreDecremented, TypeOK
<1>10. cur[t] \in Event /\ cur[t] # NoEvent
  BY <1>2, PumpAssumption
<1>11. life[cur[t]] # "unborn" /\ life'[cur[t]] # "unborn"
  BY <1>1, <1>10 DEF PopRelease, Goto, Unlock, StoreDecremented, TypeOK, ThreadInv,
     RunningUnlinked, PostingOwns, Calling, Posting, Returning
<1>12. InPump(cur[t]) => life'[cur[t]] = "alive" /\ count'[cur[t]] >= 2
  BY <1>1, <1>10 DEF PopRelease, Goto, Unlock, StoreDecremented, TypeOK, IInv,
     LinkedAlive, ThreadInv, RunningUnlinked, PostingOwns, ReturningCounts, Calling,
     Posting, Returning
<1>13. \A u \in Thread : u # t /\ Calling(u) /\ out[u].ev = cur[t] =>
         ~Posting(u) /\ ~InPump(cur[t])
  BY <1>1, <1>10 DEF PopRelease, Goto, Unlock, StoreDecremented, IInv, ThreadInv,
     RunningUnlinked, PostingOwns, OneCaller, Calling, Posting, Returning
<1> QED
  BY <1>3, <1>4, <1>6, <1>7, <1>8, <1>9, <1>10, <1>11, <1>12, <1>13, SameLists,
     PumpAssumption

(* The loop stores the count and deletes the event it has run. *)
LEMMA LoopReleasedIInv ==
  ASSUME IInv, NEW t \in Thread, LoopReleased(t)
  PROVE  IInv'
<1>1. TypeOK /\ ThreadInv(t)
  BY DEF IInv
<1>2. cur[t] \in Event
  BY <1>1, PumpAssumption DEF LoopReleased, TypeOK, ThreadInv, RunningUnlinked
<1>3. TypeOK'
  <2>1. count' \in [Event -> Nat] /\ life' \in [Event -> {"unborn", "alive", "freed"}]
    BY <1>1, <1>2 DEF LoopReleased, StoreDecremented, TypeOK
  <2>2. pc' \in [Thread -> PC]
    BY <1>1, <1>2 DEF LoopReleased, Goto, TypeOK, PC
  <2> QED
    BY <1>1, <1>2, <2>1, <2>2 DEF LoopReleased, TypeOK
<1>4. OnlyOwn(t)
  BY <1>1 DEF LoopReleased, Goto, StoreDecremented, TypeOK, OnlyOwn
<1>5. \A f \in Event : InPump(f)' <=> InPump(f)
  BY DEF LoopReleased, InPump, Linked
<1>6. ThreadInv(t)'
  <2>1. LockHeld(t)'
    BY <1>1 DEF LoopReleased, Goto, StoreDecremented, TypeOK, Call, ThreadInv,
       LockHeld, InsideLock
  <2>2. RunningUnlinked(t)'
    BY <1>1, <1>5 DEF LoopReleased, Goto, StoreDecremented, TypeOK, Call, ThreadInv,
       RunningUnlinked, PostingOwns, Calling, Posting, Returning
  <2>3. PostingOwns(t)'
    BY <1>1, <1>5 DEF LoopReleased, Goto, StoreDecremented, TypeOK, Call, ThreadInv,
       PostingOwns, Calling, Posting, Returning
  <2>4. OneCaller(t)'
    BY <1>1, <1>4 DEF LoopReleased, Goto, StoreDecremented, TypeOK, Call, ThreadInv,
       OneCaller, OnlyOwn, Calling, Posting, Returning
  <2>5. ReturningCounts(t)'
    BY <1>1, <1>2, <1>5 DEF LoopReleased, Goto, StoreDecremented, TypeOK, Call,
       ThreadInv, ReturningCounts, Calling, Posting, Returning
  <2> QED
    BY <2>1, <2>2, <2>3, <2>4, <2>5 DEF ThreadInv
<1>7. /\ root' = root /\ out'[t] = out[t] /\ cur'[t] \in {cur[t], NoEvent}
      /\ Calling(t)' => Calling(t)
  BY <1>1 DEF LoopReleased, Goto, StoreDecremented, TypeOK, Calling, Posting, Returning
<1>8. \A q \in Thread, p \in Pri :
        spin[q][p] \notin {t, NoThread} => spin'[q][p] = spin[q][p]
  BY <1>1 DEF LoopReleased, Goto, StoreDecremented, TypeOK, Call, ThreadInv, LockHeld,
     InsideLock
<1>9. \A f \in Event : f # cur[t] => count'[f] = count[f] /\ life'[f] = life[f]
  BY <1>1 DEF LoopReleased, Goto, StoreDecremented, TypeOK
<1>10. cur[t] \in Event /\ cur[t] # NoEvent
  BY <1>2, PumpAssumption
<1>11. life[cur[t]] # "unborn" /\ life'[cur[t]] # "unborn"
  BY <1>1, <1>10 DEF LoopReleased, Goto, StoreDecremented, TypeOK, ThreadInv,
     RunningUnlinked, PostingOwns, Calling, Posting, Returning
<1>12. InPump(cur[t]) => life'[cur[t]] = "alive" /\ count'[cur[t]] >= 2
  BY <1>1, <1>10 DEF LoopReleased, Goto, StoreDecremented, TypeOK, IInv, LinkedAlive,
     ThreadInv, RunningUnlinked, PostingOwns, ReturningCounts, Calling, Posting,
     Returning
<1>13. \A u \in Thread : u # t /\ Calling(u) /\ out[u].ev = cur[t] =>
         ~Posting(u) /\ ~InPump(cur[t])
  BY <1>1, <1>10 DEF LoopReleased, Goto, StoreDecremented, IInv, ThreadInv,
     RunningUnlinked, PostingOwns, OneCaller, Calling, Posting, Returning
<1> QED
  BY <1>3, <1>4, <1>6, <1>7, <1>8, <1>9, <1>10, <1>11, <1>12, <1>13, SameLists,
     PumpAssumption

(* The returned AutoPtr stores the count plus one. *)
LEMMA ReturnRefStoreIInv ==
  ASSUME IInv, NEW t \in Thread, ReturnRefStore(t)
  PROVE  IInv'
<1>1. TypeOK /\ ThreadInv(t)
  BY DEF IInv
<1>2. /\ out[t].ev \in Event /\ out[t].to \in Thread
      /\ out[t].pri \in Pri /\ out[t].ret \in {"handler", "loop"}
  BY <1>1, PumpAssumption DEF ReturnRefStore, TypeOK, Call, ThreadInv, PostingOwns,
     Calling, Posting, Returning
<1>3. TypeOK'
  <2>1. count' \in [Event -> Nat] /\ life' = life
    <3>1. reg[t] + 1 \in Nat
      BY <1>1 DEF TypeOK
    <3> QED
      BY <1>1, <3>1 DEF ReturnRefStore, StoreIncremented, TypeOK
  <2>2. pc' \in [Thread -> PC]
    BY <1>1, <1>2 DEF ReturnRefStore, Goto, TypeOK, PC
  <2> QED
    BY <1>1, <1>2, <2>1, <2>2 DEF ReturnRefStore, TypeOK
<1>4. OnlyOwn(t)
  BY <1>1 DEF ReturnRefStore, Goto, StoreIncremented, TypeOK, OnlyOwn
<1>5. \A f \in Event : InPump(f)' <=> InPump(f)
  BY DEF ReturnRefStore, InPump, Linked
<1>6. ThreadInv(t)'
  <2>1. LockHeld(t)'
    BY <1>1 DEF ReturnRefStore, Goto, StoreIncremented, TypeOK, Call, ThreadInv,
       LockHeld, InsideLock
  <2>2. RunningUnlinked(t)'
    BY <1>1, <1>5 DEF ReturnRefStore, Goto, StoreIncremented, TypeOK, Call, ThreadInv,
       RunningUnlinked, PostingOwns, Calling, Posting, Returning
  <2>3. PostingOwns(t)'
    BY <1>1, <1>5 DEF ReturnRefStore, Goto, StoreIncremented, TypeOK, Call, ThreadInv,
       PostingOwns, Calling, Posting, Returning
  <2>4. OneCaller(t)'
    BY <1>1, <1>4 DEF ReturnRefStore, Goto, StoreIncremented, TypeOK, Call, ThreadInv,
       OneCaller, OnlyOwn, Calling, Posting, Returning
  <2>5. ReturningCounts(t)'
    BY <1>1, <1>2, <1>5 DEF ReturnRefStore, Goto, StoreIncremented, TypeOK, Call,
       ThreadInv, ReturningCounts, Calling, Posting, Returning
  <2> QED
    BY <2>1, <2>2, <2>3, <2>4, <2>5 DEF ThreadInv
<1>7. /\ root' = root /\ out'[t] = out[t] /\ cur'[t] \in {cur[t], NoEvent}
      /\ Calling(t)' => Calling(t)
  BY <1>1 DEF ReturnRefStore, Goto, StoreIncremented, TypeOK, Calling, Posting,
     Returning
<1>8. \A q \in Thread, p \in Pri :
        spin[q][p] \notin {t, NoThread} => spin'[q][p] = spin[q][p]
  BY <1>1 DEF ReturnRefStore, Goto, StoreIncremented, TypeOK, Call, ThreadInv,
     LockHeld, InsideLock
<1>9. \A f \in Event : f # out[t].ev => count'[f] = count[f] /\ life'[f] = life[f]
  BY <1>1 DEF ReturnRefStore, Goto, StoreIncremented, TypeOK
<1>10. out[t].ev \in Event /\ out[t].ev # NoEvent
  BY <1>2, PumpAssumption
<1>11. life[out[t].ev] # "unborn" /\ life'[out[t].ev] # "unborn"
  BY <1>1, <1>10 DEF ReturnRefStore, Goto, StoreIncremented, TypeOK, ThreadInv,
     RunningUnlinked, PostingOwns, Calling, Posting, Returning
<1>12. InPump(out[t].ev) => life'[out[t].ev] = "alive" /\ count'[out[t].ev] >= 2
  BY <1>1, <1>10 DEF ReturnRefStore, Goto, StoreIncremented, TypeOK, IInv, LinkedAlive,
     ThreadInv, RunningUnlinked, PostingOwns, ReturningCounts, Calling, Posting,
     Returning
<1>13. \A u \in Thread : u # t /\ Calling(u) /\ out[u].ev = out[t].ev =>
         ~Posting(u) /\ ~InPump(out[t].ev)
  BY <1>1, <1>10 DEF ReturnRefStore, Goto, StoreIncremented, IInv, ThreadInv,
     RunningUnlinked, PostingOwns, OneCaller, Calling, Posting, Returning
<1> QED
  BY <1>3, <1>4, <1>6, <1>7, <1>8, <1>9, <1>10, <1>11, <1>12, <1>13, SameLists,
     PumpAssumption

(* The destructor stores the count minus one. *)
LEMMA DropRefStoreIInv ==
  ASSUME IInv, NEW t \in Thread, DropRefStore(t)
  PROVE  IInv'
<1>1. TypeOK /\ ThreadInv(t)
  BY DEF IInv
<1>2. /\ out[t].ev \in Event /\ out[t].to \in Thread
      /\ out[t].pri \in Pri /\ out[t].ret \in {"handler", "loop"}
  BY <1>1, PumpAssumption DEF DropRefStore, TypeOK, Call, ThreadInv, PostingOwns,
     Calling, Posting, Returning
<1>3. TypeOK'
  <2>1. count' \in [Event -> Nat] /\ life' \in [Event -> {"unborn", "alive", "freed"}]
    BY <1>1, <1>2 DEF DropRefStore, StoreDecremented, TypeOK
  <2>2. pc' \in [Thread -> PC]
    BY <1>1, <1>2 DEF DropRefStore, Goto, TypeOK, PC
  <2> QED
    BY <1>1, <1>2, <2>1, <2>2 DEF DropRefStore, TypeOK
<1>4. OnlyOwn(t)
  BY <1>1 DEF DropRefStore, Goto, StoreDecremented, TypeOK, OnlyOwn
<1>5. \A f \in Event : InPump(f)' <=> InPump(f)
  BY DEF DropRefStore, InPump, Linked
<1>6. ThreadInv(t)'
  <2>1. LockHeld(t)'
    BY <1>1 DEF DropRefStore, Goto, StoreDecremented, TypeOK, Call, ThreadInv,
       LockHeld, InsideLock
  <2>2. RunningUnlinked(t)'
    BY <1>1, <1>5 DEF DropRefStore, Goto, StoreDecremented, TypeOK, Call, ThreadInv,
       RunningUnlinked, PostingOwns, Calling, Posting, Returning
  <2>3. PostingOwns(t)'
    BY <1>1, <1>5 DEF DropRefStore, Goto, StoreDecremented, TypeOK, Call, ThreadInv,
       PostingOwns, Calling, Posting, Returning
  <2>4. OneCaller(t)'
    BY <1>1, <1>4 DEF DropRefStore, Goto, StoreDecremented, TypeOK, Call, ThreadInv,
       OneCaller, OnlyOwn, Calling, Posting, Returning
  <2>5. ReturningCounts(t)'
    BY <1>1, <1>2, <1>5 DEF DropRefStore, Goto, StoreDecremented, TypeOK, Call,
       ThreadInv, ReturningCounts, Calling, Posting, Returning
  <2> QED
    BY <2>1, <2>2, <2>3, <2>4, <2>5 DEF ThreadInv
<1>7. /\ root' = root /\ out'[t] = out[t] /\ cur'[t] \in {cur[t], NoEvent}
      /\ Calling(t)' => Calling(t)
  BY <1>1 DEF DropRefStore, Goto, StoreDecremented, TypeOK, Calling, Posting, Returning
<1>8. \A q \in Thread, p \in Pri :
        spin[q][p] \notin {t, NoThread} => spin'[q][p] = spin[q][p]
  BY <1>1 DEF DropRefStore, Goto, StoreDecremented, TypeOK, Call, ThreadInv, LockHeld,
     InsideLock
<1>9. \A f \in Event : f # out[t].ev => count'[f] = count[f] /\ life'[f] = life[f]
  BY <1>1 DEF DropRefStore, Goto, StoreDecremented, TypeOK
<1>10. out[t].ev \in Event /\ out[t].ev # NoEvent
  BY <1>2, PumpAssumption
<1>11. life[out[t].ev] # "unborn" /\ life'[out[t].ev] # "unborn"
  BY <1>1, <1>10 DEF DropRefStore, Goto, StoreDecremented, TypeOK, ThreadInv,
     RunningUnlinked, PostingOwns, Calling, Posting, Returning
<1>12. InPump(out[t].ev) => life'[out[t].ev] = "alive" /\ count'[out[t].ev] >= 2
  BY <1>1, <1>10 DEF DropRefStore, Goto, StoreDecremented, TypeOK, IInv, LinkedAlive,
     ThreadInv, RunningUnlinked, PostingOwns, ReturningCounts, Calling, Posting,
     Returning
<1>13. \A u \in Thread : u # t /\ Calling(u) /\ out[u].ev = out[t].ev =>
         ~Posting(u) /\ ~InPump(out[t].ev)
  BY <1>1, <1>10 DEF DropRefStore, Goto, StoreDecremented, IInv, ThreadInv,
     RunningUnlinked, PostingOwns, OneCaller, Calling, Posting, Returning
<1> QED
  BY <1>3, <1>4, <1>6, <1>7, <1>8, <1>9, <1>10, <1>11, <1>12, <1>13, SameLists,
     PumpAssumption

(* cancelEvents() takes the lock and references the respond event. *)
LEMMA CancelLockIInv ==
  ASSUME IInv, NEW t \in Thread, CancelLock(t)
  PROVE  IInv'
<1>1. TypeOK /\ ThreadInv(t)
  BY DEF IInv
<1>2. /\ out[t].ev \in Event /\ out[t].to \in Thread
      /\ out[t].pri \in Pri /\ out[t].ret \in {"handler", "loop"}
  BY <1>1, PumpAssumption DEF CancelLock, TypeOK, Call, ThreadInv, PostingOwns,
     Calling, Posting, Returning
<1>14. count[out[t].ev] + 1 \in Nat
  BY <1>1, <1>2 DEF TypeOK
<1>3. TypeOK'
  <2>1. spin' \in [Thread -> [Pri -> Thread \cup {NoThread}]]
    BY <1>1, <1>2 DEF CancelLock, Acquire, TypeOK
  <2>2. snap' \in [Thread -> Seq(Event)]
    BY <1>1, <1>2 DEF CancelLock, Acquire, TypeOK
  <2>3. pc' \in [Thread -> PC]
    BY <1>1 DEF CancelLock, Goto, TypeOK, PC
  <2>4. count' \in [Event -> Nat]
    BY <1>1, <1>2, <1>14 DEF CancelLock, TypeOK
  <2> QED
    BY <1>1, <2>1, <2>2, <2>3, <2>4 DEF CancelLock, TypeOK
<1>4. OnlyOwn(t)
  BY <1>1 DEF CancelLock, Goto, Acquire, TypeOK, OnlyOwn
<1>5. \A f \in Event : InPump(f)' <=> InPump(f)
  BY DEF CancelLock, InPump, Linked
<1>6. ThreadInv(t)'
  <2>1. LockHeld(t)'
    BY <1>1 DEF CancelLock, Goto, Acquire, TypeOK, Call, ThreadInv, LockHeld, InsideLock
  <2>2. RunningUnlinked(t)'
    BY <1>1, <1>5 DEF CancelLock, Goto, Acquire, TypeOK, Call, ThreadInv,
       RunningUnlinked, PostingOwns, Calling, Posting, Returning
  <2>3. PostingOwns(t)'
    BY <1>1, <1>5 DEF CancelLock, Goto, Acquire, TypeOK, Call, ThreadInv, PostingOwns,
       Calling, Posting, Returning
  <2>4. OneCaller(t)'
    BY <1>1, <1>4 DEF CancelLock, Goto, Acquire, TypeOK, Call, ThreadInv, OneCaller,
       OnlyOwn, Calling, Posting, Returning
  <2>5. ReturningCounts(t)'
    BY <1>1, <1>2, <1>5 DEF CancelLock, Goto, Acquire, TypeOK, Call, ThreadInv,
       ReturningCounts, Calling, Posting, Returning
  <2> QED
    BY <2>1, <2>2, <2>3, <2>4, <2>5 DEF ThreadInv
<1>7. /\ root' = root /\ out'[t] = out[t] /\ cur'[t] \in {cur[t], NoEvent}
      /\ Calling(t)' => Calling(t)
  BY <1>1 DEF CancelLock, Goto, Acquire, TypeOK, Calling, Posting, Returning
<1>8. \A q \in Thread, p \in Pri :
        spin[q][p] \notin {t, NoThread} => spin'[q][p] = spin[q][p]
  BY <1>1 DEF CancelLock, Goto, Acquire, TypeOK, Call, ThreadInv, LockHeld, InsideLock
<1>9. \A f \in Event : f # out[t].ev => count'[f] = count[f] /\ life'[f] = life[f]
  BY <1>1 DEF CancelLock, Goto, Acquire, TypeOK
<1>10. out[t].ev \in Event /\ out[t].ev # NoEvent
  BY <1>2, PumpAssumption
<1>11. life[out[t].ev] # "unborn" /\ life'[out[t].ev] # "unborn"
  BY <1>1, <1>10 DEF CancelLock, Goto, Acquire, TypeOK, ThreadInv, RunningUnlinked,
     PostingOwns, Calling, Posting, Returning
<1>12. InPump(out[t].ev) => life'[out[t].ev] = "alive" /\ count'[out[t].ev] >= 2
  BY <1>1, <1>10 DEF CancelLock, Goto, Acquire, TypeOK, IInv, LinkedAlive, ThreadInv,
     RunningUnlinked, PostingOwns, ReturningCounts, Calling, Posting, Returning
<1>13. \A u \in Thread : u # t /\ Calling(u) /\ out[u].ev = out[t].ev =>
         ~Posting(u) /\ ~InPump(out[t].ev)
  BY <1>1, <1>10 DEF CancelLock, Goto, Acquire, IInv, ThreadInv, RunningUnlinked,
     PostingOwns, OneCaller, Calling, Posting, Returning
<1> QED
  BY <1>3, <1>4, <1>6, <1>7, <1>8, <1>9, <1>10, <1>11, <1>12, <1>13, SameLists,
     PumpAssumption

(* The store that links an event: push() and cancelEvents(). *)
LEMMA LinkStep ==
  ASSUME IInv, TypeOK', NEW t \in Thread, OnlyOwn(t),
         pc[t] \in {"postLink", "cancelLink"}, pc'[t] \in {"retLoad", out[t].ret},
         NEW e \in Event, NEW q \in Thread, NEW p \in Pri,
         out[t].ev = e, out[t].to = q, out[t].pri = p,
         root' = [root EXCEPT ![q][p] = <<e>> \o root[q][p]],
         spin' = [spin EXCEPT ![q][p] = NoThread],
         UNCHANGED <<count, life, cur, out>>
  PROVE  IInv'
<1>1. /\ TypeOK /\ ThreadInv(t)
      /\ \A u \in Thread : ThreadInv(u)
  BY DEF IInv
<1>2. Posting(t) /\ Calling(t) /\ out[t].ret \in {"handler", "loop"}
  BY <1>1 DEF TypeOK, Call, Calling, Posting
<1>3. /\ life[e] = "alive" /\ count[e] = 2 /\ ~InPump(e)
      /\ \A u \in Thread : cur[u] # e
  BY <1>1, <1>2 DEF ThreadInv, PostingOwns
<1>4. \A u \in Thread : u # t /\ Calling(u) => out[u].ev # e
  BY <1>1, <1>2 DEF ThreadInv, OneCaller
<1>5. /\ spin[q][p] = t
      /\ \A w \in Thread, r \in Pri : ~(w = q /\ r = p) => spin'[w][r] = spin[w][r]
  <2>1. spin[q][p] = t
    BY <1>1 DEF ThreadInv, LockHeld, InsideLock
  <2>2. spin \in [Thread -> [Pri -> Thread \cup {NoThread}]]
    BY <1>1 DEF TypeOK
  <2> QED
    BY <2>1, <2>2
<1>6. root \in [Thread -> [Pri -> Seq(Event)]]
  BY <1>1 DEF TypeOK
<1>7. /\ root'[q][p] = <<e>> \o root[q][p]
      /\ \A w \in Thread, r \in Pri : ~(w = q /\ r = p) => root'[w][r] = root[w][r]
  <2> DEFINE list == <<e>> \o root[q][p]
  <2>1. root' = [root EXCEPT ![q][p] = list]
    OBVIOUS
  <2> HIDE DEF list
  <2>2. root'[q][p] = list
    BY <1>6, <2>1
  <2>3. \A w \in Thread, r \in Pri : ~(w = q /\ r = p) => root'[w][r] = root[w][r]
    BY <1>6, <2>1
  <2> QED
    BY <2>2, <2>3 DEF list
<1>8. /\ Linked(q, p)' = {e} \cup Linked(q, p)
      /\ IsInjective(root[q][p]) /\ e \notin Linked(q, p) => IsInjective(root'[q][p])
  <2>1. root[q][p] \in Seq(Event)
    BY <1>6
  <2> QED
    BY <1>7, <2>1, ConsList DEF Linked
<1>9. \A w \in Thread, r \in Pri : ~(w = q /\ r = p) => Linked(w, r)' = Linked(w, r)
  BY <1>7 DEF Linked
<1>10. \A w \in Thread, r \in Pri : e \notin Linked(w, r)
  BY <1>3 DEF InPump
<1>11. \A f \in Event : InPump(f)' <=> InPump(f) \/ f = e
  <2>1. \A w \in Thread, r \in Pri : Linked(w, r) \subseteq Linked(w, r)'
    BY <1>8, <1>9
  <2>2. \A w \in Thread, r \in Pri : Linked(w, r)' \subseteq {e} \cup Linked(w, r)
    BY <1>8, <1>9
  <2>3. e \in Linked(q, p)'
    BY <1>8
  <2> QED
    BY <2>1, <2>2, <2>3 DEF InPump
<1>12. LinkedAlive'
  BY <1>3, <1>11 DEF IInv, LinkedAlive
<1>13. LinkedOnce'
  <2>1. \A w \in Thread, r \in Pri : IsInjective(root[w][r])
    BY DEF IInv, LinkedOnce
  <2>2. \A w \in Thread, r \in Pri : IsInjective(root'[w][r])
    BY <1>7, <1>8, <1>10, <2>1
  <2>3. ASSUME NEW w \in Thread, NEW r \in Pri, NEW x \in Thread, NEW y \in Pri,
               NEW f \in Linked(w, r)', f \in Linked(x, y)'
        PROVE  w = x /\ r = y
    <3>1. CASE f = e
      BY <1>9, <1>10, <2>3, <3>1
    <3>2. CASE f # e
      <4>1. f \in Linked(w, r) /\ f \in Linked(x, y)
        BY <1>8, <1>9, <2>3, <3>2
      <4> QED
        BY <4>1 DEF IInv, LinkedOnce
    <3> QED
      BY <3>1, <3>2
  <2> QED
    BY <2>2, <2>3 DEF LinkedOnce
<1>14. ASSUME NEW u \in Thread, u # t
       PROVE  ThreadInv(u)'
  <2>1. \A w \in Thread, r \in Pri :
          spin[w][r] = u => spin'[w][r] = u /\ root'[w][r] = root[w][r]
    <3> SUFFICES ASSUME NEW w \in Thread, NEW r \in Pri, spin[w][r] = u
                 PROVE  spin'[w][r] = u /\ root'[w][r] = root[w][r]
      OBVIOUS
    <3>1. ~(w = q /\ r = p)
      BY <1>5, <1>14
    <3> QED
      BY <1>5, <1>7, <3>1
  <2>2. Posting(u) => cur'[t] # out[u].ev
    BY <1>1 DEF ThreadInv, PostingOwns
  <2>3. Calling(u) => out'[t].ev # out[u].ev
    BY <1>4, <1>14
  <2>4. Spares(t, u)
    BY <1>3, <1>4, <1>11, <1>14, <2>1, <2>2, <2>3 DEF Spares
  <2> QED
    BY <1>1, <1>14, <2>4, OtherThread
<1>15. ThreadInv(t)'
  <2>1. pc'[t] \in {"retLoad", "handler", "loop"} /\ ~Posting(t)'
    BY <1>2 DEF Posting
  <2>2. LockHeld(t)' /\ ReturningCounts(t)'
    BY <2>1 DEF LockHeld, ReturningCounts
  <2>3. cur[t] \in Event \cup {NoEvent}
    BY <1>1 DEF TypeOK
  <2>4. RunningUnlinked(t)'
    BY <1>1, <1>2, <1>3, <1>11, <2>1, <2>3, PumpAssumption DEF ThreadInv,
       RunningUnlinked
  <2>5. PostingOwns(t)'
    BY <1>2, <1>3, <2>1 DEF PostingOwns
  <2>6. OneCaller(t)'
    BY <1>4 DEF OneCaller, OnlyOwn, Calling, Posting, Returning
  <2> QED
    BY <2>2, <2>4, <2>5, <2>6 DEF ThreadInv
<1> QED
  BY <1>12, <1>13, <1>14, <1>15 DEF IInv

(* push() links its event. *)
LEMMA PostLinkIInv ==
  ASSUME IInv, NEW t \in Thread, PostLink(t)
  PROVE  IInv'
<1>1. TypeOK /\ ThreadInv(t)
  BY DEF IInv
<1>2. PICK e \in Event, q \in Thread, p \in Pri :
        out[t].ev = e /\ out[t].to = q /\ out[t].pri = p
  BY <1>1 DEF PostLink, TypeOK, Call, ThreadInv, PostingOwns, Calling, Posting
<1>3. snap[t] = root[q][p]
  BY <1>1, <1>2 DEF PostLink, ThreadInv, LockHeld, InsideLock
<1>4. /\ root' = [root EXCEPT ![q][p] = <<e>> \o root[q][p]]
      /\ spin' = [spin EXCEPT ![q][p] = NoThread]
      /\ UNCHANGED <<count, life, cur, out>>
  BY <1>2, <1>3 DEF PostLink, SetRoot, Unlock
<1>5. OnlyOwn(t)
  BY <1>1 DEF PostLink, Goto, TypeOK, OnlyOwn
<1>6. pc[t] \in {"postLink", "cancelLink"} /\ pc'[t] = "retLoad"
  BY <1>1 DEF PostLink, Goto, TypeOK
<1>7. TypeOK'
  <2>1. root' \in [Thread -> [Pri -> Seq(Event)]]
    <3>1. root \in [Thread -> [Pri -> Seq(Event)]] /\ <<e>> \o root[q][p] \in Seq(Event)
      BY <1>1 DEF TypeOK
    <3> QED
      BY <1>4, <3>1
  <2>2. spin' \in [Thread -> [Pri -> Thread \cup {NoThread}]]
    BY <1>1, <1>4 DEF TypeOK
  <2>3. pc' \in [Thread -> PC]
    BY <1>1 DEF PostLink, Goto, TypeOK, PC, Call
  <2> QED
    BY <1>1, <2>1, <2>2, <2>3 DEF PostLink, TypeOK
<1> QED
  BY <1>2, <1>4, <1>5, <1>6, <1>7, LinkStep

(* cancelEvents() links its respond event. *)
LEMMA CancelLinkIInv ==
  ASSUME IInv, NEW t \in Thread, CancelLink(t)
  PROVE  IInv'
<1>1. TypeOK /\ ThreadInv(t)
  BY DEF IInv
<1>2. PICK e \in Event, q \in Thread, p \in Pri :
        out[t].ev = e /\ out[t].to = q /\ out[t].pri = p
  BY <1>1 DEF CancelLink, TypeOK, Call, ThreadInv, PostingOwns, Calling, Posting
<1>3. snap[t] = root[q][p]
  BY <1>1, <1>2 DEF CancelLink, ThreadInv, LockHeld, InsideLock
<1>4. /\ root' = [root EXCEPT ![q][p] = <<e>> \o root[q][p]]
      /\ spin' = [spin EXCEPT ![q][p] = NoThread]
      /\ UNCHANGED <<count, life, cur, out>>
  BY <1>2, <1>3 DEF CancelLink, SetRoot, Unlock
<1>5. OnlyOwn(t)
  BY <1>1 DEF CancelLink, Goto, TypeOK, OnlyOwn
<1>6. pc[t] \in {"postLink", "cancelLink"} /\ pc'[t] = out[t].ret
  BY <1>1 DEF CancelLink, Goto, TypeOK
<1>7. TypeOK'
  <2>1. root' \in [Thread -> [Pri -> Seq(Event)]]
    <3>1. root \in [Thread -> [Pri -> Seq(Event)]] /\ <<e>> \o root[q][p] \in Seq(Event)
      BY <1>1 DEF TypeOK
    <3> QED
      BY <1>4, <3>1
  <2>2. spin' \in [Thread -> [Pri -> Thread \cup {NoThread}]]
    BY <1>1, <1>4 DEF TypeOK
  <2>3. pc' \in [Thread -> PC]
    BY <1>1 DEF CancelLink, Goto, TypeOK, PC, Call
  <2>4. canceled' \in [Event -> BOOLEAN]
    BY <1>1 DEF CancelLink, TypeOK
  <2> QED
    BY <1>1, <2>1, <2>2, <2>3, <2>4 DEF CancelLink, TypeOK
<1> QED
  BY <1>2, <1>4, <1>5, <1>6, <1>7, LinkStep

(* pop() unlinks the head of a list. *)
LEMMA PopUnlinkIInv ==
  ASSUME IInv, NEW t \in Thread, PopUnlink(t)
  PROVE  IInv'
<1> DEFINE p == pri[t]
           rest == Tail(root[t][p])
<1>1. /\ TypeOK /\ ThreadInv(t)
      /\ \A u \in Thread : ThreadInv(u)
  BY DEF IInv
<1>2. /\ p \in Pri /\ root[t][p] \in Seq(Event)
      /\ snap[t] = root[t][p] /\ snap[t] # <<>> /\ spin[t][p] = t
  BY <1>1 DEF PopUnlink, TypeOK, ThreadInv, LockHeld, InsideLock
<1>3. PICK h \in Event :
        /\ h = Head(root[t][p]) /\ h \in Linked(t, p) /\ rest \in Seq(Event)
        /\ Range(rest) \subseteq Linked(t, p)
        /\ IsInjective(root[t][p]) => IsInjective(rest) /\ h \notin Range(rest)
  <2> HIDE DEF p
  <2> QED
    BY <1>2, TailList DEF Linked
<1>4. /\ root'[t][p] = rest /\ cur'[t] = h
      /\ \A w \in Thread, r \in Pri : ~(w = t /\ r = p) => root'[w][r] = root[w][r]
  BY <1>1, <1>2, <1>3 DEF PopUnlink, SetRoot, TypeOK
<1>5. /\ pc'[t] = "popStore" /\ reg'[t] \in Nat
      /\ UNCHANGED <<spin, count, life, canceled, raised, runs, pri, snap, out>>
  BY <1>1, <1>2, <1>3 DEF PopUnlink, Goto, Load, TypeOK
<1>6. OnlyOwn(t)
  BY <1>1 DEF PopUnlink, Goto, Load, TypeOK, OnlyOwn
<1> HIDE DEF rest
<1>7. TypeOK'
  <2>1. root' = [root EXCEPT ![t][p] = rest] /\ cur' = [cur EXCEPT ![t] = h]
    BY <1>2, <1>3 DEF PopUnlink, SetRoot, rest
  <2>2. root' \in [Thread -> [Pri -> Seq(Event)]]
    BY <1>1, <1>2, <1>3, <2>1 DEF TypeOK
  <2>3. cur' \in [Thread -> Event \cup {NoEvent}]
    BY <1>1, <1>3, <2>1 DEF TypeOK
  <2>4. reg' \in [Thread -> Nat]
    BY <1>1, <1>5 DEF PopUnlink, Load, TypeOK
  <2>5. pc' \in [Thread -> PC]
    BY <1>1 DEF PopUnlink, Goto, TypeOK, PC
  <2> QED
    BY <1>1, <1>5, <2>2, <2>3, <2>4, <2>5 DEF TypeOK
<1>8. IsInjective(root[t][p])
  BY <1>2 DEF IInv, LinkedOnce
<1>9. \A w \in Thread, r \in Pri :
        /\ Linked(w, r)' \subseteq Linked(w, r)
        /\ h \notin Linked(w, r)'
  <2>1. \A w \in Thread, r \in Pri : ~(w = t /\ r = p) => h \notin Linked(w, r)
    BY <1>2, <1>3 DEF IInv, LinkedOnce
  <2> QED
    BY <1>3, <1>4, <1>8, <2>1 DEF Linked
<1>10. InPump(h) /\ ~InPump(h)'
  BY <1>2, <1>3, <1>9 DEF InPump
<1>11. \A f \in Event : InPump(f)' => InPump(f)
  BY <1>9 DEF InPump
<1>12. LinkedAlive'
  BY <1>5, <1>11 DEF IInv, LinkedAlive
<1>13. LinkedOnce'
  <2>1. \A w \in Thread, r \in Pri : IsInjective(root'[w][r])
    BY <1>3, <1>4, <1>8 DEF IInv, LinkedOnce
  <2>2. \A w \in Thread, r \in Pri, x \in Thread, y \in Pri :
          Linked(w, r)' \cap Linked(x, y)' # {} => w = x /\ r = y
    BY <1>9 DEF IInv, LinkedOnce
  <2> QED
    BY <2>1, <2>2 DEF LinkedOnce
<1>14. \A u \in Thread : Posting(u) => h # out[u].ev
  BY <1>1, <1>10 DEF ThreadInv, PostingOwns
<1>15. ~Calling(t)'
  BY <1>5 DEF Calling, Posting, Returning
<1>16. ASSUME NEW u \in Thread, u # t
       PROVE  ThreadInv(u)'
  <2>1. \A w \in Thread, r \in Pri : spin[w][r] = u => root'[w][r] = root[w][r]
    BY <1>2, <1>4, <1>16
  <2>2. Spares(t, u)
    BY <1>4, <1>5, <1>11, <1>14, <1>15, <2>1 DEF Spares
  <2> QED
    BY <1>1, <1>6, <1>16, <2>2, OtherThread
<1>17. ThreadInv(t)'
  <2>1. LockHeld(t)'
    BY <1>2, <1>5 DEF LockHeld, InsideLock
  <2>2. life[h] # "unborn"
    BY <1>3, <1>10 DEF IInv, LinkedAlive
  <2>3. RunningUnlinked(t)'
    BY <1>3, <1>4, <1>5, <1>10, <2>2 DEF RunningUnlinked
  <2> QED
    BY <1>15, <2>1, <2>3 DEF ThreadInv, PostingOwns, OneCaller, ReturningCounts, Calling
<1> QED
  BY <1>7, <1>12, <1>13, <1>16, <1>17 DEF IInv

(* The creation of the event that a call is about to link. *)
LEMMA BirthStep ==
  ASSUME IInv, TypeOK', NEW t \in Thread, NEW e \in Event, OnlyOwn(t),
         life[e] = "unborn", life' = [life EXCEPT ![e] = "alive"],
         \A f \in Event : f # e => count'[f] = count[f],
         pc'[t] \in {"postLock", "cancelLock"},
         count'[e] = IF pc'[t] = "cancelLock" THEN 1 ELSE 2,
         MayCall(t), out'[t].ev = e, out'[t].ret = pc[t],
         UNCHANGED <<root, spin, cur>>
  PROVE  IInv'
<1>1. /\ TypeOK /\ ThreadInv(t)
      /\ \A u \in Thread : ThreadInv(u)
  BY DEF IInv
<1>2. \A f \in Event : f # e => life'[f] = life[f]
  BY <1>1 DEF TypeOK
<1>3. life'[e] = "alive"
  BY <1>1 DEF TypeOK
<1>4. /\ \A f \in Event : InPump(f)' <=> InPump(f)
      /\ ~InPump(e)
  BY DEF IInv, LinkedAlive, InPump, Linked
<1>5. \A u \in Thread : Calling(u) => out[u].ev \in Event /\ out[u].ev # e
  BY <1>1 DEF ThreadInv, PostingOwns
<1>6. \A u \in Thread : cur[u] # e
  BY <1>1, PumpAssumption DEF ThreadInv, RunningUnlinked
<1>7. LinkedAlive'
  BY <1>2, <1>4 DEF IInv, LinkedAlive
<1>8. LinkedOnce'
  BY DEF IInv, LinkedOnce, Linked
<1>9. ASSUME NEW u \in Thread, u # t
      PROVE  ThreadInv(u)'
  <2>1. Posting(u) => Calling(u) /\ cur[t] # out[u].ev
    BY <1>1 DEF ThreadInv, PostingOwns, Calling
  <2>2. Spares(t, u)
    BY <1>2, <1>3, <1>4, <1>5, <2>1 DEF Spares
  <2> QED
    BY <1>1, <1>9, <2>2, OtherThread
<1>10. Posting(t)' /\ Calling(t)' /\ ~Returning(t)'
  BY DEF Posting, Calling, Returning
<1>11. ThreadInv(t)'
  <2>1. LockHeld(t)' /\ ReturningCounts(t)'
    BY <1>10 DEF LockHeld, ReturningCounts
  <2>2. RunningUnlinked(t)'
    <3>1. pc[t] = "handler" => cur[t] \in Event
      BY <1>1 DEF ThreadInv, RunningUnlinked
    <3>2. cur[t] # NoEvent =>
            cur[t] \in Event /\ ~InPump(cur[t]) /\ life[cur[t]] # "unborn"
      BY <1>1 DEF TypeOK, ThreadInv, RunningUnlinked
    <3>3. cur[t] # NoEvent => ~InPump(cur[t])' /\ life'[cur[t]] # "unborn"
      BY <1>2, <1>4, <1>6, <3>2
    <3> QED
      BY <3>1, <3>3 DEF RunningUnlinked
  <2>3. PostingOwns(t)'
    BY <1>3, <1>4, <1>6 DEF PostingOwns
  <2>4. OneCaller(t)'
    BY <1>5 DEF OneCaller, OnlyOwn, Calling, Posting, Returning
  <2> QED
    BY <2>1, <2>2, <2>3, <2>4 DEF ThreadInv
<1> QED
  BY <1>7, <1>8, <1>9, <1>11 DEF IInv

(* PostEvent() creates an event. *)
LEMMA PostBeginIInv ==
  ASSUME IInv, NEW t \in Thread, NEW q \in Thread, NEW e \in Event, PostBegin(t, q, e)
  PROVE  IInv'
<1>1. TypeOK /\ pc[t] \in {"handler", "loop"} /\ EVENT_PRI_NORMAL \in Pri
  BY PumpAssumption DEF IInv, PostBegin, BeginCall, MayCall, Pri, EVENT_PRI_NORMAL
<1>2. out'[t] = [ev |-> e, to |-> q, pri |-> EVENT_PRI_NORMAL, ret |-> pc[t]]
  BY <1>1 DEF PostBegin, BeginCall, TypeOK
<1>3. out' \in [Thread -> Call]
  BY <1>1 DEF PostBegin, BeginCall, TypeOK, Call
<1>4. TypeOK'
  BY <1>1, <1>3 DEF PostBegin, BeginCall, Goto, TypeOK, PC
<1>5. OnlyOwn(t)
  BY <1>1 DEF PostBegin, BeginCall, Goto, TypeOK, OnlyOwn
<1>6. /\ pc'[t] = "postLock" /\ count'[e] = 2
      /\ \A f \in Event : f # e => count'[f] = count[f]
  BY <1>1 DEF PostBegin, BeginCall, Goto, TypeOK
<1>7. out'[t].ev = e /\ out'[t].ret = pc[t]
  BY <1>2
<1>8. /\ MayCall(t) /\ life[e] = "unborn" /\ life' = [life EXCEPT ![e] = "alive"]
      /\ UNCHANGED <<root, spin, cur>>
  BY DEF PostBegin, BeginCall
<1> QED
  BY <1>4, <1>5, <1>6, <1>7, <1>8, BirthStep

(* A caller of cancelEvents() creates the respond event. *)
LEMMA CancelBeginIInv ==
  ASSUME IInv, NEW t \in Thread, NEW q \in Thread, NEW e \in Event, NEW p \in Pri,
         CancelBegin(t, q, e, p)
  PROVE  IInv'
<1>1. TypeOK /\ pc[t] \in {"handler", "loop"}
  BY DEF IInv, CancelBegin, BeginCall, MayCall
<1>2. out'[t] = [ev |-> e, to |-> q, pri |-> p, ret |-> pc[t]]
  BY <1>1 DEF CancelBegin, BeginCall, TypeOK
<1>3. out' \in [Thread -> Call]
  BY <1>1 DEF CancelBegin, BeginCall, TypeOK, Call
<1>4. TypeOK'
  BY <1>1, <1>3 DEF CancelBegin, BeginCall, Goto, TypeOK, PC
<1>5. OnlyOwn(t)
  BY <1>1 DEF CancelBegin, BeginCall, Goto, TypeOK, OnlyOwn
<1>6. /\ pc'[t] = "cancelLock" /\ count'[e] = 1
      /\ \A f \in Event : f # e => count'[f] = count[f]
  BY <1>1 DEF CancelBegin, BeginCall, Goto, TypeOK
<1>7. out'[t].ev = e /\ out'[t].ret = pc[t]
  BY <1>2
<1>8. /\ MayCall(t) /\ life[e] = "unborn" /\ life' = [life EXCEPT ![e] = "alive"]
      /\ UNCHANGED <<root, spin, cur>>
  BY DEF CancelBegin, BeginCall
<1> QED
  BY <1>4, <1>5, <1>6, <1>7, <1>8, BirthStep

-----------------------------------------------------------------------------
(* Raising a thread's cancel flag, and stuttering, touch nothing of IInv. *)
LEMMA FlagIInv ==
  ASSUME IInv, raised' \in [Thread -> BOOLEAN],
         UNCHANGED <<root, spin, count, life, canceled, runs, threadVars>>
  PROVE  IInv'
<1>1. TypeOK'
  BY DEF IInv, TypeOK, threadVars
<1>2. \A f \in Event : InPump(f)' <=> InPump(f)
  BY DEF InPump, Linked
<1>3. LinkedAlive' /\ LinkedOnce'
  <2>1. LinkedAlive'
    BY <1>2 DEF IInv, LinkedAlive
  <2>2. LinkedOnce'
    BY DEF IInv, LinkedOnce, Linked
  <2> QED
    BY <2>1, <2>2
<1>4. ASSUME NEW t \in Thread
      PROVE  ThreadInv(t)'
  <2>1. TypeOK /\ ThreadInv(t) /\ cur[t] \in Event \cup {NoEvent}
    BY DEF IInv, TypeOK
  <2>2. \A u \in Thread :
          /\ Posting(u)' <=> Posting(u)
          /\ Returning(u)' <=> Returning(u)
          /\ Calling(u)' <=> Calling(u)
    BY DEF Posting, Returning, Calling, threadVars
  <2>3. LockHeld(t)'
    BY <2>1 DEF ThreadInv, LockHeld, InsideLock, threadVars
  <2>4. RunningUnlinked(t)'
    BY <1>2, <2>1, <2>2, PumpAssumption DEF ThreadInv, RunningUnlinked, threadVars
  <2>5. PostingOwns(t)'
    BY <1>2, <2>1, <2>2 DEF ThreadInv, PostingOwns, Calling, threadVars
  <2>6. OneCaller(t)'
    BY <2>1, <2>2 DEF ThreadInv, OneCaller, threadVars
  <2>7. ReturningCounts(t)'
    BY <1>2, <2>1, <2>2 DEF ThreadInv, ReturningCounts, PostingOwns, Calling, threadVars
  <2> QED
    BY <2>3, <2>4, <2>5, <2>6, <2>7 DEF ThreadInv
<1> QED
  BY <1>1, <1>3, <1>4 DEF IInv

(* Every step of every thread preserves the invariant, one case per action. *)
THEOREM NextIInv == IInv /\ [Next]_vars => IInv'
<1> SUFFICES ASSUME IInv, [Next]_vars PROVE IInv'
  OBVIOUS
<1>1. ASSUME NEW t \in Thread, Step(t)
      PROVE  IInv'
  BY <1>1, PopLockIInv, PopEmptyIInv, PopUnlinkIInv, PopReleaseIInv, RunEventIInv,
     LoopReleaseIInv, LoopReleasedIInv, LoopBackIInv, LoopExitIInv, PostLockIInv,
     PostLinkIInv, ReturnRefIInv, ReturnRefStoreIInv, DropRefIInv, DropRefStoreIInv,
     CancelLockIInv, CancelLinkIInv DEF Step
<1>2. ASSUME NEW t \in Thread, Request(t)
      PROVE  IInv'
  BY <1>2, PostBeginIInv, CancelBeginIInv DEF Request
<1>3. ASSUME NEW t \in Thread, RaiseCancel(t)
      PROVE  IInv'
  <2>1. raised' \in [Thread -> BOOLEAN]
    BY <1>3 DEF IInv, TypeOK, RaiseCancel
  <2> QED
    BY <1>3, <2>1, FlagIInv DEF RaiseCancel
<1>4. CASE UNCHANGED vars
  <2>1. raised' \in [Thread -> BOOLEAN]
    BY <1>4 DEF IInv, TypeOK, vars
  <2> QED
    BY <1>4, <2>1, FlagIInv DEF vars
<1> QED
  BY <1>1, <1>2, <1>3, <1>4 DEF Next, Terminated

(* The inductive invariant holds in every reachable state. *)
THEOREM SpecIInv == Spec => []IInv
BY InitIInv, NextIInv, PTL DEF Spec

(* Every variable keeps its type, for any number of threads, events and    *)
(* priorities.                                                             *)
THEOREM SpecTypeOK == Spec => []TypeOK
<1>1. IInv => TypeOK
  BY DEF IInv
<1> QED
  BY <1>1, SpecIInv, PTL

(* No event is deleted while it waits in a pump: the unlocked counting of  *)
(* ref() and release() cannot take away the reference that push() took     *)
(* before the event was linked.                                            *)
THEOREM SpecLinkedAlive == Spec => []LinkedAlive
<1>1. IInv => LinkedAlive
  BY DEF IInv
<1> QED
  BY <1>1, SpecIInv, PTL

(* The lists that push(), pop() and cancelEvents() rewrite under the spin  *)
(* locks never share an event, nor hold one twice.                         *)
THEOREM SpecLinkedOnce == Spec => []LinkedOnce
<1>1. IInv => LinkedOnce
  BY DEF IInv
<1> QED
  BY <1>1, SpecIInv, PTL

-----------------------------------------------------------------------------
(* The pump implements EventDelivery. An event is run while it is pending  *)
(* and stops being pending then; that it is run only once needs that an    *)
(* event which has been run is not one that somebody may still link.       *)
RanLinked ==
  \A e \in Event :
    runs[e] > 0 => /\ life[e] # "unborn"
                   /\ \A t \in Thread : Posting(t) => out[t].ev # e

Popped(t) == pc[t] \in {"popStore", "run"}

(* What waits for a thread: its lists and the event it has just popped. *)
LEMMA PendingMembers ==
  /\ \A u \in Thread : \A e : e \in pending[u] <=>
       (\E p \in Pri : e \in Linked(u, p)) \/ (Popped(u) /\ e = cur[u])
  /\ \A u \in Thread : \A e : e \in pending'[u] <=>
       (\E p \in Pri : e \in Linked(u, p)') \/ (Popped(u)' /\ e = cur'[u])
BY DEF pending, Popped

(* Pending sets are equal when their members are. *)
LEMMA PendingIs ==
  ASSUME NEW f \in [Thread -> SUBSET Event],
         \A u \in Thread : \A e : e \in pending'[u] <=> e \in f[u]
  PROVE  pending' = f
<1>1. pending' = [u \in Thread |-> pending'[u]]
  BY DEF pending
<1>2. \A u \in Thread : pending'[u] = f[u]
  OBVIOUS
<1> QED
  BY <1>1, <1>2

LEMMA PendingType ==
  ASSUME IInv
  PROVE  pending \in [Thread -> SUBSET Event]
<1>1. ASSUME NEW u \in Thread, NEW e, e \in pending[u]
      PROVE  e \in Event
  <2>1. CASE \E p \in Pri : e \in Linked(u, p)
    <3>1. PICK p \in Pri : e \in Linked(u, p)
      BY <2>1
    <3>2. root[u][p] \in Seq(Event)
      BY DEF IInv, TypeOK
    <3> QED
      BY <3>1, <3>2 DEF Linked, Range
  <2>2. CASE Popped(u) /\ e = cur[u]
    BY <2>2 DEF Popped, IInv, ThreadInv, RunningUnlinked
  <2> QED
    BY <1>1, <2>1, <2>2, PendingMembers
<1>2. pending = [u \in Thread |-> pending[u]]
  BY DEF pending
<1> QED
  BY <1>1, <1>2

(* A step that moves no event and runs none is a stutter of EventDelivery. *)
LEMMA QuietStep ==
  ASSUME IInv, NEW t \in Thread, OnlyOwn(t), UNCHANGED <<root, runs>>,
         Popped(t)' <=> Popped(t), Popped(t) => cur'[t] = cur[t]
  PROVE  UNCHANGED Delivery!vars
<1>1. \A u \in Thread : \A e : e \in pending'[u] <=> e \in pending[u]
  BY PendingMembers DEF Linked, OnlyOwn, Popped
<1>2. pending' = pending
  BY <1>1, PendingType, PendingIs
<1> QED
  BY <1>2 DEF Delivery!vars

(* The store that links an event posts it: it waits nowhere yet and has    *)
(* never been run.                                                         *)
LEMMA LinkPosts ==
  ASSUME IInv, RanLinked, NEW t \in Thread, NEW e \in Event, NEW q \in Thread, NEW p \in Pri,
         out[t].ev = e, pc[t] \in {"postLink", "cancelLink"}, OnlyOwn(t),
         root' = [root EXCEPT ![q][p] = <<e>> \o root[q][p]],
         UNCHANGED <<runs, cur>>, ~Popped(t)'
  PROVE  Delivery!Post(q, e)
<1>1. TypeOK /\ ThreadInv(t) /\ Posting(t)
  BY DEF IInv, Posting
<1>2. runs[e] = 0
  <2>1. runs[e] \in Nat /\ ~(runs[e] > 0)
    BY <1>1 DEF RanLinked, TypeOK
  <2> QED
    BY <2>1
<1>3. \A u \in Thread : e \notin pending[u]
  BY <1>1, PendingMembers DEF ThreadInv, PostingOwns, InPump
<1>4. ~Delivery!Posted(e)
  BY <1>2, <1>3 DEF Delivery!Posted
<1>5. Linked(q, p)' = {e} \cup Linked(q, p)
  <2>1. root[q][p] \in Seq(Event) /\ root'[q][p] = <<e>> \o root[q][p]
    BY <1>1 DEF TypeOK
  <2> QED
    BY <2>1, ConsList DEF Linked
<1>6. \A w \in Thread, r \in Pri : ~(w = q /\ r = p) => Linked(w, r)' = Linked(w, r)
  BY <1>1 DEF TypeOK, Linked
<1>7. \A u \in Thread : (Popped(u)' <=> Popped(u)) 
  BY DEF OnlyOwn, Popped
<1>8. \A u \in Thread : \A f : f \in pending'[u] <=>
        f \in [pending EXCEPT ![q] = @ \cup {e}][u]
  <2>1. ASSUME NEW u \in Thread, NEW f
        PROVE  f \in pending'[u] <=> f \in pending[u] \/ (u = q /\ f = e)
    BY <1>5, <1>6, <1>7, PendingMembers
  <2> QED
    BY <2>1, PendingType
<1>9. [pending EXCEPT ![q] = @ \cup {e}] \in [Thread -> SUBSET Event]
  BY PendingType
<1>10. pending' = [pending EXCEPT ![q] = @ \cup {e}]
  BY <1>8, <1>9, PendingIs
<1> QED
  BY <1>4, <1>10 DEF Delivery!Post

(* pop() takes an event out of its list, not away from its thread. *)
LEMMA UnlinkKeeps ==
  ASSUME IInv, NEW t \in Thread, PopUnlink(t)
  PROVE  UNCHANGED Delivery!vars
<1>1. TypeOK /\ ThreadInv(t)
  BY DEF IInv
<1> PICK p \in Pri : p = pri[t]
  BY <1>1 DEF TypeOK
<1>2. /\ root[t][p] \in Seq(Event) /\ root[t][p] # <<>>
      /\ snap[t] = root[t][p] /\ ~Popped(t)
  BY <1>1 DEF PopUnlink, TypeOK, ThreadInv, LockHeld, InsideLock, Popped
<1>3. /\ root' = [root EXCEPT ![t][p] = Tail(root[t][p])]
      /\ cur' = [cur EXCEPT ![t] = Head(root[t][p])]
      /\ pc' = [pc EXCEPT ![t] = "popStore"] /\ UNCHANGED runs
  BY <1>2 DEF PopUnlink, SetRoot, Goto
<1>4. Linked(t, p) = {Head(root[t][p])} \cup Range(Tail(root[t][p]))
  BY <1>2, TailList DEF Linked
<1>5. Linked(t, p)' = Range(Tail(root[t][p]))
  <2>1. root'[t][p] = Tail(root[t][p])
    BY <1>1, <1>2, <1>3 DEF TypeOK
  <2> QED
    BY <2>1 DEF Linked
<1>6. \A w \in Thread, r \in Pri : ~(w = t /\ r = p) => Linked(w, r)' = Linked(w, r)
  BY <1>1, <1>2, <1>3 DEF TypeOK, Linked
<1>7. /\ Popped(t)' /\ cur'[t] = Head(root[t][p])
      /\ \A u \in Thread \ {t} : (Popped(u)' <=> Popped(u)) /\ cur'[u] = cur[u]
  BY <1>1, <1>3 DEF TypeOK, Popped
<1>8. ASSUME NEW u \in Thread, NEW e
      PROVE  e \in pending'[u] <=> e \in pending[u]
  <2>1. CASE u = t
    <3>1. e \in pending[t] <=> \E r \in Pri : e \in Linked(t, r)
      BY <1>2, PendingMembers
    <3>2. e \in pending'[t] <=> (\E r \in Pri : e \in Linked(t, r)') \/ e = Head(root[t][p])
      BY <1>7, PendingMembers
    <3>3. \A r \in Pri : r # p => Linked(t, r)' = Linked(t, r)
      BY <1>6
    <3>4. (\E r \in Pri : e \in Linked(t, r)) <=>
            e \in Linked(t, p) \/ \E r \in Pri : r # p /\ e \in Linked(t, r)
      BY <1>2
    <3>5. (\E r \in Pri : e \in Linked(t, r)') <=>
            e \in Linked(t, p)' \/ \E r \in Pri : r # p /\ e \in Linked(t, r)
      BY <1>2, <3>3
    <3> QED
      BY <1>4, <1>5, <2>1, <3>1, <3>2, <3>4, <3>5
  <2>2. CASE u # t
    BY <1>6, <1>7, <2>2, PendingMembers
  <2> QED
    BY <2>1, <2>2
<1>9. pending' = pending
  BY <1>8, PendingType, PendingIs
<1> QED
  BY <1>3, <1>9 DEF Delivery!vars

(* The call of run() is the one that EventDelivery speaks of. *)
LEMMA RunRuns ==
  ASSUME IInv, NEW t \in Thread, RunEvent(t)
  PROVE  cur[t] \in Event /\ Delivery!Run(t, cur[t])
<1>1. TypeOK /\ ThreadInv(t)
  BY DEF IInv
<1>2. cur[t] \in Event /\ Popped(t) /\ ~InPump(cur[t])
  BY <1>1, PumpAssumption DEF RunEvent, ThreadInv, RunningUnlinked, Popped
<1>3. /\ ~Popped(t)'
      /\ \A u \in Thread \ {t} : Popped(u)' <=> Popped(u)
      /\ UNCHANGED <<root, cur>> /\ runs' = [runs EXCEPT ![cur[t]] = @ + 1]
  BY <1>1 DEF RunEvent, Goto, TypeOK, Popped
<1>4. \A u \in Thread, r \in Pri : Linked(u, r)' = Linked(u, r)
  BY <1>3 DEF Linked
<1>5. cur[t] \in pending[t] /\ \A r \in Pri : cur[t] \notin Linked(t, r)
  BY <1>2, PendingMembers DEF InPump
<1>6. \A u \in Thread : \A f : f \in pending'[u] <=>
        f \in [pending EXCEPT ![t] = @ \ {cur[t]}][u]
  <2>1. ASSUME NEW u \in Thread, NEW f
        PROVE  f \in pending'[u] <=> f \in pending[u] /\ ~(u = t /\ f = cur[t])
    <3>1. CASE u = t
      BY <1>2, <1>3, <1>4, <1>5, <3>1, PendingMembers
    <3>2. CASE u # t
      BY <1>3, <1>4, <3>2, PendingMembers
    <3> QED
      BY <3>1, <3>2
  <2> QED
    BY <2>1, PendingType
<1>7. pending' = [pending EXCEPT ![t] = @ \ {cur[t]}]
  <2>1. [pending EXCEPT ![t] = @ \ {cur[t]}] \in [Thread -> SUBSET Event]
    BY PendingType
  <2> QED
    BY <1>6, <2>1, PendingIs
<1> QED
  BY <1>2, <1>3, <1>5, <1>7 DEF Delivery!Run

(* What a step does to the events that wait and to what has been run. *)
LEMMA StepDelivers ==
  ASSUME IInv, RanLinked, NEW t \in Thread, Step(t)
  PROVE  [Delivery!Next]_Delivery!vars
<1>1. TypeOK /\ ThreadInv(t)
  BY DEF IInv
<1>2. CASE PopLock(t)
  <2>1. OnlyOwn(t) /\ (Popped(t)' <=> Popped(t)) /\ UNCHANGED <<root, runs, cur>>
    BY <1>1, <1>2 DEF PopLock, Goto, Acquire, TypeOK, OnlyOwn, Popped
  <2> QED
    BY <2>1, QuietStep
<1>3. CASE PopEmpty(t)
  <2>1. OnlyOwn(t) /\ (Popped(t)' <=> Popped(t)) /\ UNCHANGED <<root, runs, cur>>
    BY <1>1, <1>3 DEF PopEmpty, Goto, TypeOK, OnlyOwn, Popped
  <2> QED
    BY <2>1, QuietStep
<1>4. CASE PopUnlink(t)
  BY <1>4, UnlinkKeeps
<1>5. CASE PopRelease(t)
  <2>1. OnlyOwn(t) /\ (Popped(t)' <=> Popped(t)) /\ UNCHANGED <<root, runs, cur>>
    BY <1>1, <1>5 DEF PopRelease, Goto, TypeOK, OnlyOwn, Popped
  <2> QED
    BY <2>1, QuietStep
<1>6. CASE RunEvent(t)
  BY <1>6, RunRuns DEF Delivery!Next
<1>7. CASE LoopRelease(t) \/ LoopBack(t) \/ LoopExit(t) \/ ReturnRef(t) \/ DropRef(t)
  <2>1. OnlyOwn(t) /\ (Popped(t)' <=> Popped(t)) /\ UNCHANGED <<root, runs, cur>>
    BY <1>1, <1>7 DEF LoopRelease, LoopBack, LoopExit, ReturnRef, DropRef, Load, Goto,
       TypeOK, OnlyOwn, Popped
  <2> QED
    BY <2>1, QuietStep
<1>8. CASE LoopReleased(t)
  <2>1. OnlyOwn(t) /\ ~Popped(t)' /\ ~Popped(t) /\ UNCHANGED <<root, runs>>
    BY <1>1, <1>8 DEF LoopReleased, Goto, TypeOK, OnlyOwn, Popped
  <2> QED
    BY <2>1, QuietStep
<1>9. CASE PostLock(t) \/ CancelLock(t)
  <2>1. OnlyOwn(t) /\ (Popped(t)' <=> Popped(t)) /\ UNCHANGED <<root, runs, cur>>
    BY <1>1, <1>9 DEF PostLock, CancelLock, Acquire, Goto, TypeOK, OnlyOwn, Popped
  <2> QED
    BY <2>1, QuietStep
<1>10. CASE ReturnRefStore(t) \/ DropRefStore(t)
  <2>1. out[t].ret \in {"handler", "loop"}
    BY <1>1 DEF TypeOK, Call
  <2>2. OnlyOwn(t) /\ (Popped(t)' <=> Popped(t)) /\ UNCHANGED <<root, runs, cur>>
    BY <1>1, <1>10, <2>1 DEF ReturnRefStore, DropRefStore, Goto, TypeOK, OnlyOwn, Popped
  <2> QED
    BY <2>2, QuietStep
<1>11. CASE PostLink(t) \/ CancelLink(t)
  <2>1. PICK e \in Event, q \in Thread, p \in Pri :
          out[t].ev = e /\ out[t].to = q /\ out[t].pri = p
    BY <1>1, <1>11 DEF PostLink, CancelLink, TypeOK, Call, ThreadInv, PostingOwns,
       Calling, Posting
  <2>2. snap[t] = root[q][p] /\ out[t].ret \in {"handler", "loop"}
    BY <1>1, <1>11, <2>1 DEF PostLink, CancelLink, ThreadInv, LockHeld, InsideLock,
       TypeOK, Call
  <2>3. root' = [root EXCEPT ![q][p] = <<e>> \o root[q][p]]
    BY <1>11, <2>1, <2>2 DEF PostLink, CancelLink, SetRoot
  <2>4. /\ OnlyOwn(t) /\ pc[t] \in {"postLink", "cancelLink"} /\ ~Popped(t)'
        /\ UNCHANGED <<runs, cur>>
    BY <1>1, <1>11, <2>2 DEF PostLink, CancelLink, Goto, TypeOK, OnlyOwn, Popped
  <2>5. Delivery!Post(q, e)
    BY <2>1, <2>3, <2>4, LinkPosts
  <2> QED
    BY <2>5 DEF Delivery!Next
<1> QED
  BY <1>2, <1>3, <1>4, <1>5, <1>6, <1>7, <1>8, <1>9, <1>10, <1>11 DEF Step

(* No call links an event that has been run: calls create their events. *)
LEMMA StepRanLinked ==
  ASSUME IInv, RanLinked, NEW t \in Thread, Step(t)
  PROVE  RanLinked'
<1>1. TypeOK /\ ThreadInv(t) /\ \A u \in Thread : ThreadInv(u)
  BY DEF IInv
<1>2. \A e \in Event : life[e] # "unborn" => life'[e] # "unborn"
  BY <1>1 DEF Step, PopLock, PopEmpty, PopUnlink, PopRelease, RunEvent, LoopRelease,
     LoopReleased, LoopBack, LoopExit, PostLock, PostLink, ReturnRef, ReturnRefStore,
     DropRef, DropRefStore, CancelLock, CancelLink, StoreDecremented,
     StoreIncremented, TypeOK
<1>3. out' = out
  BY DEF Step, PopLock, PopEmpty, PopUnlink, PopRelease, RunEvent, LoopRelease,
     LoopReleased, LoopBack, LoopExit, PostLock, PostLink, ReturnRef, ReturnRefStore,
     DropRef, DropRefStore, CancelLock, CancelLink
<1>4. \A u \in Thread : Posting(u)' => Posting(u)
  <2>1. out[t].ret \in {"handler", "loop"} /\ pc \in [Thread -> PC]
    BY <1>1 DEF TypeOK, Call
  <2> QED
    BY <2>1 DEF Step, PopLock, PopEmpty, PopUnlink, PopRelease, RunEvent,
       LoopRelease, LoopReleased, LoopBack, LoopExit, PostLock, PostLink, ReturnRef,
       ReturnRefStore, DropRef, DropRefStore, CancelLock, CancelLink, Goto, Posting
<1>5. CASE RunEvent(t)
  <2>1. cur[t] \in Event /\ life[cur[t]] # "unborn"
    BY <1>1, <1>5, PumpAssumption DEF RunEvent, ThreadInv, RunningUnlinked
  <2>2. \A u \in Thread : Posting(u) => out[u].ev # cur[t]
    BY <1>1 DEF ThreadInv, PostingOwns
  <2>3. \A e \in Event : e # cur[t] => runs'[e] = runs[e]
    BY <1>1, <1>5 DEF RunEvent, TypeOK
  <2> QED
    BY <1>2, <1>3, <1>4, <2>1, <2>2, <2>3 DEF RanLinked
<1>6. CASE ~RunEvent(t)
  <2>1. runs' = runs
    BY <1>6 DEF Step, PopLock, PopEmpty, PopUnlink, PopRelease, LoopRelease,
       LoopReleased, LoopBack, LoopExit, PostLock, PostLink, ReturnRef, ReturnRefStore,
       DropRef, DropRefStore, CancelLock, CancelLink
  <2> QED
    BY <1>2, <1>3, <1>4, <2>1 DEF RanLinked
<1> QED
  BY <1>5, <1>6

(* A call starts with an event that was never run and links it later. *)
LEMMA RequestDelivers ==
  ASSUME IInv, RanLinked, NEW t \in Thread, Request(t)
  PROVE  RanLinked' /\ UNCHANGED Delivery!vars
<1>1. TypeOK /\ ThreadInv(t)
  BY DEF IInv
<1>2. PICK q \in Thread, e \in Event :
        PostBegin(t, q, e) \/ \E p \in Pri : CancelBegin(t, q, e, p)
  BY DEF Request
<1>3. /\ life[e] = "unborn" /\ life' = [life EXCEPT ![e] = "alive"]
      /\ out'[t].ev = e /\ \A u \in Thread \ {t} : out'[u] = out[u]
      /\ pc[t] \in {"handler", "loop"} /\ pc'[t] \in {"postLock", "cancelLock"}
      /\ \A u \in Thread \ {t} : pc'[u] = pc[u]
      /\ UNCHANGED <<root, runs, pri, snap, cur, reg>>
  BY <1>1, <1>2 DEF PostBegin, CancelBegin, BeginCall, MayCall, Goto, TypeOK
<1>4. RanLinked'
  <2>1. \A f \in Event : life[f] # "unborn" => life'[f] # "unborn"
    BY <1>1, <1>3 DEF TypeOK
  <2>2. ~(runs[e] > 0)
    BY <1>3 DEF RanLinked
  <2>3. \A u \in Thread \ {t} : Posting(u)' => Posting(u)
    BY <1>3 DEF Posting
  <2> QED
    BY <1>3, <2>1, <2>2, <2>3 DEF RanLinked
<1>5. OnlyOwn(t) /\ ~Popped(t) /\ ~Popped(t)'
  BY <1>3 DEF OnlyOwn, Popped
<1>6. UNCHANGED Delivery!vars
  BY <1>3, <1>5, QuietStep
<1> QED
  BY <1>4, <1>6

THEOREM NextDelivers ==
  IInv /\ RanLinked /\ [Next]_vars => RanLinked' /\ [Delivery!Next]_Delivery!vars
<1> SUFFICES ASSUME IInv, RanLinked, [Next]_vars
             PROVE  RanLinked' /\ [Delivery!Next]_Delivery!vars
  OBVIOUS
<1>1. ASSUME NEW t \in Thread, Step(t)
      PROVE  RanLinked' /\ [Delivery!Next]_Delivery!vars
  BY <1>1, StepDelivers, StepRanLinked
<1>2. ASSUME NEW t \in Thread, Request(t)
      PROVE  RanLinked' /\ [Delivery!Next]_Delivery!vars
  BY <1>2, RequestDelivers
<1>3. ASSUME UNCHANGED <<root, life, runs, threadVars>>
      PROVE  RanLinked' /\ [Delivery!Next]_Delivery!vars
  <2>1. RanLinked'
    BY <1>3 DEF RanLinked, Posting, threadVars
  <2>2. \A u \in Thread : \A e : e \in pending'[u] <=> e \in pending[u]
    BY <1>3, PendingMembers DEF Linked, Popped, threadVars
  <2>3. pending' = pending
    BY <2>2, PendingType, PendingIs
  <2> QED
    BY <1>3, <2>1, <2>3 DEF Delivery!vars
<1> QED
  BY <1>1, <1>2, <1>3 DEF Next, RaiseCancel, Terminated, vars

(* The pumps start empty and nothing has been run. *)
THEOREM InitDelivers == Init => RanLinked /\ Delivery!Init
<1> SUFFICES ASSUME Init PROVE RanLinked /\ Delivery!Init
  OBVIOUS
<1>1. runs = [e \in Event |-> 0]
  BY DEF Init
<1>2. RanLinked
  BY <1>1 DEF RanLinked
<1>3. \A u \in Thread, p \in Pri : Linked(u, p) = {}
  BY DEF Init, Linked, Range
<1>4. \A u \in Thread : ~Popped(u)
  BY DEF Init, Popped
<1>5. \A u \in Thread : pending[u] = {}
  BY <1>3, <1>4, PendingMembers
<1>6. pending = [u \in Thread |-> pending[u]]
  BY DEF pending
<1> QED
  BY <1>1, <1>2, <1>5, <1>6 DEF Delivery!Init

(* EventLoop::PostEvent() and the loops of the threads implement           *)
(* EventDelivery: whatever the interleaving of push(), pop() and           *)
(* cancelEvents(), an event waits for the thread it was posted to, is run  *)
(* by that thread only, and not again once it has been run.                *)
THEOREM SpecDelivers == Spec => Delivers
<1>1. IInv /\ IInv' /\ RanLinked /\ [Next]_vars => RanLinked' /\ [Delivery!Next]_Delivery!vars
  BY NextDelivers
<1> QED
  BY <1>1, SpecIInv, InitDelivers, PTL DEF Spec, Delivers, Delivery!Spec
==============================================================================
