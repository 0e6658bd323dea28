-------------------------- MODULE Lifecycle_proofs --------------------------
(***************************************************************************)
(* For any volumes, any number of acts of the user, threads that cannot be *)
(* created, a failing fork() and a filler that logs: the log's mutex is    *)
(* made once and before it is used, threads run informed, and the          *)
(* configuration is stored by the last thread left.                        *)
(***************************************************************************)
EXTENDS Lifecycle, TLAPS

(* What the initial thread has done tells what the others may do.          *)
Startup ==
  /\ ipc \in {"sync_main", "sync_io", "sync_audio", "join_main", "cancel_io", "join_io",
              "cancel_audio", "join_audio", "store", "ended"} => known
  /\ ~known => \A t \in Thread : semaphore[t] = 0 /\ pc[t] \in {"none", "sem"}
  /\ ipc = "sync_main" => semaphore["main"] = 0
  /\ ipc \in {"sync_main", "sync_io"} => semaphore["io"] = 0
  /\ ipc \in {"sync_main", "sync_io", "sync_audio"} => semaphore["audio"] = 0
  /\ ipc \in {"create_main", "create_io", "create_audio", "load", "ids"} => ~known

Joined ==
  /\ ipc \in {"cancel_io", "join_io", "cancel_audio", "join_audio", "store", "ended"} =>
       pc["main"] = "done"
  /\ ipc \in {"cancel_audio", "join_audio", "store", "ended"} => pc["io"] = "done"
  /\ ipc \in {"store", "ended"} => pc["audio"] = "done"
  /\ ipc = "ended" => stored = volume

(* A thread that logs is at a log operation of the handler that it runs.   *)
Logs ==
  \A t \in Thread : logging[t] # "no" =>
    pc[t] \in {"run", "turn"} /\ todo[t] # <<>> /\ Head(todo[t]) = Log

(* Until the mutex is made, only the main thread has anything to do, and   *)
(* the first thing it does is log.                                         *)
Quiet ==
  /\ \A t \in Thread : pump[t] = <<>>
  /\ \A t \in {"io", "audio"} : todo[t] = <<>> /\ logging[t] = "no"
  /\ todo["main"] # <<>> => Head(todo["main"]) = Log
  /\ logging["main"] = IF log_inited THEN "make" ELSE "no"
  /\ state = "idle"
  /\ pc["audio"] \notin {"fork", "prefill", "play", "drain"}

Shielded ==
  /\ log_mutex = NoMutex => Quiet
  /\ log_mutex # NoMutex => log_inited /\ \A t \in Thread : logging[t] # "make"
  /\ \A t \in Thread : logging[t] = "write" => log_mutex = t

(* The audio thread loads and plays only when its machine is not idle. *)
Working == pc["audio"] \in {"fork", "prefill", "play", "drain"} => state # "idle"

Inv == TypeOK /\ Startup /\ Joined /\ Logs /\ Shielded /\ Working

-----------------------------------------------------------------------------
LEMMA Initially == Init => Inv
<1> SUFFICES ASSUME Init PROVE Inv
  OBVIOUS
<1>1. TypeOK
  <2> USE DEF Init, Thread
  <2>1. <<>> \in Seq(Event) /\ <<>> \in Seq(Op)
    OBVIOUS
  <2>2. pump \in [Thread -> Seq(Event)] /\ todo \in [Thread -> Seq(Op)]
    BY <2>1
  <2>3. /\ m_thread \in [Thread -> BOOLEAN] /\ canceled \in [Thread -> BOOLEAN]
        /\ semaphore \in [Thread -> 0 .. 1]
        /\ pc \in [Thread -> {"none", "sem", "pop", "run", "turn", "check", "fork", "prefill",
                           "play", "drain", "done"}]
        /\ logging \in [Thread -> {"no", "make", "acquire", "write"}]
    OBVIOUS
  <2>4. volume \in Volume /\ stored \in Volume /\ acts \in 0 .. MaxActs
    BY LifecycleAssumption
  <2> QED
    BY <2>2, <2>3, <2>4 DEF TypeOK
<1>2. Startup /\ Joined /\ Logs /\ Working
  BY DEF Init, Startup, Joined, Logs, Working, Thread
<1>3. Shielded
  BY DEF Init, Shielded, Quiet, Thread, NoMutex
<1> QED
  BY <1>1, <1>2, <1>3 DEF Inv

(* What PostEvent() leaves to do is a list of operations.                  *)
LEMMA PostOps ==
  ASSUME NEW t \in Thread, NEW e \in Event
  PROVE  /\ Post(t, e) \in Seq(Op)
         /\ Post(t, e) \o <<Log>> \in Seq(Op)
<1>1. Log \in Op /\ [op |-> "push", to |-> t, event |-> e] \in Op
  BY DEF Op, Log
<1>2. Post(t, e) \in Seq(Op) /\ <<Log>> \in Seq(Op)
  BY <1>1 DEF Post
<1> QED
  BY <1>2

LEMMA RestOps ==
  ASSUME NEW s \in Seq(Op), s # <<>>
  PROVE  Head(s) \in Op /\ Tail(s) \in Seq(Op)
  OBVIOUS

LEMMA RestEvents ==
  ASSUME NEW s \in Seq(Event), s # <<>>
  PROVE  Head(s) \in Event /\ Tail(s) \in Seq(Event)
  OBVIOUS

(* sync() comes after EventLoop::init(), so no thread starts before it.    *)
LEMMA StartupStep ==
  ASSUME TypeOK, Startup, [Next]_vars
  PROVE  Startup'
<1> USE DEF Startup, TypeOK, Thread
<1>1. CASE CreateThread
  BY <1>1 DEF CreateThread, Create, threads, log, audio
<1>2. CASE LoadConfig
  BY <1>2 DEF LoadConfig, threads, log, audio
<1>3. CASE LearnIds
  BY <1>3 DEF LearnIds, threads, log, audio
<1>4. CASE Sync
  BY <1>4 DEF Sync, Signal, threads, log, audio
<1>5. CASE JoinThread
  BY <1>5 DEF JoinThread, Join, threads, log, audio
<1>6. CASE Cancel
  BY <1>6 DEF Cancel, threads, log, audio
<1>7. CASE StoreConfig
  BY <1>7 DEF StoreConfig, threads, log, audio
<1>8. ASSUME NEW t \in Thread, NEW e \in Event, UserPosts(t, e) PROVE Startup'
  BY <1>8 DEF UserPosts, Post, Op, Event, Log, threads, log, audio
<1>9. CASE CloseWindow
  BY <1>9 DEF CloseWindow, threads, log, audio
<1>10. ASSUME NEW t \in Thread, Start(t) PROVE Startup'
  BY <1>10 DEF Start, threads, log, audio
<1>11. ASSUME NEW t \in Thread, LogTest(t) PROVE Startup'
  BY <1>11 DEF LogTest, Log, threads, log, audio
<1>12. ASSUME NEW t \in Thread, LogMake(t) PROVE Startup'
  BY <1>12 DEF LogMake, threads, log, audio
<1>13. ASSUME NEW t \in Thread, LogAcquire(t) PROVE Startup'
  BY <1>13 DEF LogAcquire, threads, log, audio
<1>14. ASSUME NEW t \in Thread, LogRelease(t) PROVE Startup'
  BY <1>14 DEF LogRelease, Log, threads, log, audio
<1>15. ASSUME NEW t \in Thread, Push(t) PROVE Startup'
  BY <1>15 DEF Push, threads, log, audio
<1>16. ASSUME NEW t \in Thread, HandlerEnds(t) PROVE Startup'
  BY <1>16 DEF HandlerEnds, threads, log, audio
<1>17. ASSUME NEW t \in Thread, PopEmpty(t) PROVE Startup'
  BY <1>17 DEF PopEmpty, threads, log, audio
<1>18. ASSUME NEW t \in Thread, Pop(t) PROVE Startup'
  BY <1>18 DEF Pop, Post, Op, Event, Log, threads, log, audio
<1>19. CASE UserIdle
  BY <1>19 DEF UserIdle, threads, log, audio
<1>20. CASE IoCheck
  BY <1>20 DEF IoCheck, threads, log, audio
<1>21. CASE AudioCheck
  BY <1>21 DEF AudioCheck, Turn, EndContext, threads, log, audio
<1>22. CASE Fork
  BY <1>22 DEF Fork, threads, log, audio
<1>23. CASE Prefilled
  BY <1>23 DEF Prefilled, Op, Log, threads, log, audio
<1>24. CASE RunProcess
  BY <1>24 DEF RunProcess, threads, log, audio
<1>25. CASE Drained
  BY <1>25 DEF Drained, Op, Log, threads, log, audio
<1>26. CASE OpenFails
  BY <1>26 DEF OpenFails, Op, Log, threads, log, audio
<1>27. CASE UNCHANGED vars
  BY <1>27 DEF vars, threads, log, audio
<1>28. [kind |-> "query"] \in Event /\ \A v \in Volume : [kind |-> "set", volume |-> v] \in Event
  BY DEF Event
<1> QED
  BY <1>1, <1>2, <1>3, <1>4, <1>5, <1>6, <1>7, <1>8, <1>9, <1>10, <1>11, <1>12, <1>13, <1>14, <1>15, <1>16, <1>17, <1>18, <1>19, <1>20, <1>21, <1>22, <1>23, <1>24, <1>25,
     <1>26, <1>27, <1>28
     DEF Next, InitialStep, User, ThreadStep, Thread

(* RunMainLoop() waits for one thread after the other, and a thread that    *)
(* is done changes nothing any more.                                       *)
LEMMA JoinedStep ==
  ASSUME TypeOK, Joined, Logs, [Next]_vars
  PROVE  Joined'
<1> USE DEF Joined, TypeOK, Thread, Lives, Logs
<1>1. CASE CreateThread
  BY <1>1 DEF CreateThread, Create, threads, log, audio
<1>2. CASE LoadConfig
  BY <1>2 DEF LoadConfig, threads, log, audio
<1>3. CASE LearnIds
  BY <1>3 DEF LearnIds, threads, log, audio
<1>4. CASE Sync
  BY <1>4 DEF Sync, Signal, threads, log, audio
<1>5. CASE JoinThread
  BY <1>5 DEF JoinThread, Join, threads, log, audio
<1>6. CASE Cancel
  BY <1>6 DEF Cancel, threads, log, audio
<1>7. CASE StoreConfig
  BY <1>7 DEF StoreConfig, threads, log, audio
<1>8. ASSUME NEW t \in Thread, NEW e \in Event, UserPosts(t, e) PROVE Joined'
  BY <1>8 DEF UserPosts, Post, Op, Event, Log, threads, log, audio
<1>9. CASE CloseWindow
  BY <1>9 DEF CloseWindow, threads, log, audio
<1>10. ASSUME NEW t \in Thread, Start(t) PROVE Joined'
  BY <1>10 DEF Start, threads, log, audio
<1>11. ASSUME NEW t \in Thread, LogTest(t) PROVE Joined'
  BY <1>11 DEF LogTest, Log, threads, log, audio
<1>12. ASSUME NEW t \in Thread, LogMake(t) PROVE Joined'
  BY <1>12 DEF LogMake, threads, log, audio
<1>13. ASSUME NEW t \in Thread, LogAcquire(t) PROVE Joined'
  BY <1>13 DEF LogAcquire, threads, log, audio
<1>14. ASSUME NEW t \in Thread, LogRelease(t) PROVE Joined'
  BY <1>14 DEF LogRelease, Log, threads, log, audio
<1>15. ASSUME NEW t \in Thread, Push(t) PROVE Joined'
  BY <1>15 DEF Push, threads, log, audio
<1>16. ASSUME NEW t \in Thread, HandlerEnds(t) PROVE Joined'
  BY <1>16 DEF HandlerEnds, threads, log, audio
<1>17. ASSUME NEW t \in Thread, PopEmpty(t) PROVE Joined'
  BY <1>17 DEF PopEmpty, threads, log, audio
<1>18. ASSUME NEW t \in Thread, Pop(t) PROVE Joined'
  BY <1>18 DEF Pop, Post, Op, Event, Log, threads, log, audio
<1>19. CASE UserIdle
  BY <1>19 DEF UserIdle, threads, log, audio
<1>20. CASE IoCheck
  BY <1>20 DEF IoCheck, threads, log, audio
<1>21. CASE AudioCheck
  BY <1>21 DEF AudioCheck, Turn, EndContext, threads, log, audio
<1>22. CASE Fork
  BY <1>22 DEF Fork, threads, log, audio
<1>23. CASE Prefilled
  BY <1>23 DEF Prefilled, Op, Log, threads, log, audio
<1>24. CASE RunProcess
  BY <1>24 DEF RunProcess, threads, log, audio
<1>25. CASE Drained
  BY <1>25 DEF Drained, Op, Log, threads, log, audio
<1>26. CASE OpenFails
  BY <1>26 DEF OpenFails, Op, Log, threads, log, audio
<1>27. CASE UNCHANGED vars
  BY <1>27 DEF vars, threads, log, audio
<1>28. [kind |-> "query"] \in Event /\ \A v \in Volume : [kind |-> "set", volume |-> v] \in Event
  BY DEF Event
<1> QED
  BY <1>1, <1>2, <1>3, <1>4, <1>5, <1>6, <1>7, <1>8, <1>9, <1>10, <1>11, <1>12, <1>13, <1>14, <1>15, <1>16, <1>17, <1>18, <1>19, <1>20, <1>21, <1>22, <1>23, <1>24, <1>25,
     <1>26, <1>27, <1>28
     DEF Next, InitialStep, User, ThreadStep, Thread

(* A handler leaves its log operation only when the log is written.        *)
LEMMA LogsStep ==
  ASSUME TypeOK, Startup, Logs, [Next]_vars
  PROVE  Logs'
<1> USE DEF Logs, Startup, TypeOK, Thread
<1>1. CASE CreateThread
  BY <1>1 DEF CreateThread, Create, threads, log, audio
<1>2. CASE LoadConfig
  BY <1>2 DEF LoadConfig, threads, log, audio
<1>3. CASE LearnIds
  BY <1>3 DEF LearnIds, threads, log, audio
<1>4. CASE Sync
  BY <1>4 DEF Sync, Signal, threads, log, audio
<1>5. CASE JoinThread
  BY <1>5 DEF JoinThread, Join, threads, log, audio
<1>6. CASE Cancel
  BY <1>6 DEF Cancel, threads, log, audio
<1>7. CASE StoreConfig
  BY <1>7 DEF StoreConfig, threads, log, audio
<1>8. ASSUME NEW t \in Thread, NEW e \in Event, UserPosts(t, e) PROVE Logs'
  BY <1>8 DEF UserPosts, Post, Op, Event, Log, threads, log, audio
<1>9. CASE CloseWindow
  BY <1>9 DEF CloseWindow, threads, log, audio
<1>10. ASSUME NEW t \in Thread, Start(t) PROVE Logs'
  BY <1>10 DEF Start, threads, log, audio
<1>11. ASSUME NEW t \in Thread, LogTest(t) PROVE Logs'
  BY <1>11 DEF LogTest, Log, threads, log, audio
<1>12. ASSUME NEW t \in Thread, LogMake(t) PROVE Logs'
  BY <1>12 DEF LogMake, threads, log, audio
<1>13. ASSUME NEW t \in Thread, LogAcquire(t) PROVE Logs'
  BY <1>13 DEF LogAcquire, threads, log, audio
<1>14. ASSUME NEW t \in Thread, LogRelease(t) PROVE Logs'
  BY <1>14 DEF LogRelease, Log, threads, log, audio
<1>15. ASSUME NEW t \in Thread, Push(t) PROVE Logs'
  BY <1>15 DEF Push, Log, threads, log, audio
<1>16. ASSUME NEW t \in Thread, HandlerEnds(t) PROVE Logs'
  BY <1>16 DEF HandlerEnds, threads, log, audio
<1>17. ASSUME NEW t \in Thread, PopEmpty(t) PROVE Logs'
  BY <1>17 DEF PopEmpty, threads, log, audio
<1>18. ASSUME NEW t \in Thread, Pop(t) PROVE Logs'
  BY <1>18 DEF Pop, Post, Op, Event, Log, threads, log, audio
<1>19. CASE UserIdle
  BY <1>19 DEF UserIdle, threads, log, audio
<1>20. CASE IoCheck
  BY <1>20 DEF IoCheck, threads, log, audio
<1>21. CASE AudioCheck
  BY <1>21 DEF AudioCheck, Turn, EndContext, threads, log, audio
<1>22. CASE Fork
  BY <1>22 DEF Fork, threads, log, audio
<1>23. CASE Prefilled
  BY <1>23 DEF Prefilled, Op, Log, threads, log, audio
<1>24. CASE RunProcess
  BY <1>24 DEF RunProcess, threads, log, audio
<1>25. CASE Drained
  BY <1>25 DEF Drained, Op, Log, threads, log, audio
<1>26. CASE OpenFails
  BY <1>26 DEF OpenFails, Op, Log, threads, log, audio
<1>27. CASE UNCHANGED vars
  BY <1>27 DEF vars, threads, log, audio
<1>28. [kind |-> "query"] \in Event /\ \A v \in Volume : [kind |-> "set", volume |-> v] \in Event
  BY DEF Event
<1> QED
  BY <1>1, <1>2, <1>3, <1>4, <1>5, <1>6, <1>7, <1>8, <1>9, <1>10, <1>11, <1>12, <1>13, <1>14, <1>15, <1>16, <1>17, <1>18, <1>19, <1>20, <1>21, <1>22, <1>23, <1>24, <1>25,
     <1>26, <1>27, <1>28
     DEF Next, InitialStep, User, ThreadStep, Thread

(* A turn of the audio thread leaves its machine idle only at its end.     *)
LEMMA WorkingStep ==
  ASSUME TypeOK, Working, [Next]_vars
  PROVE  Working'
<1> USE DEF Working, TypeOK, Thread
<1>1. CASE CreateThread
  BY <1>1 DEF CreateThread, Create, threads, log, audio
<1>2. CASE LoadConfig
  BY <1>2 DEF LoadConfig, threads, log, audio
<1>3. CASE LearnIds
  BY <1>3 DEF LearnIds, threads, log, audio
<1>4. CASE Sync
  BY <1>4 DEF Sync, Signal, threads, log, audio
<1>5. CASE JoinThread
  BY <1>5 DEF JoinThread, Join, threads, log, audio
<1>6. CASE Cancel
  BY <1>6 DEF Cancel, threads, log, audio
<1>7. CASE StoreConfig
  BY <1>7 DEF StoreConfig, threads, log, audio
<1>8. ASSUME NEW t \in Thread, NEW e \in Event, UserPosts(t, e) PROVE Working'
  BY <1>8 DEF UserPosts, Post, Op, Event, Log, threads, log, audio
<1>9. CASE CloseWindow
  BY <1>9 DEF CloseWindow, threads, log, audio
<1>10. ASSUME NEW t \in Thread, Start(t) PROVE Working'
  BY <1>10 DEF Start, threads, log, audio
<1>11. ASSUME NEW t \in Thread, LogTest(t) PROVE Working'
  BY <1>11 DEF LogTest, Log, threads, log, audio
<1>12. ASSUME NEW t \in Thread, LogMake(t) PROVE Working'
  BY <1>12 DEF LogMake, threads, log, audio
<1>13. ASSUME NEW t \in Thread, LogAcquire(t) PROVE Working'
  BY <1>13 DEF LogAcquire, threads, log, audio
<1>14. ASSUME NEW t \in Thread, LogRelease(t) PROVE Working'
  BY <1>14 DEF LogRelease, Log, threads, log, audio
<1>15. ASSUME NEW t \in Thread, Push(t) PROVE Working'
  BY <1>15 DEF Push, threads, log, audio
<1>16. ASSUME NEW t \in Thread, HandlerEnds(t) PROVE Working'
  BY <1>16 DEF HandlerEnds, threads, log, audio
<1>17. ASSUME NEW t \in Thread, PopEmpty(t) PROVE Working'
  BY <1>17 DEF PopEmpty, threads, log, audio
<1>18. ASSUME NEW t \in Thread, Pop(t) PROVE Working'
  BY <1>18 DEF Pop, Post, Op, Event, Log, threads, log, audio
<1>19. CASE UserIdle
  BY <1>19 DEF UserIdle, threads, log, audio
<1>20. CASE IoCheck
  BY <1>20 DEF IoCheck, threads, log, audio
<1>21. CASE AudioCheck
  BY <1>21 DEF AudioCheck, Turn, EndContext, threads, log, audio
<1>22. CASE Fork
  BY <1>22 DEF Fork, threads, log, audio
<1>23. CASE Prefilled
  BY <1>23 DEF Prefilled, Op, Log, threads, log, audio
<1>24. CASE RunProcess
  BY <1>24 DEF RunProcess, threads, log, audio
<1>25. CASE Drained
  BY <1>25 DEF Drained, Op, Log, threads, log, audio
<1>26. CASE OpenFails
  BY <1>26 DEF OpenFails, Op, Log, threads, log, audio
<1>27. CASE UNCHANGED vars
  BY <1>27 DEF vars, threads, log, audio
<1>28. [kind |-> "query"] \in Event /\ \A v \in Volume : [kind |-> "set", volume |-> v] \in Event
  BY DEF Event
<1> QED
  BY <1>1, <1>2, <1>3, <1>4, <1>5, <1>6, <1>7, <1>8, <1>9, <1>10, <1>11, <1>12, <1>13, <1>14, <1>15, <1>16, <1>17, <1>18, <1>19, <1>20, <1>21, <1>22, <1>23, <1>24, <1>25,
     <1>26, <1>27, <1>28
     DEF Next, InitialStep, User, ThreadStep, Thread

(* The others stay quiet until the mutex of the log is made, for it is the *)
(* main thread that logs before it pushes the first event.                 *)
LEMMA ShieldedStep ==
  ASSUME TypeOK, Logs, Shielded, Working, [Next]_vars
  PROVE  Shielded'
<1> USE DEF Shielded, Quiet, TypeOK, Thread, NoMutex
<1>1. CASE CreateThread
  BY <1>1 DEF CreateThread, Create, threads, log, audio
<1>2. CASE LoadConfig
  BY <1>2 DEF LoadConfig, threads, log, audio
<1>3. CASE LearnIds
  BY <1>3 DEF LearnIds, threads, log, audio
<1>4. CASE Sync
  BY <1>4 DEF Sync, Signal, threads, log, audio
<1>5. CASE JoinThread
  BY <1>5 DEF JoinThread, Join, threads, log, audio
<1>6. CASE Cancel
  BY <1>6 DEF Cancel, threads, log, audio
<1>7. CASE StoreConfig
  BY <1>7 DEF StoreConfig, threads, log, audio
<1>8. ASSUME NEW t \in Thread, NEW e \in Event, UserPosts(t, e) PROVE Shielded'
  BY <1>8 DEF UserPosts, Post, Op, Event, Log, threads, log, audio
<1>9. CASE CloseWindow
  BY <1>9 DEF CloseWindow, threads, log, audio
<1>10. ASSUME NEW t \in Thread, Start(t) PROVE Shielded'
  BY <1>10 DEF Start, threads, log, audio
<1>11. ASSUME NEW t \in Thread, LogTest(t) PROVE Shielded'
  BY <1>11 DEF LogTest, Log, threads, log, audio
<1>12. ASSUME NEW t \in Thread, LogMake(t) PROVE Shielded'
  BY <1>12 DEF LogMake, threads, log, audio
<1>13. ASSUME NEW t \in Thread, LogAcquire(t) PROVE Shielded'
  BY <1>13 DEF LogAcquire, threads, log, audio
<1>14. ASSUME NEW t \in Thread, LogRelease(t) PROVE Shielded'
  BY <1>14 DEF LogRelease, Log, threads, log, audio
<1>15. ASSUME NEW t \in Thread, Push(t) PROVE Shielded'
  BY <1>15 DEF Push, Log, Logs, threads, log, audio
<1>16. ASSUME NEW t \in Thread, HandlerEnds(t) PROVE Shielded'
  BY <1>16 DEF HandlerEnds, threads, log, audio
<1>17. ASSUME NEW t \in Thread, PopEmpty(t) PROVE Shielded'
  BY <1>17 DEF PopEmpty, threads, log, audio
<1>18. ASSUME NEW t \in Thread, Pop(t) PROVE Shielded'
  BY <1>18 DEF Pop, Post, Op, Event, Log, threads, log, audio
<1>19. CASE UserIdle
  BY <1>19 DEF UserIdle, threads, log, audio
<1>20. CASE IoCheck
  BY <1>20 DEF IoCheck, threads, log, audio
<1>21. CASE AudioCheck
  BY <1>21 DEF AudioCheck, Turn, EndContext, threads, log, audio
<1>22. CASE Fork
  BY <1>22 DEF Fork, threads, log, audio
<1>23. CASE Prefilled
  BY <1>23 DEF Prefilled, Op, Log, threads, log, audio
<1>24. CASE RunProcess
  BY <1>24 DEF RunProcess, threads, log, audio
<1>25. CASE Drained
  BY <1>25 DEF Drained, Op, Log, threads, log, audio
<1>26. CASE OpenFails
  BY <1>26 DEF OpenFails, Op, Log, threads, log, audio
<1>27. CASE UNCHANGED vars
  BY <1>27 DEF vars, threads, log, audio
<1>28. [kind |-> "query"] \in Event /\ \A v \in Volume : [kind |-> "set", volume |-> v] \in Event
  BY DEF Event
<1> QED
  BY <1>1, <1>2, <1>3, <1>4, <1>5, <1>6, <1>7, <1>8, <1>9, <1>10, <1>11, <1>12, <1>13, <1>14, <1>15, <1>16, <1>17, <1>18, <1>19, <1>20, <1>21, <1>22, <1>23, <1>24, <1>25,
     <1>26, <1>27, <1>28
     DEF Next, InitialStep, User, ThreadStep, Thread

(* Every action keeps the types, the count of a semaphore among them: each *)
(* thread is synced once.                                                  *)
LEMMA TypeStep ==
  ASSUME TypeOK, Startup, Logs, [Next]_vars
  PROVE  TypeOK'
<1> USE DEF TypeOK, Thread, NoMutex
<1>1. CASE CreateThread
  <2>1. PICK t \in Thread, next \in {"create_io", "create_audio", "load"} : Create(t, next)
    BY <1>1 DEF CreateThread
  <2>2. m_thread' \in [Thread -> BOOLEAN]
    <3>1. CASE m_thread' = [m_thread EXCEPT ![t] = TRUE]
      BY <3>1
    <3>2. CASE m_thread' = m_thread
      BY <3>2
    <3> QED
      BY <2>1, <3>1, <3>2 DEF Create
  <2>3. pc' \in [Thread -> {"none", "sem", "pop", "run", "turn", "check", "fork", "prefill",
                           "play", "drain", "done"}]
    BY <2>1 DEF Create
  <2>4. ipc' \in {"create_io", "create_audio", "load", "failed"}
    BY <2>1 DEF Create
  <2> QED
    BY <1>1, <2>2, <2>3, <2>4 DEF CreateThread, log, audio
<1>2. CASE LoadConfig
  BY <1>2 DEF LoadConfig, threads, log, audio
<1>3. CASE LearnIds
  BY <1>3 DEF LearnIds, threads, log, audio
<1>4. CASE Sync
  <2>1. PICK t \in Thread : semaphore[t] = 0 /\ Signal(t)
    BY <1>4 DEF Sync, Startup
  <2>2. semaphore' \in [Thread -> 0 .. 1]
    BY <2>1 DEF Signal
  <2>3. ipc' \in {"sync_io", "sync_audio", "join_main"}
    BY <1>4 DEF Sync
  <2> QED
    BY <1>4, <2>2, <2>3 DEF Sync, log, audio
<1>5. CASE JoinThread
  BY <1>5 DEF JoinThread, Join, threads, log, audio
<1>6. CASE Cancel
  <2>1. canceled' \in [Thread -> BOOLEAN]
    BY <1>6 DEF Cancel
  <2>2. ipc' \in {"join_io", "join_audio"}
    BY <1>6 DEF Cancel
  <2> QED
    BY <1>6, <2>1, <2>2 DEF Cancel, log, audio
<1>7. CASE StoreConfig
  BY <1>7 DEF StoreConfig, threads, log, audio
<1>8. ASSUME NEW t \in Thread, NEW e \in Event, UserPosts(t, e) PROVE TypeOK'
  <2>1. todo' \in [Thread -> Seq(Op)]
    BY <1>8, PostOps DEF UserPosts
  <2>2. acts' \in 0 .. MaxActs
    BY <1>8, LifecycleAssumption DEF UserPosts
  <2> QED
    BY <1>8, <2>1, <2>2 DEF UserPosts, threads, log, audio
<1>9. CASE CloseWindow
  BY <1>9 DEF CloseWindow, threads, log, audio
<1>10. ASSUME NEW t \in Thread, Start(t) PROVE TypeOK'
  BY <1>10 DEF Start, threads, log, audio
<1>11. ASSUME NEW t \in Thread, LogTest(t) PROVE TypeOK'
  BY <1>11 DEF LogTest, Log, threads, log, audio
<1>12. ASSUME NEW t \in Thread, LogMake(t) PROVE TypeOK'
  BY <1>12 DEF LogMake, threads, log, audio
<1>13. ASSUME NEW t \in Thread, LogAcquire(t) PROVE TypeOK'
  BY <1>13 DEF LogAcquire, threads, log, audio
<1>14. ASSUME NEW t \in Thread, LogRelease(t) PROVE TypeOK'
  <2>1. todo[t] \in Seq(Op) /\ todo[t] # <<>>
    BY <1>14 DEF LogRelease, Logs
  <2>2. todo' \in [Thread -> Seq(Op)]
    BY <1>14, <2>1, RestOps DEF LogRelease
  <2> QED
    BY <1>14, <2>2 DEF LogRelease, threads, audio
<1>15. ASSUME NEW t \in Thread, Push(t) PROVE TypeOK'
  <2>1. todo[t] \in Seq(Op) /\ todo[t] # <<>>
    BY <1>15 DEF Push
  <2>2. todo' \in [Thread -> Seq(Op)]
    BY <1>15, <2>1, RestOps DEF Push
  <2>3. Head(todo[t]) \in Op /\ Head(todo[t]).op = "push"
    BY <1>15, <2>1, RestOps DEF Push
  <2>4. Head(todo[t]).to \in Thread /\ Head(todo[t]).event \in Event
    BY <2>3 DEF Op
  <2>5. <<Head(todo[t]).event>> \o pump[Head(todo[t]).to] \in Seq(Event)
    BY <2>4
  <2>6. pump' \in [Thread -> Seq(Event)]
    BY <1>15, <2>4, <2>5 DEF Push
  <2> QED
    BY <1>15, <2>2, <2>6 DEF Push, threads, log, audio
<1>16. ASSUME NEW t \in Thread, HandlerEnds(t) PROVE TypeOK'
  BY <1>16 DEF HandlerEnds, threads, log, audio
<1>17. ASSUME NEW t \in Thread, PopEmpty(t) PROVE TypeOK'
  BY <1>17 DEF PopEmpty, threads, log, audio
<1>18. ASSUME NEW t \in Thread, Pop(t) PROVE TypeOK'
  <2> DEFINE e == Head(pump[t])
  <2>1. e \in Event /\ Tail(pump[t]) \in Seq(Event)
    <3>1. pump[t] \in Seq(Event) /\ pump[t] # <<>>
      BY <1>18 DEF Pop
    <3> QED
      BY <3>1, RestEvents
  <2>2. pump' \in [Thread -> Seq(Event)]
    BY <1>18, <2>1 DEF Pop
  <2>3. /\ todo' \in [Thread -> Seq(Op)]
        /\ volume' \in Volume
        /\ state' \in {"idle", "loading", "processing", "terminating"}
        /\ filler' \in {"none", "fills", "waits"}
    <3>1. <<Log>> \in Seq(Op) /\ <<Log>> \o <<Log>> \in Seq(Op) /\ <<>> \o <<Log>> \in Seq(Op)
      BY <1>18 DEF Op, Log
    <3>2. [kind |-> "loaded"] \in Event /\ [kind |-> "run"] \in Event
      BY <1>18 DEF Event
    <3>3. /\ Post("main", [kind |-> "loaded"]) \o <<Log>> \in Seq(Op)
          /\ Post("audio", [kind |-> "run"]) \o <<Log>> \in Seq(Op)
      BY <3>1, <3>2, PostOps
    <3>4. CASE e.kind = "query"
      BY <1>18, <3>3, <3>4 DEF Pop
    <3>5. CASE e.kind = "loaded"
      BY <1>18, <3>3, <3>5 DEF Pop
    <3>6. CASE e.kind = "run"
      BY <1>18, <3>1, <3>6 DEF Pop
    <3>7. CASE e.kind = "set"
      <4>1. e.volume \in Volume
        BY <2>1, <3>7 DEF Event
      <4> QED
        BY <1>18, <3>1, <3>7, <4>1 DEF Pop
    <3> QED
      BY <2>1, <3>4, <3>5, <3>6, <3>7 DEF Event
  <2>4. pc' \in [Thread -> {"none", "sem", "pop", "run", "turn", "check", "fork", "prefill",
                           "play", "drain", "done"}]
    BY <1>18 DEF Pop
  <2> QED
    BY <1>18, <2>2, <2>3, <2>4 DEF Pop, threads, log
<1>19. CASE UserIdle
  BY <1>19 DEF UserIdle, threads, log, audio
<1>20. CASE IoCheck
  BY <1>20 DEF IoCheck, threads, log, audio
<1>21. CASE AudioCheck
  BY <1>21 DEF AudioCheck, Turn, EndContext, threads, log, audio
<1>22. CASE Fork
  BY <1>22 DEF Fork, threads, log, audio
<1>23. CASE Prefilled
  BY <1>23 DEF Prefilled, Op, Log, threads, log, audio
<1>24. CASE RunProcess
  BY <1>24 DEF RunProcess, threads, log, audio
<1>25. CASE Drained
  BY <1>25 DEF Drained, Op, Log, threads, log, audio
<1>26. CASE OpenFails
  BY <1>26 DEF OpenFails, Op, Log, threads, log, audio
<1>27. CASE UNCHANGED vars
  BY <1>27 DEF vars, threads, log, audio
<1>28. [kind |-> "query"] \in Event /\ \A v \in Volume : [kind |-> "set", volume |-> v] \in Event
  BY DEF Event
<1> QED
  BY <1>1, <1>2, <1>3, <1>4, <1>5, <1>6, <1>7, <1>8, <1>9, <1>10, <1>11, <1>12, <1>13, <1>14, <1>15, <1>16, <1>17, <1>18, <1>19, <1>20, <1>21, <1>22, <1>23, <1>24, <1>25,
     <1>26, <1>27, <1>28
     DEF Next, InitialStep, User, ThreadStep, Thread

-----------------------------------------------------------------------------
(* The inductive invariant: what has been done at startup, who was joined, *)
(* where the threads are in the log.                                       *)
THEOREM SpecInv == Spec => []Inv
<1>1. Inv /\ [Next]_vars => Inv'
  BY StartupStep, JoinedStep, LogsStep, ShieldedStep, WorkingStep, TypeStep DEF Inv
<1> QED
  BY Initially, <1>1, PTL DEF Spec

(* The variables keep their types; a semaphore counts to 1 at most.        *)
THEOREM SpecTypeOK == Spec => []TypeOK
<1>1. Inv => TypeOK
  BY DEF Inv
<1> QED
  BY SpecInv, <1>1, PTL

(* log_init() is run by one thread only and before any other logs, though  *)
(* no lock protects it.                                                    *)
THEOREM SpecLogReady == Spec => []LogReady
<1>1. Inv => LogReady
  <2> SUFFICES ASSUME Inv, NEW t \in Thread
               PROVE  /\ logging[t] = "make" =>
                           log_mutex = NoMutex /\ \A u \in Thread \ {t} : logging[u] = "no"
                      /\ logging[t] \in {"acquire", "write"} => log_mutex # NoMutex
                      /\ logging[t] = "write" => log_mutex = t
    BY DEF LogReady
  <2> USE DEF Inv, TypeOK, Shielded, Quiet, Thread
  <2>1. logging[t] = "make" =>
          log_mutex = NoMutex /\ \A u \in Thread \ {t} : logging[u] = "no"
    OBVIOUS
  <2>2. logging[t] \in {"acquire", "write"} => log_mutex # NoMutex
    OBVIOUS
  <2>3. logging[t] = "write" => log_mutex = t
    OBVIOUS
  <2> QED
    BY <2>1, <2>2, <2>3
<1> QED
  BY SpecInv, <1>1, PTL

(* No thread runs before the event loop knows all of them.                 *)
THEOREM SpecRunsInformed == Spec => []RunsInformed
<1>1. Inv => RunsInformed
  BY DEF Inv, Startup, TypeOK, RunsInformed
<1> QED
  BY SpecInv, <1>1, PTL

(* The configuration is stored when no thread is left to change a setting, *)
(* and what is stored is what the last of them has set.                    *)
THEOREM SpecStoresAlone == Spec => []StoresAlone
<1>1. Inv => StoresAlone
  BY DEF Inv, Joined, Logs, StoresAlone, Thread
<1> QED
  BY SpecInv, <1>1, PTL
=============================================================================
