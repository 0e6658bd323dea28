------------------------------ MODULE Lifecycle ------------------------------
(***************************************************************************)
(* The life of the program: Openwsp::init() creates three threads that     *)
(* wait for their sync(), RunMainLoop() joins them one after the other,    *)
(* and uninit() stores the configuration (openwsp.cpp, thread.cpp,         *)
(* eventloop.cpp); with the log, whose mutex is made by the first thread   *)
(* that logs (log.cpp), and the process that the audio thread forks        *)
(* (cache.cpp) and waits for.                                              *)
(*                                                                         *)
(* The handlers of MediaLoading are cut down to the events they post: a    *)
(* query goes to the I/O thread, its answer to the main thread, the run to *)
(* the audio thread, which also sets the volume. A pump is the list of its *)
(* events, newest first.                                                   *)
(***************************************************************************)
EXTENDS Naturals, Sequences

CONSTANTS
  Volume,       \* what the user sets the volume to
  DefaultVolume,
  MayFail,      \* threads that pthread_create() may refuse
  ForkMayFail,  \* whether fork() may fail
  FillerLogs,   \* whether the filler uses a ws_log: on errors and HTTP seeks
  MaxActs       \* bound: acts of the user

Thread == {"main", "io", "audio"}

ASSUME LifecycleAssumption ==
  /\ DefaultVolume \in Volume
  /\ MayFail \subseteq Thread
  /\ ForkMayFail \in BOOLEAN
  /\ FillerLogs \in BOOLEAN
  /\ MaxActs \in Nat

VARIABLES
  ipc,        \* where the initial thread is in init(), RunMainLoop(), uninit()
  m_thread,   \* m_thread[t]: whether t was created
  semaphore,  \* semaphore[t]: its count
  known,      \* whether EventLoop knows the threads and their ids
  canceled,   \* m_canceled
  pc,         \* where each thread is
  pump,       \* pump[t]: the events waiting for t
  todo,       \* todo[t]: what the handler that t runs still does
  logging,    \* logging[t]: where t is in a ws_log
  log_inited, log_mutex,
  state,      \* state of the audio thread's machine
  filler,     \* the filler: "none", "fills", or "waits" for the log's mutex
  volume,     \* volumeLeft and volumeRight
  stored,     \* the volume in the configuration file
  acts        \* what the user has done so far

threads == <<m_thread, semaphore, known, canceled>>
log == <<logging, log_inited, log_mutex>>
audio == <<state, filler>>
vars == <<ipc, threads, pc, pump, todo, log, audio, volume, stored, acts>>

NoMutex == "null"
Event == [kind : {"query", "loaded", "run"}] \union [kind : {"set"}, volume : Volume]
Op == [op : {"log"}] \union [op : {"push"}, to : Thread, event : Event]
Log == [op |-> "log"]

(* Mutant: the reference is taken after the push. *)
PostThenRef(t, e) == <<[op |-> "push", to |-> t, event |-> e], Log, Log>>

(* EventLoop::PostEvent(): with DEBUG_AUTOPTR, each ref() and release()    *)
(* logs; the first is before the push.                                     *)
Post(t, e) == <<Log, [op |-> "push", to |-> t, event |-> e], Log>>

Init ==
  /\ ipc = "create_main"
  /\ m_thread = [t \in Thread |-> FALSE]
  /\ semaphore = [t \in Thread |-> 0]
  /\ known = FALSE
  /\ canceled = [t \in Thread |-> FALSE]
  /\ pc = [t \in Thread |-> "none"]
  /\ pump = [t \in Thread |-> <<>>]
  /\ todo = [t \in Thread |-> <<>>]
  /\ logging = [t \in Thread |-> "no"]
  /\ log_inited = FALSE /\ log_mutex = NoMutex
  /\ state = "idle" /\ filler = "none"
  /\ volume = DefaultVolume /\ stored \in Volume
  /\ acts = 0

-----------------------------------------------------------------------------
(* The initial thread.                                                     *)

(* Mutant: a thread runs as soon as it is created. *)
CreateRunning(t, next) ==
  /\ m_thread' = [m_thread EXCEPT ![t] = TRUE]
  /\ pc' = [pc EXCEPT ![t] = "pop"]
  /\ ipc' = next

(* WSThread::create() and __threadContext(): the thread waits for sync().  *)
(* A failure ends init(), but ThreadIO::init() overwrites that of its own. *)
Create(t, next) ==
  \/ /\ m_thread' = [m_thread EXCEPT ![t] = TRUE]
     /\ pc' = [pc EXCEPT ![t] = "sem"]
     /\ ipc' = next
  \/ /\ t \in MayFail
     /\ ipc' = IF t = "io" THEN next ELSE "failed"
     /\ UNCHANGED <<m_thread, pc>>

CreateThread ==
  /\ \/ ipc = "create_main" /\ Create("main", "create_io")
     \/ ipc = "create_io" /\ Create("io", "create_audio")
     \/ ipc = "create_audio" /\ Create("audio", "load")
  /\ UNCHANGED <<semaphore, known, canceled, pump, todo, log, audio, volume, stored, acts>>

(* m_config->load() reads the volume into the audio thread's members.      *)
LoadConfig ==
  /\ ipc = "load"
  /\ volume' = stored
  /\ ipc' = "ids"
  /\ UNCHANGED <<threads, pc, pump, todo, log, audio, stored, acts>>

(* EventLoop::init() *)
LearnIds ==
  /\ ipc = "ids"
  /\ known' = TRUE
  /\ ipc' = "sync_main"
  /\ UNCHANGED <<m_thread, semaphore, canceled, pc, pump, todo, log, audio, volume, stored, acts>>

(* Mutant: EventLoop::init() syncs the main thread for every thread. *)
SignalMain(t) == semaphore' = [semaphore EXCEPT !["main"] = @ + 1]

Signal(t) == semaphore' = [semaphore EXCEPT ![t] = @ + 1]

Sync ==
  /\ \/ ipc = "sync_main" /\ Signal("main") /\ ipc' = "sync_io"
     \/ ipc = "sync_io" /\ Signal("io") /\ ipc' = "sync_audio"
     \/ ipc = "sync_audio" /\ Signal("audio") /\ ipc' = "join_main"
  /\ UNCHANGED <<m_thread, known, canceled, pc, pump, todo, log, audio, volume, stored, acts>>

(* Mutant: nobody waits for the thread. *)
JoinNot(t, next) == ipc' = next

(* pthread_join(); without a thread the library follows a null pointer.    *)
Join(t, next) ==
  \/ m_thread[t] /\ pc[t] = "done" /\ ipc' = next
  \/ ~m_thread[t] /\ ipc' = "crashed"

JoinThread ==
  /\ \/ ipc = "join_main" /\ Join("main", "cancel_io")
     \/ ipc = "join_io" /\ Join("io", "cancel_audio")
     \/ ipc = "join_audio" /\ Join("audio", "store")
  /\ UNCHANGED <<threads, pc, pump, todo, log, audio, volume, stored, acts>>

Cancel ==
  /\ \/ ipc = "cancel_io" /\ ipc' = "join_io" /\ canceled' = [canceled EXCEPT !["io"] = TRUE]
     \/ ipc = "cancel_audio" /\ ipc' = "join_audio" /\ canceled' = [canceled EXCEPT !["audio"] = TRUE]
  /\ UNCHANGED <<m_thread, semaphore, known, pc, pump, todo, log, audio, volume, stored, acts>>

(* uninit(), whose store() is the last. *)
StoreConfig ==
  /\ ipc = "store"
  /\ stored' = volume
  /\ ipc' = "ended"
  /\ UNCHANGED <<threads, pc, pump, todo, log, audio, volume, acts>>

-----------------------------------------------------------------------------
(* What the threads have in common. The process ends with its initial      *)
(* thread, and all of them with it.                                        *)

Lives == ipc \notin {"failed", "crashed", "ended"}

Start(t) ==
  /\ pc[t] = "sem" /\ semaphore[t] > 0 /\ Lives
  /\ semaphore' = [semaphore EXCEPT ![t] = @ - 1]
  /\ pc' = [pc EXCEPT ![t] = "pop"]
  /\ UNCHANGED <<ipc, m_thread, known, canceled, pump, todo, log, audio, volume, stored, acts>>

(* ws_log::constructor(): log_inited is tested and, in log_init(), set     *)
(* first; the mutex is made last.                                          *)
LogTest(t) ==
  /\ pc[t] \in {"run", "turn"} /\ todo[t] # <<>> /\ Lives
  /\ Head(todo[t]) = Log
  /\ logging[t] = "no"
  /\ logging' = [logging EXCEPT ![t] = IF log_inited THEN "acquire" ELSE "make"]
  /\ log_inited' = TRUE
  /\ UNCHANGED <<ipc, threads, pc, pump, todo, log_mutex, audio, volume, stored, acts>>

LogMake(t) ==
  /\ logging[t] = "make" /\ Lives
  /\ log_mutex' = "free"
  /\ logging' = [logging EXCEPT ![t] = "acquire"]
  /\ UNCHANGED <<ipc, threads, pc, pump, todo, log_inited, audio, volume, stored, acts>>

LogAcquire(t) ==
  /\ logging[t] = "acquire" /\ log_mutex = "free" /\ Lives
  /\ log_mutex' = t
  /\ logging' = [logging EXCEPT ![t] = "write"]
  /\ UNCHANGED <<ipc, threads, pc, pump, todo, log_inited, audio, volume, stored, acts>>

(* The end of the statement: ~ws_log(). *)
LogRelease(t) ==
  /\ logging[t] = "write" /\ Lives
  /\ log_mutex' = "free"
  /\ logging' = [logging EXCEPT ![t] = "no"]
  /\ todo' = [todo EXCEPT ![t] = Tail(@)]
  /\ UNCHANGED <<ipc, threads, pc, pump, log_inited, audio, volume, stored, acts>>

Push(t) ==
  /\ pc[t] = "run" /\ todo[t] # <<>> /\ Lives
  /\ LET op == Head(todo[t]) IN
       /\ op.op = "push"
       /\ pump' = [pump EXCEPT ![op.to] = <<op.event>> \o @]
  /\ todo' = [todo EXCEPT ![t] = Tail(@)]
  /\ UNCHANGED <<ipc, threads, pc, log, audio, volume, stored, acts>>

(* A handler is followed by the look at m_canceled, a turn of the audio     *)
(* thread's machine by the next event.                                     *)
HandlerEnds(t) ==
  /\ pc[t] \in {"run", "turn"} /\ todo[t] = <<>> /\ Lives
  /\ pc' = [pc EXCEPT ![t] = IF @ = "run" THEN "check" ELSE "pop"]
  /\ UNCHANGED <<ipc, threads, pump, todo, log, audio, volume, stored, acts>>

PopEmpty(t) ==
  /\ pc[t] = "pop" /\ pump[t] = <<>> /\ Lives
  /\ pc' = [pc EXCEPT ![t] = "check"]
  /\ UNCHANGED <<ipc, threads, pump, todo, log, audio, volume, stored, acts>>

(* An event is popped and run; what it posts and the release() behind it   *)
(* are left to do.                                                         *)
Pop(t) ==
  /\ pc[t] = "pop" /\ pump[t] # <<>> /\ Lives
  /\ pc' = [pc EXCEPT ![t] = "run"]
  /\ pump' = [pump EXCEPT ![t] = Tail(@)]
  /\ LET e == Head(pump[t]) IN
       /\ todo' = [todo EXCEPT ![t] =
            (CASE e.kind = "query" -> Post("main", [kind |-> "loaded"])
               [] e.kind = "loaded" -> Post("audio", [kind |-> "run"])
               [] e.kind = "run" -> <<Log>>
               [] e.kind = "set" -> <<>>) \o <<Log>>]
       /\ state' = IF e.kind = "run" THEN "loading" ELSE state
       /\ filler' = IF e.kind = "run" THEN "none" ELSE filler
       /\ volume' = IF e.kind = "set" THEN e.volume ELSE volume
  /\ UNCHANGED <<ipc, threads, log, stored, acts>>

-----------------------------------------------------------------------------
(* app().idle() of the main thread: the user does something, or nothing.   *)
UserPosts(t, e) ==
  /\ pc["main"] = "check" /\ acts < MaxActs /\ Lives
  /\ acts' = acts + 1
  /\ pc' = [pc EXCEPT !["main"] = "run"]
  /\ todo' = [todo EXCEPT !["main"] = Post(t, e)]
  /\ UNCHANGED <<ipc, threads, pump, log, audio, volume, stored>>

UserIdle ==
  /\ pc["main"] = "check" /\ Lives
  /\ pc' = [pc EXCEPT !["main"] = "pop"]
  /\ UNCHANGED <<ipc, threads, pump, todo, log, audio, volume, stored, acts>>

CloseWindow ==
  /\ pc["main"] = "check" /\ Lives
  /\ pc' = [pc EXCEPT !["main"] = "done"]
  /\ UNCHANGED <<ipc, threads, pump, todo, log, audio, volume, stored, acts>>

IoCheck ==
  /\ pc["io"] = "check" /\ Lives
  /\ pc' = [pc EXCEPT !["io"] = IF canceled["io"] THEN "done" ELSE "pop"]
  /\ UNCHANGED <<ipc, threads, pump, todo, log, audio, volume, stored, acts>>

(* Where a turn of the audio thread's machine begins. *)
Turn == CASE state = "loading" -> "fork" [] state = "processing" -> "play" [] OTHER -> "pop"

(* onEndContext(): free_stream() kills the filler. *)
EndContext ==
  IF state = "terminating"
  THEN state' = "idle" /\ filler' = "none"
  ELSE UNCHANGED audio

(* Mutant: the audio thread looks at m_canceled only when it is idle. *)
AudioCheckIdle ==
  /\ pc["audio"] = "check" /\ Lives
  /\ IF canceled["audio"] /\ state = "idle"
     THEN pc' = [pc EXCEPT !["audio"] = "done"] /\ UNCHANGED audio
     ELSE pc' = [pc EXCEPT !["audio"] = Turn] /\ EndContext
  /\ UNCHANGED <<ipc, threads, pump, todo, log, volume, stored, acts>>

AudioCheck ==
  /\ pc["audio"] = "check" /\ Lives
  /\ IF canceled["audio"]
     THEN pc' = [pc EXCEPT !["audio"] = "done"] /\ UNCHANGED audio
     ELSE pc' = [pc EXCEPT !["audio"] = Turn] /\ EndContext
  /\ UNCHANGED <<ipc, threads, pump, todo, log, volume, stored, acts>>

(* onCreateContext() fails before the cache is enabled. *)
OpenFails ==
  /\ pc["audio"] = "fork" /\ Lives
  /\ state' = "terminating"
  /\ pc' = [pc EXCEPT !["audio"] = "turn"]
  /\ todo' = [todo EXCEPT !["audio"] = <<Log>>]
  /\ UNCHANGED <<ipc, threads, pump, log, filler, volume, stored, acts>>

(* fork() in stream_enable_cache(): the filler has a copy of the memory,   *)
(* the mutex of the log as it is held at this moment. A failing fork() is  *)
(* taken for the parent's branch.                                          *)
Fork ==
  /\ pc["audio"] = "fork" /\ Lives
  /\ \/ filler' = IF FillerLogs /\ log_mutex \in Thread THEN "waits" ELSE "fills"
     \/ ForkMayFail /\ filler' = "none"
  /\ pc' = [pc EXCEPT !["audio"] = "prefill"]
  /\ UNCHANGED <<ipc, threads, pump, todo, log, state, volume, stored, acts>>

(* The wait for the prefill, then the statement that logs its end; the     *)
(* demuxer, the codec or the device may be missing.                        *)
Prefilled ==
  /\ pc["audio"] = "prefill" /\ filler = "fills" /\ Lives
  /\ state' \in {"processing", "terminating"}
  /\ pc' = [pc EXCEPT !["audio"] = "turn"]
  /\ todo' = [todo EXCEPT !["audio"] = <<Log>>]
  /\ UNCHANGED <<ipc, threads, pump, log, filler, volume, stored, acts>>

(* onRunProcess(): audio is decoded or written, or there is none: because  *)
(* of an error, or at the end of the file.                                 *)
RunProcess ==
  /\ pc["audio"] = "play" /\ Lives
  /\ \/ pc' = [pc EXCEPT !["audio"] = "pop"] /\ UNCHANGED state
     \/ pc' = [pc EXCEPT !["audio"] = "pop"] /\ state' = "terminating"
     \/ pc' = [pc EXCEPT !["audio"] = "drain"] /\ UNCHANGED state
  /\ UNCHANGED <<ipc, threads, pump, todo, log, filler, volume, stored, acts>>

(* At the end of the file it waits until the device has played what it     *)
(* has, which may never be so: see SdlRing's DrainEnds.                    *)
Drained ==
  /\ pc["audio"] = "drain" /\ Lives
  /\ state' = "terminating"
  /\ pc' = [pc EXCEPT !["audio"] = "turn"]
  /\ todo' = [todo EXCEPT !["audio"] = <<Log>>]
  /\ UNCHANGED <<ipc, threads, pump, log, filler, volume, stored, acts>>

-----------------------------------------------------------------------------
InitialStep == CreateThread \/ LoadConfig \/ LearnIds \/ Sync \/ JoinThread \/ Cancel \/ StoreConfig

User ==
  \/ UserPosts("io", [kind |-> "query"])
  \/ \E v \in Volume : UserPosts("audio", [kind |-> "set", volume |-> v])
  \/ CloseWindow

ThreadStep(t) ==
  \/ Start(t) \/ LogTest(t) \/ LogMake(t) \/ LogRelease(t)
  \/ Push(t) \/ HandlerEnds(t) \/ PopEmpty(t) \/ Pop(t)
  \/ t = "main" /\ UserIdle
  \/ t = "io" /\ IoCheck
  \/ t = "audio" /\ (AudioCheck \/ OpenFails \/ Fork \/ Prefilled \/ RunProcess)

Next ==
  \/ InitialStep \/ User \/ Drained
  \/ \E t \in Thread : ThreadStep(t) \/ LogAcquire(t)

Spec == Init /\ [][Next]_vars

(* Nothing says that Drained comes. *)
FairSpec ==
  /\ Spec
  /\ WF_vars(InitialStep)
  /\ \A t \in Thread : WF_vars(ThreadStep(t)) /\ SF_vars(LogAcquire(t))

-----------------------------------------------------------------------------
TypeOK ==
  /\ ipc \in {"create_main", "create_io", "create_audio", "load", "ids", "sync_main", "sync_io",
              "sync_audio", "join_main", "cancel_io", "join_io", "cancel_audio", "join_audio",
              "store", "failed", "crashed", "ended"}
  /\ m_thread \in [Thread -> BOOLEAN]
  /\ semaphore \in [Thread -> 0 .. 1]
  /\ known \in BOOLEAN
  /\ canceled \in [Thread -> BOOLEAN]
  /\ pc \in [Thread -> {"none", "sem", "pop", "run", "turn", "check", "fork", "prefill", "play",
                        "drain", "done"}]
  /\ pump \in [Thread -> Seq(Event)]
  /\ todo \in [Thread -> Seq(Op)]
  /\ logging \in [Thread -> {"no", "make", "acquire", "write"}]
  /\ log_inited \in BOOLEAN
  /\ log_mutex \in {NoMutex, "free"} \union Thread
  /\ state \in {"idle", "loading", "processing", "terminating"}
  /\ filler \in {"none", "fills", "waits"}
  /\ volume \in Volume /\ stored \in Volume
  /\ acts \in 0 .. MaxActs

(* log_init() is no critical section, and yet only one thread is in it,    *)
(* and nobody takes the mutex before it is made: until the main thread has *)
(* logged, no other thread has had an event.                               *)
LogReady ==
  \A t \in Thread :
    /\ logging[t] = "make" => log_mutex = NoMutex /\ \A u \in Thread \ {t} : logging[u] = "no"
    /\ logging[t] \in {"acquire", "write"} => log_mutex # NoMutex
    /\ logging[t] = "write" => log_mutex = t

(* AssertThread() compares with ids that are known: no thread runs before  *)
(* EventLoop knows them and the configuration is loaded.                   *)
RunsInformed == \A t \in Thread : pc[t] \notin {"none", "sem"} => known

(* Openwsp::uninit() has the members of the threads to itself: no thread   *)
(* changes a setting while, or after, the configuration is stored.         *)
StoresAlone ==
  ipc \in {"store", "ended"} =>
    /\ \A t \in Thread : pc[t] = "done" /\ logging[t] = "no"
    /\ ipc = "ended" => stored = volume

(* Closing the window ends the program, whatever is in the pumps and       *)
(* whatever is loading or playing, unless the audio thread, at the end of  *)
(* the file, waits for ever for the device (threadaudio.cpp:353).          *)
ShutdownEnds == []<>(pc["audio"] # "drain") => (pc["main"] = "done" ~> ipc = "ended")

(* Closing the window ends the program. It does not: RunMainLoop() joins   *)
(* an audio thread that is in that wait and never sees m_canceled.         *)
ClosingEnds == pc["main"] = "done" ~> ipc = "ended"
==============================================================================
