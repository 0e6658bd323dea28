------------------------- MODULE MediaLoading_proofs -------------------------
(***************************************************************************)
(* What the audio thread holds is what it points to, on every path of a    *)
(* load, and what it plays is what the title says, for any channels,       *)
(* formats and number of clicks.                                           *)
(***************************************************************************)
EXTENDS MediaLoading, TLAPS

GuiTypeOK ==
  /\ pump \in [{"Main", "Io", "Audio"} -> Seq(Event)]
  /\ mpc \in {"pop", "idle", "done"}
  /\ ipc \in {"pop", "asking", "check", "done"}
  /\ query \in Channel \cup {NoChannel}
  /\ title \in Channel \cup {NoChannel}
  /\ asked \in 0 .. MaxRequests
  /\ astray \in BOOLEAN
  /\ ipc = "asking" => query \in Channel

(* The audio thread's part of the invariant. *)
AudioTypeOK ==
  /\ apc \in {"pop", "check", "state", "open", "cache", "demux", "codec", "device",
              "drain", "done"}
  /\ state \in State
  /\ filename \in Channel \cup {NoChannel}
  /\ file_format \in {"unknown", "audio", "playlist"}
  /\ stream \in Channel \cup {NoChannel}
  /\ demuxer \in Channel \cup {NoChannel}
  /\ ds_audio \in BOOLEAN /\ sh_audio \in BOOLEAN /\ audio_out \in BOOLEAN
  /\ held \in [Resource -> Nat]

(* What is held at each call of a load.                                    *)
Empty == stream = NoChannel /\ ~audio_out

HasStream == stream = filename /\ stream # NoChannel /\ ~audio_out
HasDemuxer == HasStream /\ demuxer # NoChannel /\ ds_audio /\ sh_audio

Stage ==
  /\ apc = "open" => Empty
  /\ apc = "cache" => HasStream /\ demuxer = NoChannel /\ held["filler"] = 0
  /\ apc = "demux" => HasStream /\ demuxer = NoChannel
  /\ apc = "codec" => HasDemuxer
  /\ apc = "device" => HasDemuxer /\ held["codec"] > 0
  /\ apc \in {"open", "cache", "demux", "codec", "device"} =>
       state = "LOADING" /\ filename # NoChannel

(* Between the calls: what the state of the machine says.                  *)
Between ==
  /\ state = "IDLE" => Empty
  /\ state = "LOADING" => filename # NoChannel
  /\ sh_audio /\ apc # "codec" => held["codec"] > 0

AInv ==
  /\ AudioTypeOK /\ PointersTell /\ ReleasedWhenIdle /\ PlaysWhole
  /\ Stage /\ Between

-----------------------------------------------------------------------------
(* Posting an event to a pump and taking the newest one keep its type.     *)
LEMMA Posted ==
  ASSUME GuiTypeOK, NEW t \in {"Main", "Io", "Audio"}, NEW kind, NEW c \in Channel,
         kind \in {"query", "loaded", "run", "message"}, PostEvent(t, kind, c)
  PROVE  pump' \in [{"Main", "Io", "Audio"} -> Seq(Event)]
<1>1. [kind |-> kind, channel |-> c] \in Event
  BY DEF Event
<1>2. <<[kind |-> kind, channel |-> c]>> \o pump[t] \in Seq(Event)
  BY <1>1 DEF GuiTypeOK
<1> QED
  BY <1>2 DEF PostEvent, GuiTypeOK

LEMMA Popped ==
  ASSUME GuiTypeOK, NEW t \in {"Main", "Io", "Audio"}, pump[t] # <<>>
  PROVE  /\ Head(pump[t]) \in Event
         /\ Head(pump[t]).channel \in Channel
         /\ Tail(pump[t]) \in Seq(Event)
<1>1. pump[t] \in Seq(Event)
  BY DEF GuiTypeOK
<1>2. Head(pump[t]) \in Event /\ Tail(pump[t]) \in Seq(Event)
  BY <1>1
<1> QED
  BY <1>2 DEF Event

(* The thread points to nothing and, but for codecs, holds nothing.        *)
Nothing ==
  /\ held \in [Resource -> Nat]
  /\ stream = NoChannel /\ demuxer = NoChannel
  /\ sh_audio = FALSE /\ audio_out = FALSE
  /\ held["stream"] = 0 /\ held["filler"] = 0
  /\ held["demuxer"] = 0 /\ held["device"] = 0

LEMMA NothingHeld ==
  ASSUME Nothing'
  PROVE  PointersTell' /\ ReleasedWhenIdle'
BY DEF Nothing, PointersTell, ReleasedWhenIdle, Resource

(* onEndContext() gives back all that the thread points to, once.          *)
LEMMA Ended ==
  ASSUME AudioTypeOK, PointersTell, sh_audio => held["codec"] > 0, onEndContext
  PROVE  Nothing'
<1>1. /\ Less("codec", sh_audio) \in Nat
      /\ Less("demuxer", demuxer # NoChannel) = 0
      /\ Less("device", audio_out) = 0
  BY DEF Less, AudioTypeOK, PointersTell, Resource
<1> DEFINE last == IF demuxer # NoChannel THEN demuxer ELSE stream
<1>2. last = stream
  BY DEF PointersTell
<1>3. /\ Less("stream", last # NoChannel) = 0
      /\ (IF last # NoChannel THEN 0 ELSE held["filler"]) = 0
  BY <1>2 DEF Less, AudioTypeOK, PointersTell, Resource
<1>4. held' = [held EXCEPT !["codec"] = Less("codec", sh_audio),
                           !["demuxer"] = 0, !["stream"] = 0,
                           !["filler"] = 0, !["device"] = 0]
  BY <1>1, <1>3 DEF onEndContext
<1> QED
  BY <1>1, <1>4 DEF onEndContext, AudioTypeOK, Resource, Nothing

-----------------------------------------------------------------------------
(* The initial state satisfies both parts of the invariant.                *)
LEMMA InitParts == Init => GuiTypeOK /\ AInv
<1> SUFFICES ASSUME Init
             PROVE  GuiTypeOK /\ AInv
  OBVIOUS
<1>1. GuiTypeOK
  <2>1. pump \in [{"Main", "Io", "Audio"} -> Seq(Event)]
    <3>1. <<>> \in Seq(Event)
      OBVIOUS
    <3> QED
      BY <3>1 DEF Init
  <2>2. asked \in 0 .. MaxRequests
    BY LoadingAssumption DEF Init
  <2> QED
    BY <2>1, <2>2 DEF Init, GuiTypeOK
<1>2. AudioTypeOK
  BY DEF Init, AudioTypeOK, State
<1>3. PointersTell
  BY DEF Init, PointersTell, Resource
<1>4. AInv
  BY <1>2, <1>3 DEF Init, AInv, ReleasedWhenIdle, PlaysWhole, Stage, Between
<1> QED
  BY <1>1, <1>4

(* The main and the I/O thread, and the user, keep the types of the events. *)
LEMMA GuiStep ==
  ASSUME GuiTypeOK, MainStep \/ User \/ IoStep
  PROVE  GuiTypeOK' /\ UNCHANGED <<apc, state, filename, context>>
<1> USE LoadingAssumption DEF GuiTypeOK
<1>1. CASE MainPopEmpty
  BY <1>1 DEF MainPopEmpty
<1>2. CASE MainRunEvent
  <2> DEFINE e == Head(pump["Main"])
             audio == IF e.kind = "loaded"
                      THEN <<[kind |-> "run", channel |-> e.channel]>> \o pump["Audio"]
                      ELSE pump["Audio"]
  <2>1. /\ Tail(pump["Main"]) \in Seq(Event)
        /\ e.channel \in Channel
    BY <1>2, Popped DEF MainRunEvent
  <2>2. audio \in Seq(Event)
    <3>1. [kind |-> "run", channel |-> e.channel] \in Event
      BY <2>1 DEF Event
    <3>2. <<[kind |-> "run", channel |-> e.channel]>> \o pump["Audio"] \in Seq(Event)
      BY <3>1
    <3> QED
      BY <3>2
  <2>3. pump' = [pump EXCEPT !["Main"] = Tail(pump["Main"]), !["Audio"] = audio]
    BY <1>2 DEF MainRunEvent
  <2>4. pump' \in [{"Main", "Io", "Audio"} -> Seq(Event)]
    <3> HIDE DEF audio
    <3> QED BY <2>1, <2>2, <2>3
  <2> QED
    BY <1>2, <2>4 DEF MainRunEvent
<1>3. CASE MainIdle
  BY <1>3 DEF MainIdle
<1>4. ASSUME NEW c \in Channel, LoadChannel(c)
      PROVE  GuiTypeOK' /\ UNCHANGED <<apc, state, filename, context>>
  <2>1. pump' \in [{"Main", "Io", "Audio"} -> Seq(Event)]
    BY <1>4, Posted DEF LoadChannel
  <2>2. asked' \in 0 .. MaxRequests
    BY <1>4 DEF LoadChannel
  <2>3. InFlight \in BOOLEAN
    BY DEF InFlight
  <2> QED
    BY <1>4, <2>1, <2>2, <2>3 DEF LoadChannel
<1>5. CASE CloseWindow
  BY <1>5 DEF CloseWindow
<1>6. CASE IoPopEmpty
  BY <1>6 DEF IoPopEmpty
<1>7. CASE IoQuery
  BY <1>7, Popped DEF IoQuery
<1>8. CASE IoAnswered
  <2>1. pump' \in [{"Main", "Io", "Audio"} -> Seq(Event)]
    BY <1>8, Posted DEF IoAnswered
  <2> QED
    BY <1>8, <2>1 DEF IoAnswered
<1>9. CASE IoFailed
  <2>1. pump' \in [{"Main", "Io", "Audio"} -> Seq(Event)]
    BY <1>9, Posted DEF IoFailed
  <2> QED
    BY <1>9, <2>1 DEF IoFailed
<1>10. CASE IoCheck
  BY <1>10 DEF IoCheck
<1> QED
  BY <1>1, <1>2, <1>3, <1>4, <1>5, <1>6, <1>7, <1>8, <1>9, <1>10 DEF MainStep, User, IoStep

-----------------------------------------------------------------------------
(* The steps of the audio thread that release.                             *)
LEMMA Releasing ==
  ASSUME GuiTypeOK, AInv, onLoadAudio \/ AudioTerminate \/ CreateContext
  PROVE  AInv'
<1> USE LoadingAssumption
<1>1. ASSUME onEndContext
      PROVE  Nothing'
  <2>1. apc # "codec"
    BY DEF onLoadAudio, AudioTerminate, CreateContext
  <2>2. sh_audio => held["codec"] > 0
    BY <2>1 DEF AInv, Between
  <2> QED
    BY <1>1, <2>2, Ended DEF AInv
<1>2. CASE onLoadAudio
  <2>1. filename' \in Channel
    BY <1>2, Popped DEF onLoadAudio
  <2>2. /\ state' = "LOADING" /\ apc' = "check" /\ file_format' = file_format
        /\ ds_audio' = ds_audio
    BY <1>2 DEF onLoadAudio
  <2>3. Nothing'
    <3>1. CASE state # "IDLE"
      BY <1>1, <1>2, <3>1 DEF onLoadAudio
    <3>2. CASE state = "IDLE"
      <4>1. /\ held' = held /\ stream' = stream /\ demuxer' = demuxer
            /\ sh_audio' = sh_audio /\ audio_out' = audio_out
        BY <1>2, <3>2 DEF onLoadAudio
      <4>2. stream = NoChannel /\ audio_out = FALSE
        BY <3>2 DEF AInv, AudioTypeOK, Between, Empty
      <4>3. demuxer = NoChannel /\ sh_audio = FALSE
        BY <4>2 DEF AInv, AudioTypeOK, PointersTell
      <4> QED
        BY <3>2, <4>1, <4>2, <4>3 DEF AInv, AudioTypeOK, ReleasedWhenIdle, Resource, Nothing
    <3> QED
      BY <3>1, <3>2
  <2>4. AudioTypeOK'
    BY <2>1, <2>2, <2>3 DEF AInv, AudioTypeOK, Nothing, State
  <2>5. PointersTell' /\ ReleasedWhenIdle'
    BY <2>3, NothingHeld
  <2>6. (PlaysWhole /\ Stage /\ Between)'
    BY <2>1, <2>2, <2>3 DEF PlaysWhole, Stage, Between, Nothing
  <2> QED
    BY <2>4, <2>5, <2>6 DEF AInv
<1>3. CASE AudioTerminate
  <2>1. /\ state' = "IDLE" /\ apc' = "pop" /\ file_format' = file_format
        /\ ds_audio' = ds_audio /\ filename' = filename
    BY <1>3 DEF AudioTerminate
  <2>2. Nothing'
    BY <1>1, <1>3 DEF AudioTerminate
  <2>3. AudioTypeOK'
    BY <2>1, <2>2 DEF AInv, AudioTypeOK, Nothing, State
  <2>4. PointersTell' /\ ReleasedWhenIdle'
    BY <2>2, NothingHeld
  <2>5. (PlaysWhole /\ Stage /\ Between)'
    BY <2>1, <2>2 DEF PlaysWhole, Stage, Between, Nothing, Empty
  <2> QED
    BY <2>3, <2>4, <2>5 DEF AInv
<1>4. CASE CreateContext
  <2>1. /\ state = "LOADING" /\ state' = "LOADING" /\ apc' = "open"
        /\ file_format' = file_format /\ ds_audio' = FALSE /\ filename' = filename
    BY <1>4 DEF CreateContext
  <2>2. Nothing'
    BY <1>1, <1>4 DEF CreateContext
  <2>3. AudioTypeOK'
    BY <2>1, <2>2 DEF AInv, AudioTypeOK, Nothing, State
  <2>4. PointersTell' /\ ReleasedWhenIdle'
    BY <2>2, NothingHeld
  <2>5. (PlaysWhole /\ Stage /\ Between)'
    BY <2>1, <2>2 DEF AInv, PlaysWhole, Stage, Between, Nothing, Empty
  <2> QED
    BY <2>3, <2>4, <2>5 DEF AInv
<1> QED
  BY <1>2, <1>3, <1>4

(* The steps of the audio thread that acquire, or fail to.                 *)
LEMMA Acquiring ==
  ASSUME AInv,
         \/ OpenStream \/ OpenStreamFails \/ EnableCache \/ EnableCacheFails
         \/ OpenDemuxer \/ OpenDemuxerFails \/ SetupCodec \/ SetupCodecFails
         \/ SetupDevice \/ SetupDeviceFails
  PROVE  AInv'
<1> USE LoadingAssumption DEF AInv, AudioTypeOK, PointersTell, ReleasedWhenIdle,
    PlaysWhole, Stage, Between, Empty, State, Resource, HasStream, HasDemuxer, Whole,
    Acquire, Fail
<1>1. CASE OpenStream
  BY <1>1 DEF OpenStream, Found, Cleared
<1>2. CASE OpenStreamFails
  BY <1>2 DEF OpenStreamFails, Found, Cleared
<1>3. CASE EnableCache
  BY <1>3 DEF EnableCache
<1>4. CASE EnableCacheFails
  BY <1>4 DEF EnableCacheFails, context
<1>5. CASE OpenDemuxer
  <2>1. /\ stream' = stream /\ demuxer' = stream /\ demuxer = NoChannel
        /\ stream \in Channel /\ stream = filename
        /\ ds_audio' = TRUE /\ audio_out' = audio_out /\ audio_out = FALSE
        /\ filename' = filename /\ file_format' = file_format
        /\ held' = [held EXCEPT !["demuxer"] = held["demuxer"] + 1]
        /\ held["demuxer"] = 0 /\ state = "LOADING"
    BY <1>5 DEF OpenDemuxer
  <2>2a. held' \in [Resource -> Nat] /\ held'["demuxer"] = 1
         /\ \A r \in Resource \ {"demuxer"} : held'[r] = held[r]
    BY <2>1
  <2>2b. PointersTell'
    BY <2>1, <2>2a
  <2>2c. AudioTypeOK'
    BY <1>5, <2>1, <2>2a DEF OpenDemuxer
  <2>3. \/ sh_audio' = TRUE /\ apc' = "codec" /\ state' = "LOADING"
        \/ sh_audio' = FALSE /\ apc' = "pop" /\ state' = "TERMINATING"
    BY <1>5, <2>1 DEF OpenDemuxer
  <2>4. (ReleasedWhenIdle /\ PlaysWhole)'
    BY <2>3
  <2>5. (Stage /\ Between)'
    BY <2>1, <2>3
  <2> QED
    BY <2>2b, <2>2c, <2>4, <2>5
<1>6. CASE OpenDemuxerFails
  BY <1>6 DEF OpenDemuxerFails, context
<1>7. CASE SetupCodec
  BY <1>7 DEF SetupCodec
<1>8. CASE SetupCodecFails
  BY <1>8 DEF SetupCodecFails
<1>9. CASE SetupDevice
  BY <1>9 DEF SetupDevice
<1>10. CASE SetupDeviceFails
  BY <1>10 DEF SetupDeviceFails
<1> QED
  BY <1>1, <1>2, <1>3, <1>4, <1>5, <1>6, <1>7, <1>8, <1>9, <1>10

(* The steps of the audio thread that only move on.                        *)
LEMMA Moving ==
  ASSUME AInv, UNCHANGED <<filename, context>>,
         \/ apc' = apc /\ state' = state
         \/ AudioPopEmpty \/ AudioCheck \/ AudioIdle \/ RunProcess \/ Drained
  PROVE  AInv'
<1> USE DEF AInv, AudioTypeOK, PointersTell, ReleasedWhenIdle, PlaysWhole, Stage,
    Between, Empty, State, Resource, HasStream, HasDemuxer, Whole, context, Fail
<1>1. CASE apc' = apc /\ state' = state
  BY <1>1
<1>2. CASE AudioPopEmpty
  BY <1>2 DEF AudioPopEmpty
<1>3. CASE AudioCheck
  BY <1>3 DEF AudioCheck
<1>4. CASE AudioIdle
  BY <1>4 DEF AudioIdle
<1>5. CASE RunProcess
  BY <1>5 DEF RunProcess
<1>6. CASE Drained
  BY <1>6 DEF Drained
<1> QED
  BY <1>1, <1>2, <1>3, <1>4, <1>5, <1>6

-----------------------------------------------------------------------------
(* Every step of the three threads and of the user keeps the invariant.    *)
THEOREM NextParts == GuiTypeOK /\ AInv /\ [Next]_vars => GuiTypeOK' /\ AInv'
<1> SUFFICES ASSUME GuiTypeOK, AInv, [Next]_vars
             PROVE  GuiTypeOK' /\ AInv'
  OBVIOUS
<1>1. CASE MainStep \/ User \/ IoStep
  BY <1>1, GuiStep, Moving
<1>2. CASE onLoadAudio
  <2>1. pump' \in [{"Main", "Io", "Audio"} -> Seq(Event)]
    BY <1>2, Popped DEF onLoadAudio, GuiTypeOK
  <2>2. GuiTypeOK'
    BY <1>2, <2>1 DEF onLoadAudio, GuiTypeOK
  <2> QED
    BY <1>2, <2>2, Releasing
<1>3. CASE AudioTerminate \/ CreateContext
  <2>1. UNCHANGED gui
    BY <1>3 DEF AudioTerminate, CreateContext
  <2> QED
    BY <1>3, <2>1, Releasing DEF gui, GuiTypeOK
<1>4. CASE AudioPopEmpty \/ AudioCheck \/ AudioIdle \/ RunProcess \/ Drained
  <2>1. UNCHANGED <<gui, filename, context>>
    BY <1>4 DEF AudioPopEmpty, AudioCheck, AudioIdle, RunProcess, Drained
  <2> QED
    BY <1>4, <2>1, Moving DEF gui, GuiTypeOK
<1>5. CASE Load
  <2>1. UNCHANGED gui
    BY <1>5 DEF Load, CreateContext, OpenStream, OpenStreamFails, EnableCache,
       EnableCacheFails, OpenDemuxer, OpenDemuxerFails, SetupCodec, SetupCodecFails,
       SetupDevice, SetupDeviceFails
  <2>2. GuiTypeOK'
    BY <2>1 DEF gui, GuiTypeOK
  <2> QED
    BY <1>5, <2>2, Releasing, Acquiring DEF Load
<1>6. CASE UNCHANGED vars
  <2>1. UNCHANGED <<gui, apc, state, filename, context>>
    BY <1>6 DEF vars
  <2> QED
    BY <2>1, Moving DEF gui, GuiTypeOK
<1> QED
  BY <1>1, <1>2, <1>3, <1>4, <1>5, <1>6 DEF Next, AudioStep, Terminated

(* Both parts hold always.                                                 *)
THEOREM SpecParts == Spec => [](GuiTypeOK /\ AInv)
BY InitParts, NextParts, PTL DEF Spec

(* Every variable keeps its type; in particular nothing is released that   *)
(* is not held, whatever fails.                                            *)
THEOREM SpecTypeOK == Spec => []TypeOK
<1>1. GuiTypeOK /\ AInv => TypeOK
  BY DEF GuiTypeOK, AInv, AudioTypeOK, TypeOK
<1> QED
  BY <1>1, SpecParts, PTL

(* The pointers of the audio thread tell what it holds.                    *)
THEOREM SpecPointersTell == Spec => []PointersTell
<1>1. GuiTypeOK /\ AInv => PointersTell
  BY DEF AInv
<1> QED
  BY <1>1, SpecParts, PTL

(* An idle audio thread has given back stream, filler, demuxer and device. *)
THEOREM SpecReleasedWhenIdle == Spec => []ReleasedWhenIdle
<1>1. GuiTypeOK /\ AInv => ReleasedWhenIdle
  BY DEF AInv
<1> QED
  BY <1>1, SpecParts, PTL

(* Processing never meets an incomplete chain.                             *)
THEOREM SpecPlaysWhole == Spec => []PlaysWhole
<1>1. GuiTypeOK /\ AInv => PlaysWhole
  BY DEF AInv
<1> QED
  BY <1>1, SpecParts, PTL

-----------------------------------------------------------------------------
(* The way of a click. A list is quiet when all its events are messages,   *)
(* and lone when all but one are, which carries channel c.                 *)
Quiet(s) == \A i \in 1 .. Len(s) : s[i].kind = "message"
Lone(s, c) ==
  \E k \in 1 .. Len(s) :
    /\ s[k].kind # "message" /\ s[k].channel = c
    /\ \A i \in 1 .. Len(s) : i # k => s[i].kind = "message"

Pump == {"Main", "Io", "Audio"}
OfKind(s, K) == \A i \in 1 .. Len(s) : s[i].kind \in K
Kinds ==
  /\ OfKind(pump["Main"], {"loaded", "message"})
  /\ OfKind(pump["Io"], {"query"})
  /\ OfKind(pump["Audio"], {"run"})

(* A click that met no other is at one place at a time, and that place     *)
(* knows the channel of the title.                                         *)
Settled ==
  /\ \A t \in Pump : Quiet(pump[t])
  /\ query = NoChannel /\ state # "LOADING"
  /\ state = "PROCESSING" => filename = title
WaitsIn(t) ==
  /\ Lone(pump[t], title) /\ \A u \in Pump : u # t => Quiet(pump[u])
  /\ query = NoChannel /\ state # "LOADING"
Asked ==
  /\ \A t \in Pump : Quiet(pump[t])
  /\ query = title /\ query # NoChannel /\ state # "LOADING"
Loading ==
  /\ \A t \in Pump : Quiet(pump[t])
  /\ query = NoChannel /\ state = "LOADING" /\ filename = title

OneWay ==
  ~astray => Settled \/ (\E t \in Pump : WaitsIn(t)) \/ Asked \/ Loading

NInv == Kinds /\ OneWay

(* What posting an event does to a list. *)
LEMMA PushedList ==
  ASSUME NEW s \in Seq(Event), NEW e \in Event
  PROVE  LET p == <<e>> \o s IN
         /\ e.kind = "message" /\ Quiet(s) => Quiet(p)
         /\ e.kind # "message" /\ Quiet(s) => Lone(p, e.channel)
         /\ \A c : e.kind = "message" /\ Lone(s, c) => Lone(p, c)
         /\ \A K : e.kind \in K /\ OfKind(s, K) => OfKind(p, K)
<1> DEFINE p == <<e>> \o s
<1>1. /\ Len(s) \in Nat /\ Len(p) = Len(s) + 1 /\ p[1] = e
      /\ \A i \in 1 .. Len(p) : i # 1 => i - 1 \in 1 .. Len(s) /\ p[i] = s[i - 1]
      /\ \A i \in 1 .. Len(s) : i + 1 \in 1 .. Len(p) /\ i + 1 # 1 /\ p[i + 1] = s[i]
  OBVIOUS
<1> HIDE DEF p
<1>2. e.kind = "message" /\ Quiet(s) => Quiet(p)
  BY <1>1 DEF Quiet
<1>3. ASSUME e.kind # "message", Quiet(s)
      PROVE  Lone(p, e.channel)
  <2>1. 1 \in 1 .. Len(p)
    BY <1>1
  <2>2. \A i \in 1 .. Len(p) : 1 # i => p[i].kind = "message"
    BY <1>1, <1>3 DEF Quiet
  <2> QED
    BY <1>1, <1>3, <2>1, <2>2 DEF Lone
<1>4. ASSUME NEW c, e.kind = "message", Lone(s, c)
      PROVE  Lone(p, c)
  <2>1. PICK k \in 1 .. Len(s) :
          /\ s[k].kind # "message" /\ s[k].channel = c
          /\ \A i \in 1 .. Len(s) : i # k => s[i].kind = "message"
    BY <1>4 DEF Lone
  <2>2. ASSUME NEW i \in 1 .. Len(p), i # k + 1
        PROVE  p[i].kind = "message"
    <3>1. CASE i = 1
      BY <1>1, <1>4, <3>1
    <3>2. CASE i # 1
      <4>1. i - 1 \in 1 .. Len(s) /\ i - 1 # k /\ p[i] = s[i - 1]
        BY <1>1, <2>2, <3>2
      <4> QED
        BY <2>1, <4>1
    <3> QED
      BY <3>1, <3>2
  <2>3. k + 1 \in 1 .. Len(p) /\ p[k + 1] = s[k]
    BY <1>1
  <2> QED
    BY <2>1, <2>2, <2>3 DEF Lone
<1>5. ASSUME NEW K, e.kind \in K, OfKind(s, K)
      PROVE  OfKind(p, K)
  BY <1>1, <1>5 DEF OfKind
<1> QED
  BY <1>2, <1>3, <1>4, <1>5 DEF p

(* What taking the newest event does to a list. *)
LEMMA PoppedList ==
  ASSUME NEW s \in Seq(Event), s # <<>>
  PROVE  /\ Quiet(s) => Head(s).kind = "message" /\ Quiet(Tail(s))
         /\ \A c : Lone(s, c) =>
              IF Head(s).kind = "message" THEN Lone(Tail(s), c)
              ELSE Head(s).channel = c /\ Quiet(Tail(s))
         /\ \A K : OfKind(s, K) => Head(s).kind \in K /\ OfKind(Tail(s), K)
<1> DEFINE h == Head(s)
           r == Tail(s)
<1>1. /\ Len(s) \in Nat /\ 1 \in 1 .. Len(s) /\ h = s[1] /\ Len(r) = Len(s) - 1
      /\ \A i \in 1 .. Len(r) : i + 1 \in 1 .. Len(s) /\ i + 1 # 1 /\ r[i] = s[i + 1]
      /\ \A i \in 1 .. Len(s) : i # 1 => i - 1 \in 1 .. Len(r) /\ r[i - 1] = s[i]
  OBVIOUS
<1> HIDE DEF h, r
<1>2. Quiet(s) => h.kind = "message" /\ Quiet(r)
  BY <1>1 DEF Quiet
<1>3. ASSUME NEW c, Lone(s, c)
      PROVE  IF h.kind = "message" THEN Lone(r, c) ELSE h.channel = c /\ Quiet(r)
  <2>1. PICK k \in 1 .. Len(s) :
          /\ s[k].kind # "message" /\ s[k].channel = c
          /\ \A i \in 1 .. Len(s) : i # k => s[i].kind = "message"
    BY <1>3 DEF Lone
  <2>2. CASE k = 1
    BY <1>1, <2>1, <2>2 DEF Quiet
  <2>3. CASE k # 1
    <3>1. k - 1 \in 1 .. Len(r) /\ r[k - 1] = s[k] /\ h.kind = "message"
      BY <1>1, <2>1, <2>3
    <3>2. ASSUME NEW i \in 1 .. Len(r), i # k - 1
          PROVE  r[i].kind = "message"
      <4>1. i + 1 \in 1 .. Len(s) /\ i + 1 # k /\ r[i] = s[i + 1]
        BY <1>1, <3>2
      <4> QED
        BY <2>1, <4>1
    <3>3. Lone(r, c)
      BY <2>1, <3>1, <3>2 DEF Lone
    <3> QED
      BY <3>1, <3>3
  <2> QED
    BY <2>2, <2>3
<1>4. ASSUME NEW K, OfKind(s, K)
      PROVE  h.kind \in K /\ OfKind(r, K)
  BY <1>1, <1>4 DEF OfKind
<1> QED
  BY <1>2, <1>3, <1>4 DEF h, r

(* With nothing on its way the lists are quiet. *)
LEMMA NothingInFlight ==
  ASSUME ~InFlight, GuiTypeOK
  PROVE  (\A t \in Pump : Quiet(pump[t])) /\ query = NoChannel /\ state # "LOADING"
<1>1. DOMAIN pump = Pump
  BY DEF GuiTypeOK, Pump
<1> QED
  BY <1>1 DEF InFlight, Carries, Quiet

(* The steps of the audio thread that post and take nothing: a load ends   *)
(* with the channel it was asked for, or with none.                        *)
LEMMA StateMoves ==
  ASSUME NInv, UNCHANGED <<pump, query, title, astray, filename>>,
         state' = "LOADING" => state = "LOADING",
         state' = "PROCESSING" => state \in {"PROCESSING", "LOADING"}
  PROVE  NInv'
<1>1. Kinds'
  BY DEF NInv, Kinds
<1>2. OneWay'
  BY DEF NInv, OneWay, Settled, WaitsIn, Asked, Loading, Quiet, Lone
<1> QED
  BY <1>1, <1>2 DEF NInv

(* A click. *)
LEMMA LoadChannelNInv ==
  ASSUME GuiTypeOK, NInv, NEW c \in Channel, LoadChannel(c)
  PROVE  NInv'
<1> DEFINE e == [kind |-> "query", channel |-> c]
<1>1. e \in Event /\ e.kind = "query" /\ e.channel = c /\ pump["Io"] \in Seq(Event)
  BY DEF Event, GuiTypeOK
<1>2. /\ pump'["Io"] = <<e>> \o pump["Io"]
      /\ pump'["Main"] = pump["Main"] /\ pump'["Audio"] = pump["Audio"]
      /\ title' = c /\ astray' = InFlight /\ UNCHANGED <<query, state, filename>>
  BY DEF LoadChannel, PostEvent, GuiTypeOK
<1> HIDE DEF e
<1>3. Kinds'
  <2>1. OfKind(pump'["Io"], {"query"})
    BY <1>1, <1>2, PushedList DEF NInv, Kinds
  <2> QED
    BY <1>2, <2>1 DEF NInv, Kinds
<1>4. ASSUME ~InFlight
      PROVE  WaitsIn("Io")'
  <2>1. (\A t \in Pump : Quiet(pump[t])) /\ query = NoChannel /\ state # "LOADING"
    BY <1>4, NothingInFlight
  <2>2. Lone(pump'["Io"], c)
    BY <1>1, <1>2, <2>1, PushedList DEF Pump
  <2> QED
    BY <1>2, <2>1, <2>2 DEF WaitsIn, Pump
<1>5. OneWay'
  BY <1>2, <1>4 DEF OneWay, Pump
<1> QED
  BY <1>3, <1>5 DEF NInv

(* The main thread hands the URL on to the audio thread. *)
LEMMA MainRunEventNInv ==
  ASSUME GuiTypeOK, NInv, MainRunEvent
  PROVE  NInv'
<1> DEFINE e == Head(pump["Main"])
           f == [kind |-> "run", channel |-> e.channel]
<1>1. /\ pump["Main"] \in Seq(Event) /\ pump["Main"] # <<>> /\ e.channel \in Channel
      /\ pump["Audio"] \in Seq(Event)
  BY Popped DEF MainRunEvent, GuiTypeOK
<1>2. f \in Event /\ f.kind = "run" /\ f.channel = e.channel
  BY <1>1 DEF Event
<1>3. /\ pump'["Main"] = Tail(pump["Main"]) /\ pump'["Io"] = pump["Io"]
      /\ pump'["Audio"] = IF e.kind = "loaded" THEN <<f>> \o pump["Audio"]
                          ELSE pump["Audio"]
      /\ UNCHANGED <<query, title, astray, state, filename>>
  BY DEF MainRunEvent, GuiTypeOK
<1>4. /\ e.kind \in {"loaded", "message"}
      /\ OfKind(pump'["Main"], {"loaded", "message"})
  BY <1>1, <1>3, PoppedList DEF NInv, Kinds
<1>5. Quiet(pump["Main"]) => e.kind = "message" /\ Quiet(pump'["Main"])
  BY <1>1, <1>3, PoppedList
<1>6. Lone(pump["Main"], title) =>
        IF e.kind = "message" THEN Lone(pump'["Main"], title)
        ELSE e.channel = title /\ Quiet(pump'["Main"])
  BY <1>1, <1>3, PoppedList
<1> HIDE DEF e, f
<1>7. Kinds'
  <2>1. OfKind(pump'["Audio"], {"run"})
    BY <1>1, <1>2, <1>3, PushedList DEF NInv, Kinds
  <2> QED
    BY <1>3, <1>4, <2>1 DEF NInv, Kinds
<1>8. CASE e.kind = "message"
  <2>1. pump'["Audio"] = pump["Audio"]
    BY <1>3, <1>8
  <2>2. \A t \in Pump : Quiet(pump[t]) => Quiet(pump'[t])
    BY <1>3, <1>5, <2>1 DEF Pump
  <2>3. \A t \in Pump : Lone(pump[t], title) => Lone(pump'[t], title)
    BY <1>3, <1>6, <1>8, <2>1 DEF Pump
  <2> QED
    BY <1>3, <1>7, <2>2, <2>3 DEF NInv, OneWay, Settled, WaitsIn, Asked, Loading
<1>9. CASE e.kind = "loaded"
  <2>1. SUFFICES ASSUME ~astray
                 PROVE  WaitsIn("Audio")'
    BY <1>3, <1>7 DEF NInv, OneWay, Pump
  <2>2. WaitsIn("Main")
    BY <1>5, <1>9, <2>1 DEF NInv, OneWay, Settled, WaitsIn, Asked, Loading, Pump
  <2>3. Lone(pump'["Audio"], title)
    <3>1. Quiet(pump["Audio"]) /\ e.channel = title
      BY <1>6, <1>9, <2>2 DEF WaitsIn, Pump
    <3>2. Lone(<<f>> \o pump["Audio"], f.channel)
      BY <1>1, <1>2, <3>1, PushedList
    <3> QED
      BY <1>2, <1>3, <1>9, <3>1, <3>2
  <2>4. Quiet(pump'["Main"]) /\ Quiet(pump'["Io"])
    BY <1>3, <1>6, <1>9, <2>2 DEF WaitsIn, Pump
  <2> QED
    BY <1>3, <2>2, <2>3, <2>4 DEF WaitsIn, Pump
<1> QED
  BY <1>4, <1>8, <1>9

(* The I/O thread takes the query of the click. *)
LEMMA IoQueryNInv ==
  ASSUME GuiTypeOK, NInv, IoQuery
  PROVE  NInv'
<1> DEFINE e == Head(pump["Io"])
<1>1. pump["Io"] \in Seq(Event) /\ pump["Io"] # <<>> /\ e.channel \in Channel
  BY Popped DEF IoQuery, GuiTypeOK
<1>2. /\ pump'["Io"] = Tail(pump["Io"]) /\ query' = e.channel
      /\ pump'["Main"] = pump["Main"] /\ pump'["Audio"] = pump["Audio"]
      /\ UNCHANGED <<title, astray, state, filename>>
  BY DEF IoQuery, GuiTypeOK
<1>3. /\ e.kind = "query"
      /\ OfKind(pump'["Io"], {"query"})
  BY <1>1, <1>2, PoppedList DEF NInv, Kinds
<1>4. Quiet(pump["Io"]) => e.kind = "message"
  BY <1>1, PoppedList
<1>5. Lone(pump["Io"], title) => e.channel = title /\ Quiet(pump'["Io"])
  BY <1>1, <1>2, <1>3, PoppedList
<1> HIDE DEF e
<1>6. Kinds'
  BY <1>2, <1>3 DEF NInv, Kinds
<1>7. ASSUME ~astray
      PROVE  Asked'
  <2>1. WaitsIn("Io")
    BY <1>3, <1>4, <1>7 DEF NInv, OneWay, Settled, WaitsIn, Asked, Loading, Pump
  <2>2. Quiet(pump'["Io"]) /\ query' = title
    BY <1>2, <1>5, <2>1 DEF WaitsIn
  <2>3. query' # NoChannel
    BY <1>1, <1>2, LoadingAssumption
  <2> QED
    BY <1>2, <2>1, <2>2, <2>3 DEF WaitsIn, Asked, Pump
<1> QED
  BY <1>2, <1>6, <1>7 DEF NInv, OneWay

(* The web service has answered, or not. *)
LEMMA IoAnswerNInv ==
  ASSUME GuiTypeOK, NInv, IoAnswered \/ IoFailed
  PROVE  NInv'
<1>1. PICK kind \in {"loaded", "message"} :
        /\ PostEvent("Main", kind, query)
        /\ kind = "message" => astray'
        /\ kind = "loaded" => astray' = astray
  BY DEF IoAnswered, IoFailed
<1> DEFINE e == [kind |-> kind, channel |-> query]
<1>2. /\ query \in Channel /\ query # NoChannel /\ query' = NoChannel
      /\ UNCHANGED <<title, state, filename>>
  BY LoadingAssumption DEF IoAnswered, IoFailed, GuiTypeOK
<1>3. e \in Event /\ e.kind = kind /\ e.channel = query /\ pump["Main"] \in Seq(Event)
  BY <1>2 DEF Event, GuiTypeOK
<1>4. /\ pump'["Main"] = <<e>> \o pump["Main"]
      /\ pump'["Io"] = pump["Io"] /\ pump'["Audio"] = pump["Audio"]
  BY <1>1 DEF PostEvent, GuiTypeOK
<1> HIDE DEF e
<1>5. Kinds'
  <2>1. OfKind(pump'["Main"], {"loaded", "message"})
    BY <1>3, <1>4, PushedList DEF NInv, Kinds
  <2> QED
    BY <1>4, <2>1 DEF NInv, Kinds
<1>6. ASSUME ~astray'
      PROVE  WaitsIn("Main")'
  <2>1. kind = "loaded" /\ ~astray
    BY <1>1, <1>6
  <2>2. Asked
    BY <1>2, <2>1 DEF NInv, OneWay, Settled, WaitsIn, Asked, Loading
  <2>3. Lone(pump'["Main"], title)
    <3>1. Quiet(pump["Main"]) /\ query = title
      BY <2>2 DEF Asked, Pump
    <3>2. Lone(<<e>> \o pump["Main"], e.channel)
      BY <1>3, <2>1, <3>1, PushedList
    <3> QED
      BY <1>3, <1>4, <3>1, <3>2
  <2> QED
    BY <1>2, <1>4, <2>2, <2>3 DEF Asked, WaitsIn, Pump
<1> QED
  BY <1>5, <1>6 DEF NInv, OneWay, Pump

(* The audio thread takes the URL of the click. *)
LEMMA onLoadAudioNInv ==
  ASSUME GuiTypeOK, NInv, onLoadAudio
  PROVE  NInv'
<1> DEFINE e == Head(pump["Audio"])
<1>1. pump["Audio"] \in Seq(Event) /\ pump["Audio"] # <<>>
  BY DEF onLoadAudio, GuiTypeOK
<1>2. /\ pump'["Audio"] = Tail(pump["Audio"])
      /\ pump'["Main"] = pump["Main"] /\ pump'["Io"] = pump["Io"]
      /\ filename' = e.channel /\ state' = "LOADING"
      /\ UNCHANGED <<query, title, astray>>
  BY DEF onLoadAudio, GuiTypeOK
<1>3. /\ e.kind = "run"
      /\ OfKind(pump'["Audio"], {"run"})
  BY <1>1, <1>2, PoppedList DEF NInv, Kinds
<1>4. Quiet(pump["Audio"]) => e.kind = "message"
  BY <1>1, PoppedList
<1>5. Lone(pump["Audio"], title) => e.channel = title /\ Quiet(pump'["Audio"])
  BY <1>1, <1>2, <1>3, PoppedList
<1> HIDE DEF e
<1>6. Kinds'
  BY <1>2, <1>3 DEF NInv, Kinds
<1>7. ASSUME ~astray
      PROVE  Loading'
  <2>1. WaitsIn("Audio")
    BY <1>3, <1>4, <1>7 DEF NInv, OneWay, Settled, WaitsIn, Asked, Loading, Pump
  <2> QED
    BY <1>2, <1>5, <2>1 DEF WaitsIn, Loading, Pump
<1> QED
  BY <1>2, <1>6, <1>7 DEF NInv, OneWay

THEOREM NextNInv == GuiTypeOK /\ AInv /\ NInv /\ [Next]_vars => NInv'
<1> SUFFICES ASSUME GuiTypeOK, AInv, NInv, [Next]_vars
             PROVE  NInv'
  OBVIOUS
<1>1. ASSUME NEW c \in Channel, LoadChannel(c)
      PROVE  NInv'
  BY <1>1, LoadChannelNInv
<1>2. CASE MainRunEvent \/ IoQuery \/ IoAnswered \/ IoFailed \/ onLoadAudio
  BY <1>2, MainRunEventNInv, IoQueryNInv, IoAnswerNInv, onLoadAudioNInv
<1>3. CASE \/ MainPopEmpty \/ MainIdle \/ CloseWindow \/ IoPopEmpty \/ IoCheck
           \/ AudioPopEmpty \/ AudioCheck \/ AudioIdle \/ UNCHANGED vars
  <2>1. UNCHANGED <<pump, query, title, astray, filename, state>>
    BY <1>3 DEF MainPopEmpty, MainIdle, CloseWindow, IoPopEmpty, IoCheck, AudioPopEmpty,
       AudioCheck, AudioIdle, vars, gui
  <2> QED
    BY <2>1, StateMoves
<1>4. CASE AudioTerminate \/ RunProcess \/ Drained
  <2>1. /\ UNCHANGED <<pump, query, title, astray, filename>>
        /\ state' \in {"IDLE", "TERMINATING"} \/ state' = state
    BY <1>4 DEF AudioTerminate, RunProcess, Drained, Fail, gui
  <2> QED
    BY <2>1, StateMoves
<1>5. CASE Load
  <2>1. /\ UNCHANGED <<pump, query, title, astray, filename>>
        /\ \/ state' = "TERMINATING" \/ state' = state
           \/ state' = "PROCESSING" /\ apc = "device"
    BY <1>5 DEF Load, CreateContext, OpenStream, OpenStreamFails, EnableCache,
       EnableCacheFails, OpenDemuxer, OpenDemuxerFails, SetupCodec, SetupCodecFails,
       SetupDevice, SetupDeviceFails, Fail, gui
  <2>2. apc = "device" => state = "LOADING"
    BY DEF AInv, Stage
  <2> QED
    BY <2>1, <2>2, StateMoves
<1> QED
  BY <1>1, <1>2, <1>3, <1>4, <1>5
     DEF Next, MainStep, User, IoStep, AudioStep, Terminated

(* The title of the main dialog and the sound agree: once nothing is on    *)
(* its way and no click was overtaken or refused, the channel that plays   *)
(* is the one whose title is shown, for any channels and clicks.           *)
THEOREM SpecPlaysNewest == Spec => []PlaysNewest
<1>1. Init => NInv
  BY DEF Init, NInv, Kinds, OfKind, OneWay, Settled, Quiet, Pump
<1>2. GuiTypeOK /\ AInv /\ NInv => PlaysNewest
  <2> SUFFICES ASSUME GuiTypeOK, AInv, NInv, state = "PROCESSING", ~InFlight, ~astray
               PROVE  stream = title
    BY DEF PlaysNewest
  <2>1. (\A t \in Pump : Quiet(pump[t])) /\ query = NoChannel
    BY NothingInFlight
  <2>2. \A t \in Pump : ~Lone(pump[t], title)
    BY <2>1 DEF Quiet, Lone
  <2>3. filename = title
    BY <2>1, <2>2 DEF NInv, OneWay, Settled, WaitsIn, Asked, Loading
  <2> QED
    BY <2>3 DEF AInv, PlaysWhole
<1> QED
  BY <1>1, <1>2, SpecParts, NextNInv, PTL DEF Spec
==============================================================================
