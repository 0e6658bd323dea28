----------------------------- MODULE MediaLoading -----------------------------
(***************************************************************************)
(* How a click on a channel becomes sound: GuiMain::loadChannel and its    *)
(* events (logics.cpp) in the main and the I/O thread, and the state       *)
(* machine of the audio thread (threadaudio.cpp) with what it acquires and *)
(* releases on every path of a load.                                       *)
(*                                                                         *)
(* A pump is the list of its events, newest first; that push and pop are   *)
(* atomic is what EventPump shows. The steps of a load that may block are  *)
(* steps of the model, each with its failure. held counts what is really   *)
(* acquired, apart from the pointers that the thread has to it.            *)
(***************************************************************************)
EXTENDS Naturals, Sequences

CONSTANTS
  Channel,
  Playlist,    \* channels whose server answers with a playlist's MIME type
  Plain,       \* channels whose stream tells no format
  NoChannel,
  MaxRequests  \* bound: clicks of the user

ASSUME LoadingAssumption ==
  /\ Playlist \subseteq Channel /\ Plain \subseteq Channel
  /\ Playlist \cap Plain = {}
  /\ NoChannel \notin Channel
  /\ MaxRequests \in Nat

VARIABLES
  pump,         \* pump[t]: the events waiting for thread t
  mpc, ipc,     \* where the main and the I/O thread are
  query,        \* the channel the I/O thread asks the web service about
  title,        \* the channel whose title the main dialog shows
  asked,        \* how often the user has clicked
  astray,       \* history: the last click met another, or its query failed
  apc, state,   \* where the audio thread is, and the state of its machine
  filename,     \* filenameToLoad
  file_format,
  stream,       \* the channel whose stream the thread points to
  demuxer,      \* the channel of demuxer->stream
  ds_audio, sh_audio, audio_out,  \* whether these pointers are set
  held          \* held[r]: how many of resource r are acquired

gui == <<pump, mpc, ipc, query, title, asked, astray>>
context == <<file_format, stream, demuxer, ds_audio, sh_audio, audio_out, held>>
vars == <<gui, apc, state, filename, context>>

Resource == {"stream", "filler", "demuxer", "codec", "device"}
State == {"IDLE", "LOADING", "PROCESSING", "TERMINATING"}
Event == [kind : {"query", "loaded", "run", "message"}, channel : Channel]

Init ==
  /\ pump = [t \in {"Main", "Io", "Audio"} |-> <<>>]
  /\ mpc = "pop" /\ ipc = "pop" /\ apc = "pop"
  /\ query = NoChannel /\ title = NoChannel /\ filename = NoChannel
  /\ asked = 0 /\ astray = FALSE
  /\ state = "TERMINATING"
  /\ file_format = "unknown"
  /\ stream = NoChannel /\ demuxer = NoChannel
  /\ ds_audio = FALSE /\ sh_audio = FALSE /\ audio_out = FALSE
  /\ held = [r \in Resource |-> 0]

PostEvent(t, kind, c) ==
  pump' = [pump EXCEPT ![t] = <<[kind |-> kind, channel |-> c]>> \o @]

Carries(t) == \E i \in 1 .. Len(pump[t]) : pump[t][i].kind # "message"
InFlight ==
  \/ \E t \in DOMAIN pump : Carries(t)
  \/ query # NoChannel
  \/ state = "LOADING"

-----------------------------------------------------------------------------
(* The main thread: one event, then app().idle().                          *)

MainPopEmpty ==
  /\ mpc = "pop" /\ pump["Main"] = <<>>
  /\ mpc' = "idle"
  /\ UNCHANGED <<pump, ipc, query, title, asked, astray, apc, state, filename, context>>

(* respLoadChannel() and onLoadMedia(); eventProcessRc() shows a message.  *)
MainRunEvent ==
  /\ mpc = "pop" /\ pump["Main"] # <<>>
  /\ LET e == Head(pump["Main"]) IN
       pump' = [pump EXCEPT !["Main"] = Tail(@),
                            !["Audio"] = IF e.kind = "loaded"
                                         THEN <<[kind |-> "run", channel |-> e.channel]>> \o @
                                         ELSE @]
  /\ mpc' = "idle"
  /\ UNCHANGED <<ipc, query, title, asked, astray, apc, state, filename, context>>

MainIdle ==
  /\ mpc = "idle"
  /\ mpc' = "pop"
  /\ UNCHANGED <<pump, ipc, query, title, asked, astray, apc, state, filename, context>>

(* loadChannel(): the title changes before anything is known of the channel. *)
LoadChannel(c) ==
  /\ mpc = "idle"
  /\ asked < MaxRequests
  /\ PostEvent("Io", "query", c)
  /\ title' = c
  /\ asked' = asked + 1
  /\ astray' = InFlight
  /\ UNCHANGED <<mpc, ipc, query, apc, state, filename, context>>

CloseWindow ==
  /\ mpc = "idle"
  /\ mpc' = "done"
  /\ UNCHANGED <<pump, ipc, query, title, asked, astray, apc, state, filename, context>>

-----------------------------------------------------------------------------
(* The I/O thread.                                                         *)

IoPopEmpty ==
  /\ ipc = "pop" /\ pump["Io"] = <<>>
  /\ ipc' = "check"
  /\ UNCHANGED <<pump, mpc, query, title, asked, astray, apc, state, filename, context>>

(* eventLoadChannel(): onGetChannelURL() is a call of the web service.     *)
IoQuery ==
  /\ ipc = "pop" /\ pump["Io"] # <<>>
  /\ query' = Head(pump["Io"]).channel
  /\ pump' = [pump EXCEPT !["Io"] = Tail(@)]
  /\ ipc' = "asking"
  /\ UNCHANGED <<mpc, title, asked, astray, apc, state, filename, context>>

IoAnswered ==
  /\ ipc = "asking"
  /\ PostEvent("Main", "loaded", query)
  /\ query' = NoChannel
  /\ ipc' = "check"
  /\ UNCHANGED <<mpc, title, asked, astray, apc, state, filename, context>>

IoFailed ==
  /\ ipc = "asking"
  /\ PostEvent("Main", "message", query)
  /\ query' = NoChannel
  /\ astray' = TRUE
  /\ ipc' = "check"
  /\ UNCHANGED <<mpc, title, asked, apc, state, filename, context>>

(* RunMainLoop() cancels it some time after the main thread has ended. *)
IoCheck ==
  /\ ipc = "check"
  /\ ipc' \in {"pop"} \cup (IF mpc = "done" THEN {"done"} ELSE {})
  /\ UNCHANGED <<pump, mpc, query, title, asked, astray, apc, state, filename, context>>

-----------------------------------------------------------------------------
(* onEndContext() and the loop of the audio thread.                        *)

Less(r, yes) == IF yes THEN held[r] - 1 ELSE held[r]

(* Mutant: a context that has no demuxer yet is taken for an empty one. *)
onEndContextOfDemuxer ==
  IF demuxer = NoChannel
  THEN UNCHANGED <<stream, demuxer, sh_audio, audio_out, held>>
  ELSE
  /\ held' = [held EXCEPT !["codec"] = Less("codec", sh_audio),
                          !["demuxer"] = @ - 1, !["stream"] = @ - 1,
                          !["filler"] = 0,
                          !["device"] = Less("device", audio_out)]
  /\ stream' = NoChannel /\ demuxer' = NoChannel
  /\ sh_audio' = FALSE /\ audio_out' = FALSE

(* Mutant: the device is closed, but its pointer is kept. *)
onEndContextKeepOut ==
  /\ held' = [held EXCEPT !["codec"] = Less("codec", sh_audio),
                          !["demuxer"] = Less("demuxer", demuxer # NoChannel),
                          !["stream"] = Less("stream", stream # NoChannel),
                          !["filler"] = IF stream # NoChannel THEN 0 ELSE @,
                          !["device"] = Less("device", audio_out)]
  /\ stream' = NoChannel /\ demuxer' = NoChannel /\ sh_audio' = FALSE
  /\ UNCHANGED audio_out

(* The filler of the cache is killed with its stream, and the demuxer's    *)
(* stream is the one the thread opened. ds_audio is left to dangle.        *)
onEndContext ==
  LET last == IF demuxer # NoChannel THEN demuxer ELSE stream IN
  /\ held' = [held EXCEPT !["codec"] = Less("codec", sh_audio),
                          !["demuxer"] = Less("demuxer", demuxer # NoChannel),
                          !["stream"] = Less("stream", last # NoChannel),
                          !["filler"] = IF last # NoChannel THEN 0 ELSE @,
                          !["device"] = Less("device", audio_out)]
  /\ stream' = NoChannel /\ demuxer' = NoChannel
  /\ sh_audio' = FALSE /\ audio_out' = FALSE

AudioPopEmpty ==
  /\ apc = "pop" /\ pump["Audio"] = <<>>
  /\ apc' = "check"
  /\ UNCHANGED <<gui, state, filename, context>>

(* Mutant: a load while another is played only leaves its name behind. *)
onLoadAudioWhenIdle ==
  /\ apc = "pop" /\ pump["Audio"] # <<>>
  /\ filename' = Head(pump["Audio"]).channel
  /\ state' = IF state = "PROCESSING" THEN state ELSE "LOADING"
  /\ pump' = [pump EXCEPT !["Audio"] = Tail(@)]
  /\ apc' = "check"
  /\ UNCHANGED <<mpc, ipc, query, title, asked, astray, context>>

onLoadAudio ==
  /\ apc = "pop" /\ pump["Audio"] # <<>>
  /\ IF state # "IDLE"
     THEN onEndContext
     ELSE UNCHANGED <<stream, demuxer, sh_audio, audio_out, held>>
  /\ filename' = Head(pump["Audio"]).channel
  /\ state' = "LOADING"
  /\ pump' = [pump EXCEPT !["Audio"] = Tail(@)]
  /\ apc' = "check"
  /\ UNCHANGED <<mpc, ipc, query, title, asked, astray, file_format, ds_audio>>

(* cancelRaised(), some time after the I/O thread has ended: nothing is    *)
(* released.                                                               *)
AudioCheck ==
  /\ apc = "check"
  /\ apc' \in {"state"} \cup (IF ipc = "done" THEN {"done"} ELSE {})
  /\ UNCHANGED <<gui, state, filename, context>>

AudioIdle ==
  /\ apc = "state" /\ state = "IDLE"
  /\ apc' = "pop"
  /\ UNCHANGED <<gui, state, filename, context>>

(* Mutant: the context is left to the next load. *)
AudioTerminateLate ==
  /\ apc = "state" /\ state = "TERMINATING"
  /\ state' = "IDLE"
  /\ apc' = "pop"
  /\ UNCHANGED <<gui, filename, context>>

AudioTerminate ==
  /\ apc = "state" /\ state = "TERMINATING"
  /\ onEndContext
  /\ state' = "IDLE"
  /\ apc' = "pop"
  /\ UNCHANGED <<gui, filename, file_format, ds_audio>>

-----------------------------------------------------------------------------
(* onCreateContext(), call by call.                                        *)

Acquire(r) == held' = [held EXCEPT ![r] = @ + 1]

(* Mutant: a failed load is tried again. *)
FailAgain == state' = "LOADING" /\ apc' = "pop"

Fail == state' = "TERMINATING" /\ apc' = "pop"

CreateContext ==
  /\ apc = "state" /\ state = "LOADING"
  /\ onEndContext
  /\ ds_audio' = FALSE
  /\ apc' = "open"
  /\ UNCHANGED <<gui, state, filename, file_format>>

(* open_stream() clears every format but that of a playlist, and only some *)
(* streams set one.                                                        *)
Cleared == IF file_format = "playlist" THEN "playlist" ELSE "unknown"
Found ==
  IF filename \in Playlist THEN "playlist"
  ELSE IF filename \in Plain THEN Cleared ELSE "audio"

OpenStream ==
  /\ apc = "open"
  /\ stream' = filename
  /\ file_format' = Found
  /\ Acquire("stream")
  /\ IF Found = "playlist" THEN Fail ELSE apc' = "cache" /\ UNCHANGED state
  /\ UNCHANGED <<gui, filename, demuxer, ds_audio, sh_audio, audio_out>>

OpenStreamFails ==
  /\ apc = "open"
  /\ file_format' \in {Cleared, Found}
  /\ Fail
  /\ UNCHANGED <<gui, filename, stream, demuxer, ds_audio, sh_audio, audio_out, held>>

EnableCache ==
  /\ apc = "cache"
  /\ Acquire("filler")
  /\ apc' = "demux"
  /\ UNCHANGED <<gui, state, filename, file_format, stream, demuxer, ds_audio, sh_audio, audio_out>>

EnableCacheFails ==
  /\ apc = "cache"
  /\ Fail
  /\ UNCHANGED <<gui, filename, context>>

(* The demuxer may have found no audio in the stream. *)
OpenDemuxer ==
  /\ apc = "demux"
  /\ demuxer' = stream
  /\ ds_audio' = TRUE
  /\ Acquire("demuxer")
  /\ \/ sh_audio' = TRUE /\ apc' = "codec" /\ UNCHANGED state
     \/ sh_audio' = FALSE /\ Fail
  /\ UNCHANGED <<gui, filename, file_format, stream, audio_out>>

OpenDemuxerFails ==
  /\ apc = "demux"
  /\ Fail
  /\ UNCHANGED <<gui, filename, context>>

SetupCodec ==
  /\ apc = "codec"
  /\ Acquire("codec")
  /\ apc' = "device"
  /\ UNCHANGED <<gui, state, filename, file_format, stream, demuxer, ds_audio, sh_audio, audio_out>>

SetupCodecFails ==
  /\ apc = "codec"
  /\ sh_audio' = FALSE
  /\ Fail
  /\ UNCHANGED <<gui, filename, file_format, stream, demuxer, ds_audio, audio_out, held>>

SetupDevice ==
  /\ apc = "device"
  /\ audio_out' = TRUE
  /\ Acquire("device")
  /\ state' = "PROCESSING"
  /\ apc' = "pop"
  /\ UNCHANGED <<gui, filename, file_format, stream, demuxer, ds_audio, sh_audio>>

(* Mutant: the result of onSetupAudioChain() is not looked at. *)
SetupDeviceFailsUnseen ==
  /\ apc = "device"
  /\ sh_audio' = FALSE
  /\ state' = "PROCESSING"
  /\ apc' = "pop"
  /\ UNCHANGED <<gui, filename, file_format, stream, demuxer, ds_audio, audio_out, held>>

(* Without a device, sh_audio is forgotten with its codec set up. *)
SetupDeviceFails ==
  /\ apc = "device"
  /\ sh_audio' = FALSE
  /\ Fail
  /\ UNCHANGED <<gui, filename, file_format, stream, demuxer, ds_audio, audio_out, held>>

-----------------------------------------------------------------------------
(* onRunProcess(): decodes and writes a bit, fails, or comes to the end.   *)

Whole ==
  stream # NoChannel /\ demuxer # NoChannel /\ ds_audio /\ sh_audio

RunProcess ==
  /\ apc = "state" /\ state = "PROCESSING"
  /\ \/ Whole /\ apc' = "pop" /\ UNCHANGED state
     \/ Whole /\ apc' = "drain" /\ UNCHANGED state
     \/ Fail
  /\ UNCHANGED <<gui, filename, context>>

(* while(audio_out->get_delay() > .04); it may never end, see SdlRing.     *)
Drained ==
  /\ apc = "drain"
  /\ Fail
  /\ UNCHANGED <<gui, filename, context>>

-----------------------------------------------------------------------------
MainStep == MainPopEmpty \/ MainRunEvent \/ MainIdle
User == CloseWindow \/ \E c \in Channel : LoadChannel(c)
IoStep == IoPopEmpty \/ IoQuery \/ IoAnswered \/ IoFailed \/ IoCheck
Load ==
  \/ CreateContext \/ OpenStream \/ OpenStreamFails
  \/ EnableCache \/ EnableCacheFails \/ OpenDemuxer \/ OpenDemuxerFails
  \/ SetupCodec \/ SetupCodecFails \/ SetupDevice \/ SetupDeviceFails
AudioStep ==
  \/ AudioPopEmpty \/ onLoadAudio \/ AudioCheck \/ AudioIdle \/ AudioTerminate
  \/ Load \/ RunProcess

Terminated == apc = "done" /\ UNCHANGED vars

Next == MainStep \/ User \/ IoStep \/ AudioStep \/ Drained \/ Terminated

Spec == Init /\ [][Next]_vars

(* Three preemptively scheduled threads whose calls return; what the user  *)
(* does and whether the device runs dry is left open.                      *)
FairSpec == Spec /\ WF_vars(MainStep) /\ WF_vars(IoStep) /\ WF_vars(AudioStep)

-----------------------------------------------------------------------------
(* Types.                                                                  *)
TypeOK ==
  /\ pump \in [{"Main", "Io", "Audio"} -> Seq(Event)]
  /\ mpc \in {"pop", "idle", "done"}
  /\ ipc \in {"pop", "asking", "check", "done"}
  /\ query \in Channel \cup {NoChannel}
  /\ title \in Channel \cup {NoChannel}
  /\ asked \in 0 .. MaxRequests
  /\ astray \in BOOLEAN
  /\ apc \in {"pop", "check", "state", "open", "cache", "demux", "codec", "device",
              "drain", "done"}
  /\ state \in State
  /\ filename \in Channel \cup {NoChannel}
  /\ file_format \in {"unknown", "audio", "playlist"}
  /\ stream \in Channel \cup {NoChannel}
  /\ demuxer \in Channel \cup {NoChannel}
  /\ ds_audio \in BOOLEAN /\ sh_audio \in BOOLEAN /\ audio_out \in BOOLEAN
  /\ held \in [Resource -> Nat]

(* What the thread points to it holds exactly once, and what it does not   *)
(* point to it does not hold: nothing is opened twice, closed twice or     *)
(* used after it was closed, however loads overtake and fail. sh_audio is  *)
(* part of the demuxer; the codec is the exception that no pointer tells.  *)
PointersTell ==
  /\ held["stream"] = (IF stream # NoChannel THEN 1 ELSE 0)
  /\ held["demuxer"] = (IF demuxer # NoChannel THEN 1 ELSE 0)
  /\ held["device"] = (IF audio_out THEN 1 ELSE 0)
  /\ held["filler"] <= held["stream"]
  /\ demuxer # NoChannel => demuxer = stream
  /\ sh_audio => demuxer # NoChannel

(* An idle thread holds neither a stream nor its filler process, neither a *)
(* demuxer nor the device.                                                 *)
ReleasedWhenIdle ==
  state = "IDLE" => \A r \in Resource \ {"codec"} : held[r] = 0

(* Whenever onRunProcess() is called the whole chain is there, audio_out   *)
(* included, which it uses without a look, and it plays what was asked     *)
(* for last of the thread.                                                 *)
PlaysWhole ==
  state = "PROCESSING" =>
    Whole /\ audio_out /\ stream = filename /\ held["codec"] > 0

(* What plays is what the title says, once nothing is on its way, unless   *)
(* the last click came while another was on its way or was refused by the  *)
(* web service: the pumps give the newest event first.                     *)
PlaysNewest ==
  state = "PROCESSING" /\ ~InFlight /\ ~astray => stream = title

(* What plays is what the title says, once nothing is on its way. It is    *)
(* not, after a click that was refused or overtaken.                       *)
PlaysTitle == state = "PROCESSING" /\ ~InFlight => stream = title

(* A load ends with the channel playing or with the thread idle, whatever  *)
(* fails on the way.                                                       *)
LoadSettles ==
  state = "LOADING" ~> state \in {"PROCESSING", "IDLE"} \/ apc = "done"
==============================================================================
