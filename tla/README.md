# OpenWSP in TLA+

OpenWSP plays web radio. A click on a channel travels through three threads, opens a network
stream with a cache process behind it, a demuxer, a codec and an audio device, and the bytes then
flow through two rings that are shared without locks. This directory models that path, the start
and the end of the program, and its configuration file, checks them with TLC and proves part of it
with TLAPS. Paths below are relative to `src/`.

## Inventory

| component | state | operations | how it interacts |
|---|---|---|---|
| Event pumps (`src/eventpump.cpp`, `src/eventloop.cpp`, `include/openwsp/autoptr.h`) | one list per priority and thread, a spin lock per list, a reference count and a cancel flag per event | `push`, `pop`, `cancelEvents`, `PostEvent`, `ref`, `release` | every thread posts to every other |
| Main, I/O, audio thread (`src/thread{main,io,audio}.cpp`) | a pump, a cancel flag; the audio thread a state machine and the pointers of a playing context | `run`; `onLoadAudio`, `onCreateContext`, `onRunProcess`, `onEndContext`, volume | events; the main thread also runs the GUI |
| GUI logic (`src/gui/wspv1/logics.cpp`) | dialogs, title | `loadChannel`, `openCatelogDlg`, `openChannelsDlg`, volume, and their events | posts to I/O, is answered in main, posts to audio |
| Stream cache (`src/stream/cache.cpp`) | a ring in shared memory with `min`, `max`, `offset`, `read` positions and `eof` | `cache_fill` in a forked process; `cache_read`, seeks in the audio thread | shared memory, no locks |
| SDL output (`src/audiosys/audiosys_sdl.cpp`) | a ring with a read and a write position | `write` in the audio thread, `outputaudio` in SDL's thread, `init`, `uninit`, `pause`, `resume`, `get_delay` | shared memory, no locks |
| Streams and HTTP (`src/stream/stream.cpp`, `stream_http.cpp`, `network.cpp`, `tcp.cpp`) | a socket, the bytes that came with a header, a sector, the position, `eof` | `http_streaming_start`, `http_seek`, the two readers; `stream_read`, `stream_seek`, `stream_reset` | called by the filler of the cache, or by the audio thread without a cache |
| Demuxers, codecs, audio system | packet queues, what is open | open, read, close | called by the audio thread |
| Life cycle, threads (`src/openwsp.cpp`, `src/util/thread.cpp`) | which thread has been started, cancelled, joined | `init`, `RunMainLoop`, `uninit`, `create`, `sync`, `wait` | ends the threads one after another |
| Configuration, log, collector (`src/config.cpp`, `src/log.cpp`, `src/gc.cpp`) | a table and its file; a lazily created mutex; a list of targets | `load`, `store`; `ws_log`; `scan` | used from all threads |
| Web service, script engine, toolkit, libav* | | | mostly third-party; seen as calls that succeed or fail |

What makes each correct, and what is hard about it:

* **Pumps.** Each posted event is run once, by its own thread, and is alive while it is linked.
  Hard: `ref()` and `release()` create their spin lock as an unnamed temporary, so their counting is
  not locked at all; `PostEvent()` uses the event after the push; lists are linked and popped at
  the same end.
* **Stream cache.** The reader gets the bytes of the file in order, and does not wait for ever.
  Hard: two processes, five shared variables, no lock and no barrier; a seek makes what the
  filler has just read stale; the end of the file is told by a separate flag.
* **SDL output.** The device plays what was written, in order, and neither side tears the
  other's bytes. Hard: the lock was compiled out; full and empty look alike.
* **Loading.** Whatever fails, what was opened is given back once; what plays is complete, and is
  what the title says. Hard: seven calls may fail, a new request may arrive at any time, and
  requests overtake each other in the pumps.
* **Network streams.** The caller gets the audio of the position where it takes the stream to be.
  Hard: a seek is a new connection whose answer brings bytes with its header; metadata lies
  between the audio and may be cut anywhere; a connection is refused, lost, or times out; a
  refused seek counts as a success.
* **Life cycle and log.** No thread runs before everything is there, and none runs on while the
  configuration is stored. Hard: threads are created before the objects they use, are cancelled
  one after another, and the mutex of the log is made by whoever logs first, without a lock; a
  `fork()` happens in a process with threads and with that mutex.
* **Configuration.** What a session ended with is what the next one begins with, and the user's
  lines stay. Hard: `store()` truncates the file before it writes, and copies what it does not
  know by the positions of a scanner.

`PROJECT.json` lists every component and, under `hazards`, each of these at its line with the
properties that would catch it, or the reason why none does yet.

## Modules

| module | role |
|---|---|
| `EventDelivery` | what the pumps promise: an event is pending at one thread and run there once |
| `EventPump` | the pumps, reference counts and loops, at the grain of single loads and stores |
| `EventPumpMC` | the order of shutdown for TLC |
| `EventPump_proofs` | types, `LinkedAlive`, `LinkedOnce`, and that it implements `EventDelivery`, for every instance |
| `BoundedFifo` | what the SDL ring promises: a queue of bounded length |
| `SdlRing` | the ring with both its threads and the wait at end of file |
| `SdlRing_proofs` | types, `ChunkStaysEmpty`, `NoDataRace`, and that it implements a `BoundedFifo`, for every ring |
| `StreamCache` | filler and reader, one action per access to a shared variable |
| `StreamCache_proofs` | `WindowHoldsFile` for every geometry and every seek; `ReadsItsBytes`, `NoDataRace`, `CopiesInRing` for a reader that does not seek, `EndsAtTheEnd` for it in the smallest ring |
| `HttpStream` | a network stream from its first request to its end: connections, redirections, seeks, readers |
| `HttpStreamMC` | two urls and a body with metadata for TLC |
| `HttpStream_proofs` | types for every instance; `OneConnection`, `Delivers` and `NoMetadata` where no receive times out |
| `Lifecycle` | `init()`, `RunMainLoop()`, `uninit()`, the threads and the log they share |
| `Lifecycle_proofs` | types, `LogReady`, `RunsInformed`, `StoresAlone` for every instance |
| `ConfigStore` | `load()` and `store()` over a file of tokens, with kills and power losses |
| `ConfigLines` | the same file line by line, without looking ahead: what the theorems suppose of a user's file, and what their proofs compare the scanner with |
| `ConfigStoreMC` | the files of a user for TLC |
| `ConfigStore_proofs` | every property of `ConfigStore`, for any elements, values and whole files |
| `DataInduction` | induction over numbers and sequences, and the existence of recursive functions, for `ConfigStore_proofs` |
| `MediaLoading` | the click, its events, the audio thread's state machine and what it holds; it rests on the pumps being atomic lists, which `EventPump` is about |
| `MediaLoading_proofs` | types, `PointersTell`, `ReleasedWhenIdle`, `PlaysWhole`, `PlaysNewest` for every instance |

### EventPump

`root[t][p]` is the list reachable from `root[pri]` of thread t's pump; a thread that has read it
inside the lock keeps what it read in `snap`, so an access without the lock would lose an update.
`count`, `life` are an event's `m_count` and its memory. Each `++m_count` and `--m_count` is a
load into `reg` and a later store. Reading the count of a freed event yields any of `0 .. 3`: it is
undefined in the code, and these values are enough to reach every branch. An address is used for
one event only. Threads post from their handlers; the main thread also from `app().idle()`.
`cancelEvents()` has no caller in the repository and is modelled as any thread's request.

### SdlRing

The positions and the ring are the code's; a position is loaded once, then the copy is one
step, then the position is stored. That the copy is one step is harmless as long as the two copies
are disjoint, and that is the property `NoDataRace`. `Outburst` stands for `outburst`,
`Size` for the size that `init()` computes, `DelayLimit` for the 0.04 seconds in bytes.
`malloc()` returns any bytes.

### StreamCache

The byte at a position of the file is the position itself, so a byte in the wrong place is seen;
`Garbage` is a cell never filled. The filler's actions follow `cache_fill()` (`FillBegin`,
`DropMax`, `DropMin`, `DropOffset`, `FillPlan`, `FillRead`, `FillEof`, `FillPublish`,
`FillWrap`), the reader's `cache_read()` and the two functions that call it. A copy with a negative
length is the state `"crashed"`, which ends the reader and counts as no answer to its call: without seeks every
call returns (`ReaderServed`); with them the properties are of the window (`WindowHoldsFile`) and of the wait for
bytes (`WaitEnds`), for the reader may crash (see below). A failure of `stream_seek()` in the filler is ignored, as in the code:
with `Seekable = FALSE` (`StreamCache_unseekable.cfg`) the stream goes on where it was. `min_filepos`, `max_filepos`, `offset`,
`eof` and `read_filepos` are stored and loaded in program order; what a weaker memory order would
add is not modelled.

### MediaLoading

A pump is the sequence of its events, newest first. The audio thread is at `apc`: it pops, looks at
its cancel flag, and does what `state` says; each call of `onCreateContext()` that can block or
fail is an action of its own, with an action for its failure. `stream`, `demuxer`, `ds_audio`,
`sh_audio` and `audio_out` are the thread's pointers, `held` counts what is really acquired, so that a
leak, a double release or a dangling pointer shows as a disagreement of the two. A channel is one that
names a format, one that names none (`Plain`) or a playlist. A message to the user is an event
that changes nothing. The cache is taken to be on, as it is by default.

### HttpStream

A byte is `<<"audio", i>>`, the byte i of the medium, or a byte of a header or of metadata, so that the
wrong byte, and the wrong kind of byte, show. `socket[n]` is what descriptor n is and the bytes that the
server still sends on it: `recv()` takes any part of them, the end, or an error, and with `TimesOut` an
error after which the connection is as it was (`SO_RCVTIMEO`). `Working` are the steps of
`http_streaming_start()` and of the readers; `Filled` is the end of `stream_fill_buffer()` and the turn of the
loop of `stream_seek_long()`, whose way into the sector is `offset`. `scast_streaming_read()` is
two actions, a block of audio (`IcyFill`) and its metadata (`IcyMeta`). `Tell` is `stream_tell()`.
`want` is no variable of the code: it is where a caller that heeds the answers to its seeks takes the stream
to be, and it moves with what is taken.

The caller is the filler of the cache: it reads before it seeks, and resets a stream at its end before it
seeks; `Careless` adds the seeks of other callers. It asks every stream to seek, whether the stream can or
not, as `cache_fill()` does (`src/stream/cache.cpp:178`) and `demux_audio.cpp:398` makes it do. A plain stream
that cannot seek refuses and stays where `stream_tell()` says. An ICY stream answers with success, for
`stream_seek_long()` finds neither of its two ways to seek (`src/stream/stream.cpp:238` to 266), and reads on
where it was: `Delivers` therefore asks `want = Tell` of plain streams only, and `AnswersAreTrue`, which asks it of all, is
refuted with `HttpStream_icy.cfg`. What the code does then is up to the caller: `demux_audio.cpp:592` looks at
`stream_tell()` after its seek, while the cache looks at neither.
A `200` to a request with a range is a success for the code (`src/stream/network.cpp:365`); the model takes it
that a server that announced ranges answers with the range.
`IcyBlocks` says what the readers take the body of an ICY answer to be: the medium in blocks, each followed
by metadata of any length. TLC evaluates it of the body in `HttpStreamMC`, and the proofs assume no more.
A server that ignores `Range` although it announced `Accept-Ranges`, Ultravox metadata, a proxy, and
`network_username`, which nothing sets, are left out.

### Lifecycle

`ipc` is where the initial thread is in `init()`, `RunMainLoop()` and `uninit()`; the three others wait for
their semaphore, pop, run what a handler still has to do (`todo`) and look at their cancel flag. The
handlers are cut down to what they post and log. A log statement is the test of `log_inited`, the making of
the mutex, its acquisition and its release. A turn of the audio thread's machine may load (`Fork`, `Prefilled`,
`OpenFails`), decode or write (`RunProcess`) or clean up (`EndContext`). At the end of a file it waits for the
device (`"drain"`), and looks at its cancel flag again only after that. `SdlRing` shows that this wait need not end,
so `Drained` has no fairness here and `ShutdownEnds` excepts it. A decoder that reads from the cache is taken to return.
The filler is a copy of the process at the `fork()`:
if it logs (`FillerLogs`) while another thread held the mutex, it waits for a mutex nobody releases.

### ConfigStore

A file is a sequence of tokens: what the scanner looks at, digits, names and any other text. `Scan` is the
loop that `parseConfig()` and `writeConfig()` share, as a function of the position: its state holds what the
one has read and what the other has written, and `resume` the place that a jump of `i` goes on from
(`ReadComment`, `ReadField`). `Loaded` and `Written` are what `load()` and `store()` make of a file. Numbers
are converted digit by digit, because what is wrong in the conversions shows in the file. `store()` is two
steps: the file is truncated, then the text is written; in between the program may be killed, when
nothing of the text has left the C library's buffer, or the machine stops, with any prefix on the disk.
When `writeConfig()` gives up, `store()` means to write the defaults, but its stream still counts as open
(`Filestream::Close()`, `src/stream/filestream.cpp:64`), so that what was written stays. When it writes a text of
negative length (line 584), which needs a file cut by a power loss or a foreign field without a value, the file
is taken for lost; the code flushes what it has and goes on with memory until none can be read.
The elements are integers, and none has an `m_comment`, which no caller sets. `'\r'` and `'\0'` are left out.
`findConfigElement()` compares by `compareStringNocase()` (`src/util/string.cpp:304`), which advances twice in a turn: it
looks at every second character, ignores case and is content with a prefix. The model's names are
what this comparison tells apart: a foreign name that begins like an element, or agrees with it in every
second character, is left out, and in the code its value would be overwritten.

## Runs

| run | instance | states | what it shows |
|---|---|---|---|
| `pump_live` | 2 threads, an event and a respond event, 2 priorities | 40 k | `LinkedAlive`, `LinkedOnce`; with `cancelEvents()`, the pumps implement `EventDelivery`; every event is run |
| `pump_runner` | 2 threads, 1 event | | violated: the event a loop is about to run is deleted under it |
| `sdl_safety` | ring of 5, chunk of 2, bytes 0 and 1, requests up to 4 | 0.5 M | the ring is a `BoundedFifo`, copies are disjoint, the device plays on during the wait |
| `sdl_drain` | ring of 4, chunk of 1, `DelayLimit` below the ring | | violated: the wait at end of file never ends |
| `cache_read` | 16 sectors of 2 bytes, blocks of 4 sectors, 75 bytes | 4 k | in order, to the end, without a race, and every call returns |
| `cache_seek` | 4 sectors, network stream, seeks to 0 and 3 of 5 | 0.5 M | the window holds the file after any seek; the reader does not wait for ever. What it copies while the window is dropped, and whether it survives that, is not claimed: see below |
| `cache_eof` | ring of 8, fill limit 2 | | violated: a false end of file |
| `load_safety` | three channels, one of each kind, 3 clicks | 0.4 M | what is held is pointed to, given back when idle, complete when playing, and newest; loads end |
| `http` | two urls, a medium of 9 bytes, metadata every 2, sectors of 4, up to 3 bytes with a header, 2 descriptors | 4 k | the caller gets its bytes, one connection, every call returns |
| `http_timeout` | the same, receives may time out | | violated: metadata is given as audio |
| `lifecycle` | 3 threads, two of which may not be created, 2 acts of the user, 2 volumes | 95 k | nobody runs or logs too early, or on while the settings are stored; closing the window ends the program, unless the audio thread waits for ever at the end of a file |
| `config_sessions` | 2 settings, 4 files, 2 new values, one power loss, any number of kills | 162 k | what was stored comes back, nothing torn is taken for a value, the user's lines stay, nothing hangs |

Why the bounds are enough. Two events and two threads produce every overlap of one poster with
one popper and of two posters to one pump; the proofs cover more threads. The ring of 5 with
chunks of 2 wraps at every offset, because 5 is no multiple of 2. `cache_read` uses the smallest
geometry `cache_init()` allows (16 sectors, fill limit 8) with two bytes to a sector and a file that wraps
it twice; `cache_seek` must be smaller than that to enumerate every moment of a seek, and keeps a
fill limit of half the ring. The false end of file of `cache_eof` needs a ring larger than twice
its fill limit, or a file no longer than that limit, because otherwise the filler waits for the reader
before it sets `eof` (`SpecEndsAtTheEnd`); the default ring has 160 sectors and a fill limit of 8. Three clicks let a click overtake another that overtakes a third.
A medium of 9 bytes has two full sectors and a short one; metadata of two bytes, of five (more than a
sector) and of none meet every offset of a sector of 4; two descriptors let a failing seek leak one and
reuse the other. Two acts of the user are a load and a volume, or two loads. One power loss in a run of
sessions is what `NeverTorn` and `Survives` bear, and they say so. The first one may leave a field without a
value, and the store after it an empty value with the default's line behind; if the power fails again
before that line is on the disk, the empty value is read as 0.

### Fairness

* Threads and processes are scheduled preemptively: weak fairness of each thread's own steps.
  A spin lock is free again and again, and no thread is starved of it for ever: strong fairness of the
  acquisitions in `EventPump`.
* SDL calls back as long as the device plays: weak fairness of `Playback`. A wait whose condition
  holds again and again is seen to end: strong fairness of `DrainEnd`.
* The filler and the reader go on: weak fairness of `Fill` and `Read`; whether the
  reader starts another call or seeks is left open.
* Calls of the network, demuxer and codec return, with or without success: weak fairness of
  `AudioStep` and `IoStep` in `MediaLoading`. Clicks, closing the window and `Drained` (which
  `sdl_drain` shows may never come) have none.
* Receives and connections return, for the sockets have timeouts: weak fairness of `Working` in
  `HttpStream`; what the caller asks for next is left open. `CallsEnd` needs redirections that end.
* The threads of `Lifecycle` go on, and none is starved of the log's mutex: weak fairness of
  `InitialStep` and `ThreadStep(t)`, strong fairness of `LogAcquire(t)`; the user has none, nor has `Drained`.

### Findings

1. `ref()` and `release()` are not locked (`include/openwsp/autoptr.h:80`), and `PostEvent()` takes its
   reference after the push (`src/eventloop.cpp:147`): the poster's count races with that of
   `pop()`, and an event can be freed while it is run. `LinkedAlive` says why the list survives it:
   a linked event has two references and only one thread to count.
2. `get_delay()` adds the size of the ring (`src/audiosys/audiosys_sdl.cpp:317`), so the busy wait at
   end of file (`src/threadaudio.cpp:353`) does not end.
3. The reader of the cache looks at `max_filepos` and then at `eof`; the filler may publish the last block
   and set `eof` in between (`src/stream/cache.cpp:119`).
4. `scast_streaming_read()` takes the metadata for read although a receive timed out inside of it
   (`src/stream/stream_http.cpp:168`): the rest is played, and the stream stays out of step.

Seen on the way, in the models but outside of the runs, and listed as hazards where they bite. Some are claims
that one would like to make and that TLC refutes; each has a `.cfg` that does so, kept beside the runs:

| refuted | with | what happens |
|---|---|---|
| `NeverCrashes` | `StreamCache_crash.cfg` | a late `eof` ends the read of a seek back; the next seek forward meets the window half dropped, and `memcpy()` gets a negative length (`src/stream/cache.cpp:125`) |
| `StillThere` | `StreamCache_stale.cfg` | the filler, which works from a position it loaded before a seek, gives up bytes that the reader has just found: the bug to report of line 142 |
| `WindowHoldsFile` | `StreamCache_unseekable.cfg` | a seek that the stream refuses is taken for done (line 178), and bytes are filed under wrong positions |
| `AnswersAreTrue` | `HttpStream_icy.cfg` | a seek of an ICY stream answers 1 and goes nowhere (`src/stream/stream.cpp:238`) |
| `ClosingEnds` | `Lifecycle_drain.cfg` | the window is closed while the audio thread waits at the end of a file (`src/threadaudio.cpp:353`); it never looks at its cancel flag, and `RunMainLoop()` joins it for ever |
| `RespondsLast` | `EventPump_order.cfg` | `cancelEvents()` links its respond event "at the back of queue so that it will be called after events in queue are all finished" (a comment, `src/eventpump.cpp:107`); it is the front, where `pop()` takes from, so it is run before them |
| `PlaysTitle` | `MediaLoading_astray.cfg` | the title changes with a click that is then refused or overtaken, and another channel plays |

* Cache: `fork()` returning -1 is taken for success (line 338), and a filler that logs may wait for ever (`src/log.cpp:142`):
  with `ForkMayFail` or `FillerLogs`, `ShutdownEnds` is violated.
* Loading: the format of a refused playlist decides every later load that names none
  (`src/stream/stream.cpp:103`). A codec is lost when the device fails; a cancelled audio thread leaves the
  filler behind; the answer to `getVolume()` goes to the wrong thread, and `onSetVolume()` asks the device with
  `AOCONTROL_GET_VOLUME` (`src/threadaudio.cpp:467`), so only the setting changes.
* Life cycle: without an I/O thread the program starts, and crashes when it joins it (`src/threadio.cpp:50`).
  A volume that is still in the pump when the audio thread is cancelled is not stored.
* HTTP: with `TimesOut`, a receive that fails behind left-over bytes drops one (`src/stream/network.cpp:436`),
  and a seek whose answer times out leaves its connection open; sockets that do not connect are never closed
  (`src/stream/tcp.cpp:227`). Without a cache, the seek of `new_demuxer()` before any read can
  give the first bytes twice, and a seek at the end of a stream without a reset is taken to be elsewhere.
* Configuration: `.mainVolumeLeft = 40 #c` is stored as `40#c` and then read as 4 (`src/config.cpp:424`); a
  negative setting loses its last digit (`src/util/string.cpp:144`); a final comment without a newline loses
  a character with each store and in the end hangs `load()` (`src/config.cpp:252`); a foreign field with an
  empty value may make the writer run out of its buffer (line 584); a foreign name that a comparison of every
  second character takes for an element's loses its value (`src/util/string.cpp:304`); text outside of fields and comments is
  dropped; a full disk makes `writeToStream()` spin (line 639). A `.` inside a foreign value (`.skinPath = a.b`)
  begins a field for the scanner: the writer drops the value, and the store after that finds it empty. After a
  second power loss a setting may be 0, see the bounds above.

## Theorems

All hold for every value of the constants under the named assumptions of each module.

* **`EventPump_proofs`**: `SpecTypeOK`, `SpecLinkedAlive`, `SpecLinkedOnce`. `LinkedAlive` is not
  inductive: `IInv` adds that who is inside a critical section holds its lock and has read the list
  that is linked, that an event being posted belongs to its caller until it is linked, that an event
  being run has left the pumps for good, and that while an event waits only its poster counts, so
  no update is lost before `pop()`. `SpecDelivers` is the refinement of `EventDelivery`, one lemma for each way
  a step can map: only the stores that publish a list change what is pending, a link posts one event at one
  thread (`LinkPosts`), `pop()` takes an event out of its list but not away from its thread (`UnlinkKeeps`), the
  call of `run()` does (`RunRuns`), and the respond event that `cancelEvents()` links is posted like any
  other; cancelling itself takes nothing out of a list. It needs one more invariant, `RanLinked`: what has
  been run was linked before, and nobody is still posting it.
* **`SdlRing_proofs`**: `SpecTypeOK`, `SpecChunkStaysEmpty`, `SpecNoDataRace`. `IInv` adds what a thread
  relies on between its decision and its store: the other can only have made more room, or more bytes.
  From it, the two regions are disjoint by the arithmetic of the ring (`FreePlusUsed`). `SpecPlaysInOrder` is the
  refinement of `BoundedFifo`: publishing `write_pos` puts what was copied behind the queue, publishing `read_pos`
  takes the front of it, and a copy changes no byte that waits (`WaitingUntouched`); `StreamIsFront` adds
  that what the callback has copied is still the front of the queue when it publishes.
* **`StreamCache_proofs`**: `SpecTypeOK` and `SpecWindowHoldsFile` assume `Seekable`; without that the
  counterexample is found at once by TLC. The invariant places the filler: where the ring
  position of the next block is relative to the window and what a half done drop or publication has already
  changed. `SpecReadsItsBytes`, `SpecNoDataRace` and `SpecCopiesInRing` further assume
  `SeekTargets = {}`: the reader's loads only grow stale in the safe direction, the filler never gives
  up what lies at or after the position it read. With seeks TLC refutes it. `SpecEndsAtTheEnd` adds
  `SmallestRing` (`BufferSize = 2 * FillLimit`, the least of `cache_init()`, and a file longer than the fill limit): the
  filler reads on over unread bytes only while it keeps few old ones, that is in a window no larger than the fill
  limit, and `Wide` says that the window stays larger once it has left the beginning. With one byte more to the
  ring, TLC finds the false end again.
* **`MediaLoading_proofs`**: `SpecTypeOK`, `SpecPointersTell`, `SpecReleasedWhenIdle`, `SpecPlaysWhole`,
  `SpecPlaysNewest`.
  The invariant says what is held before each call of a load (`Stage`) and in each state of the machine
  (`Between`); it is split into a part of the GUI and one of the audio thread, which share only events.
  For `PlaysNewest`, `OneWay` follows a click that met no other: it waits in exactly one of three pumps, or
  is asked for, or is loading, or has arrived, and wherever it is, that place knows the channel of the title.
* **`Lifecycle_proofs`**: `SpecTypeOK`, `SpecLogReady`, `SpecRunsInformed`, `SpecStoresAlone`. The
  heart is why the racy initialisation of the log is safe: `Shielded` says that until the main thread has
  logged, no other thread has an event to run, because every first event comes from the main thread,
  whose `PostEvent()` logs before it pushes. `Startup` and `Joined` tell from `ipc` which threads wait, run or
  have ended. The proofs need no assumption on failures.
* **`HttpStream_proofs`**: `SpecTypeOK` with any seeks and timeouts. `SpecOneConnection` assumes
  `~TimesOut`: a seek whose answer times out leaves a connection behind the number of an old one.
  `SpecDelivers` further assumes `Careless = {}` and, of the body of an ICY answer, `IcyBlocks`. Of a plain
  stream (`SpecPlainDelivers`, which needs no `IcyBlocks`) the invariant `Right` says that the sector, what came
  with the header, and what the connection still brings are consecutive bytes of the medium, and that while any
  of them has bytes the caller, the position and the way into the sector agree; a seek keeps it because a
  caller that has read finds nothing left of the old header, because a refused seek moves nothing, and because
  a stream that is reset at its end has nothing left to read until it reconnects. Of an ICY stream `RightIcy` says that what is
  still to come is the body from the place in a block that `metapos` tells (`Sync`), or nothing (`Dry`):
  `my_read()` gives less than it was asked for only when nothing follows (`SyncReads`, `DryReads`). That is
  what a timeout breaks, and why `SpecNoMetadata` holds without one, which `http_timeout` shows to be needed.

* **`ConfigStore_proofs`**: `SpecTypeOK` for any file. `SpecSurvives`, `SpecNeverTorn`, `SpecSettled`,
  `SpecUserLinesKept` and `SpecNeverStuck` assume `Regular`: settings are never negative, and the user's file
  is `Whole`, that is whole lines, each element at most once, a value for each foreign field, no mark of the
  scanner inside of a value, no minus in an element's. TLC evaluates `Regular` for the instance of the run; the
  findings are files and settings without it. The proof has three layers.
  The scanner jumps and looks ahead, so its state says little about the text; `ConfigLines` reads the same
  text one token at a time. `ScanMatches` shows by induction over the file that the two agree, at every
  position and with one case for each place in a line, so `LoadedIsRead` and `WrittenIsCopied`: what is
  loaded is what the line reader sets, what is written is what the line writer copies.
  On that stand the facts on whole files: numbers come back (`IntegerTextIsRead`); a store of a whole file
  leaves a `Sure` one, each element once with its setting, and the user's lines (`WholeWritten`); a sure file
  is a fixed point of the next store and gives settings or defaults wherever it is cut (`SureIsKept`); a store
  over a cut file repairs it, or gives up with one that is no worse (`TornWritten`).
  The third layer is the sessions. None of the properties is inductive, for they speak of a file that
  a store has left, and the file is replaced from `pending`. `StoreInv` says of the file and of `pending` what
  the number of power losses allows: with none, both are whole, and sure once a store made them (`WholeInv`);
  with one, the reader understands the file and every value in it was meant (`TornInv`); while every store has
  ended, the user's lines are in the one that counts (`LinesInv`). TLC found
  no state of the run's instance without it, nor with two power losses allowed.

Induction over data. The theorems of the library on induction take an operator as a parameter, which the
provers cannot instantiate. `DataInduction` states what is needed with sets in the place of operators:
a set of numbers that is not empty has a least element, which follows from the library's `WFMin`; a set
that holds 0 and with each number the next is `Nat`; and a function that is defined by its predecessor exists.
The recursive functions of the model (`Digits`, `Number`, `Scan`, `DefaultLines`, `Lines`) have that form.

Model-checked only:

* every liveness property (`CallsEnd`, the loads, calls and shutdowns that end): fairness and ENABLED are
  beyond the prover;
* the cache with seeks beyond `WindowHoldsFile`: TLC refutes the other properties there;
* what a file comes to when it is not `Regular`, such as negative settings, trailing comments or marks inside
  of values: the properties fail there, as the findings say.

## Not modelled

* Third-party code: libavcodec, libavformat, libavutil, libswscale, MuJS, emWin and its fonts,
  RtAudio. It is nearly all of the repository (of 800 thousand lines the tables of fonts are 325, the
  decoders 320, the rest of the toolkit 95 thousand), and not where this program's own logic is.
* Demuxers, codec wrappers, `url.cpp`, `cookies.cpp`, the parsing of HTTP headers, `javacore.cpp`: sequential
  parsing and dispatch, which tests reach; they appear as calls that succeed or fail. The packet queue of a
  demux stream belongs to one thread.
* Dialogs: layout and drawing. The lists of catalogs and channels travel like the click that is modelled.
* The drivers of the audio system other than SDL, which the build does not choose.
* The garbage collector: no target is ever registered, so that `scan()` never has one.
