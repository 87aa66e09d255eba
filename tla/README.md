# LANline in TLA+

LANline is a software-defined-radio server: a Rust process (`src/server`) owns
one SDR, demodulates or decodes what it receives on a pipeline thread, and
serves control over REST and audio over WebRTC to many clients at once. A
supervisor (`src/hypervisor`) runs one such process per radio. This directory
holds the specification of its control logic: what the handlers, threads and
tasks do to the state they share, and what the receivers do to samples that
arrive in blocks; checked with TLC and proved with TLAPS. Filters, levels and
the rest of the floating point are not modelled.

Paths below are relative to `src/server/src` unless they begin with `src/`.

## 1. Inventory

| Component | State | Operations | Talks to | What is hard | What makes it correct |
|---|---|---|---|---|---|
| Radio pipeline manager (`radio/mod.rs`, `api/radio.rs`) | `RunState` (running, stop flag, join handle, command sender), the shared `RadioConfig`, `Telemetry`, one thread per pipeline | start, stop, reconfigure, apply_patch; PATCH, start, stop handlers | registry, recorder, voice, pipeline thread (stop flag and command channel) | handlers interleave between critical sections; stop gives up the lock before it joins | every thread can be stopped and is joined once; at most one is not being stopped; the pipeline follows the configuration; every call returns |
| Device registry (`registry.rs`, `api/devices.rs`) | the selected device | select, select_auto, validate | radio configuration | check, probe and reset are three steps | the configuration names the device in use |
| Presets, catalog (`api/presets.rs`, `catalog.rs`) | none (constants) | apply | radio configuration | stored without being applied | as for PATCH |
| Audio recorder (`radio/audio_rec.rs`) | open recording, last finished one | start, stop, write (closes at the cap) | pipeline frames, stop() | running check apart from the start | a recording ends with its pipeline |
| Session store (`sessions.rs`) | map of sessions with their expiry | create, authenticate, get, list, heartbeat, delete, reap | handlers, reaper | expired entries stay in the map for a while | cap; an expired session is never live again; it leaves the map |
| WebRTC engine, session API, reaper (`media/mod.rs`, `api/sessions.rs`, `api/audio.rs`, `main.rs`) | registered peer per session, its tasks | negotiate, close, pump task, the reaper's round | store, WebRTC library | awaits between critical sections; requests dropped at an await | one peer per session, closed once, silent when its session is over |
| Push-to-talk, scan, bursts (`radio/mod.rs`, `api/radio.rs`, `api/aprs.rs`, `api/sstv.rs`) | command channel, transmit buffer, transmit log, scan position | key, unkey, say, scan, APRS and SSTV bursts | pipeline thread, microphone tracks | commands read while keyed, release racing the limit, two clients on one buffer | a key always ends, is logged, carries only what was captured after it was asked for, and leaves the radio on its channel |
| Voice (`voice/mod.rs`, `voice/stt.rs`) | dispatch flag, rolling buffer, segment, transcript | stt_feed, set_continuous, the worker's window, clear_transcript | pipeline frames, recogniser | one flag and three locks; the worker decodes without any | audio is read or counted as skipped; none after a clear, none of another pipeline |
| Flight and vessel lookup (`flight/mod.rs`, `vessel/mod.rs`) | cache, keys in flight | lookup | remote services | a dropped request leaves its key in flight | one fetch per contact, the answer to the question asked |
| Hypervisor (`src/hypervisor/src`) | child process, restart count, back-off | preflight, supervise, shut down, discovery | the servers | crash, restart, signal, kill and orphans | one server per SDR, restarts come, none left behind |
| Analysis (`analysis/mod.rs`, `analysis/iq_wav.rs`, `api/analysis.rs`) | ring of spectrum rows, IQ recorder | push, poll with a cursor, record, stop | pipeline, radio configuration | four locks in a request to record; cursors that outlive a run | rows in order and once; one run per recording; a recording is finished |
| Track tables (`adsb/tracker.rs`, `adsb/cpr.rs`, `ais/tracker.rs`, `aprs/tracker.rs`) | a track per craft | ingest, prune, snapshot, reset | pipeline, API | positions from pairs of frames of different ages | a place shown is the craft's, and lately |
| ADS-B demodulator (`adsb/demod.rs`) | samples held | process | `run_adsb` | a frame across two blocks | every frame, once |
| Packet framing (`aprs/tx.rs`, `aprs/demod.rs`, `ais/demod.rs`) | shift window, run of ones, bits | push a bit, encode a frame | the demodulators | bits that look like flags, noise, shared flags | frames in, the same frames out |
| Weather-satellite receiver (`apt/`) | words held, the expected line | process, drain_lines, push_line | `run_apt` | drift, blocks, noise before the pass | rows follow each other |
| SSTV receiver (`sstv/`) | samples held, scan, state, canvas | feed (search, header, line), push_row | `run_sstv` | the cursor under dropped samples, headers cut by blocks, restarts | a picture is whole |
| DSP chains and parsers, network feeds, beacon, TLS, mDNS, web and Android clients | filters, sockets | - | - | - | outside discrete modelling, or pure I/O |

The code's hazards, each at its line and with the properties that cover it, are
in `PROJECT.json`.

## 2. Modules

    SessionLease          abstract: a session is a lease
      ^ refined by
    SessionStore          sessions.rs
      ^ extended by
    MediaSessions         media/mod.rs, api/audio.rs, api/sessions.rs, reaper
      ^ proofs: SessionProofs

    RadioManager          start, stop, PATCH         MCRadioManager, RadioManagerProofs
    PushToTalk            key, say, scan, bursts     MCPushToTalk,   PushToTalkProofs
    Voice                 rolling buffer, worker     MCVoice,        VoiceProofs
    Analysis              waterfall, IQ recorder     MCAnalysis,     AnalysisProofs
    Lookup                flight and vessel caches                   LookupProofs
    Fleet                 the hypervisor             MCFleet,        FleetProofs

    Sstv, Apt, ModeS, Hdlc, Tracks     the receivers
      ^ composed by
    Receivers             one receiver of the five   MCReceivers,    ReceiverProofs

The manager, push-to-talk, voice and analysis share the pipeline thread. Each
module has the thread with the part of its loop that concerns it, and the calls
that start and stop it as coarsely as its subject allows: RadioManager has all
their interleavings; Voice has the order of their locks and a thread that
outlives its stop; Analysis where they store the configuration; PushToTalk one
step each.

An action is one critical section, one atomic load or store, one end of an
await, or one join. Where a client's handler takes several locks in turn, `pc[c]`
or `req[r].at` is the place it is at, and locals that survive a lock are fields
or variables. History variables are marked `history` where they are declared;
no guard reads one.

### RadioManager

The server is built with the SoapySDR feature; without it, every SDR mode is
silence, which the model has as an SDR mode without a device.

`draft` is the copy a PATCH merged, `plan` what its difference asks for (or which
handler called start and stop), `probed` the device a selection opened, `victim`
the thread whose flag and handle a stop() took out of RunState.

| Code | Actions |
|---|---|
| POST /radio/start, `RadioManager::start` | StartCheck; StartRunning or StartSpawn (one run-lock section); StartFlag |
| POST /radio/stop, `RadioManager::stop` | StopBegin; StopRecorder, StopVoice, StopTake, StopFlag, StopJoin, StopReset; StopCfg |
| PATCH /radio, `apply_patch`, `reconfigure` | PatchRead; PatchWrite; ApplyNothing, ApplyHot or ApplyBounce (then stop's and start's steps) |
| presets, PUT /device, record | Preset; SelectCheck, SelectProbe, SelectReset; RecordCheck, RecordStart, RecordStop |
| `run_pipeline` and the loops | Open, OpenFails, Retune, Frame, StopSeen |

A configuration keeps two writable fields: `mode` for everything whose change
bounces the pipeline, `freq` for everything applied live. A retune is applied by
the loops of the audio modes and by `run_aprs`, `run_apt`, `run_sstv` and
`run_analysis` (RetuneModes); `run_adsb` and `run_ais` read it and ignore it, synths
never look. A thread is a record with its stop flag, the
parameters it was spawned with and its queue; its name is used again once it was
joined. `missed` is a history variable: it is set by a preset stored while the
radio runs, and by a Retune whose frequency the configuration has left. `recording`
keeps apart what was opened on a registered pipeline and what was opened when stop()
had already closed the recorder (OpenedLate).

Reading `is_running()` in `apply_patch` and again in `reconfigure()` is one
step; a stop between the two reads makes the second one return, which is what
ApplyNothing does.

### SessionLease, SessionStore, MediaSessions

SessionLease is the promise: an id is unborn, live or dead; at most MaxSessions
are live; the dead stay dead. SessionStore is the code: entries with the time
left to them, expired ones still in the map until `retain` or `reap` drops them.
`LeaseOf` is the refinement mapping, `ImplementsLease` the abstract
specification under it.

MediaSessions has a request per member of `Requests` with the point it is at
between two awaits, a connection per member of `Conns`, the registry `peers` and
the reaper's list. A request authenticates in one step and acts in later ones
without looking again at the store, as the extractor and the handler do.
`Abandon` drops a request at its await. Dropping a registry entry detaches its
pump (tokio's JoinHandle), closing aborts it. `overlap` is a history variable:
the sessions for which two offers ran at once. The WebRTC library is external:
close() is assumed only to return or to be dropped, and a connection nobody
refers to is gone.

### PushToTalk

| Code | Actions |
|---|---|
| POST /radio/tx/key (`key`, `tx_log_key`) | KeyCheck, KeyClear, KeySend, KeyLog |
| POST /radio/tx/unkey | UnkeySend, UnkeyLog |
| POST /radio/tx/say | SayCheck, SayClear or SayGone, SayPush, SaySend, BurstLog |
| POST /aprs/tx, /sstv/tx | BurstCheck, BurstSend, BurstLog |
| scan and PATCH, as commands | ScanStart, ScanStop, Tune |
| `run_sdr` between reads | TakeRetune, TakeScan, TakeScanStop, TakeKey, TakeIgnored, ScanFrame, ThreadStops |
| `key_tx` | TxUnkey, TxDrop, TxChunk, TxOver, TxFails |
| `run_aprs`, `run_sstv` | TakeBurst, BurstOver, BurstLosesRx |
| the session's microphone track | MicPush |

A piece of audio carries who had asked to transmit when it was captured, which
is what FreshAudio looks at. Audio and time are counted in pieces, so that a time
limit is a number of turns of `key_tx`'s loop. The log finds its entry by the
client's name, and a session that ended meanwhile logs no name. Names need not be
unique, and AirIsLogged excepts clients that share one; in the runs each has its own.

### Voice

`stt_feed` loads the dispatch flag and only then takes the lock of the ring or
of the segment (FeedLooks; FeedRing, FeedOpen, FeedClosed). `set_continuous`
stores the flag and then resets the ring (StartFlag, StartRing; StopFlag,
StopRing, StopTake); `clear_transcript` takes three locks (ClearText, ClearSeg,
ClearRing). The worker takes a segment or a window, decodes without a lock, and
compares the ring's generation before it appends (TakeSegment, TakeWindow;
WindowText, WindowEmpty, OverText, Nothing; PushEntry). `upto` and `unheard` are
history: what windows have covered, and what of it was neither read nor reported
as skipped.

### Lookup

One module for both lookups, `flights` says which. Ask, Claim, FetchEnds, Release
and Store are the sections of `lookup` in the order of the code, Drop a request
dropped at its await, Age the clock.

### Fleet

`main` loads, resolves the devices, runs the preflight and spawns one task per
radio (Load), waits for a signal (Signal) and for its tasks (Exit). A task is
`supervise` with `run_once` and `stop_child` (LoopEnds, Spawn, SpawnFails,
WaitReturns, WaitFails, Exited, DelayEnds, StopChild, Stopped, GraceEnds). A
server runs, exits, or has SIGKILL on its way (ServerStops, ServerExits,
ServerDies). Kill leaves its servers behind as orphans, and Restart starts a
second hypervisor beside them. Ports wrap at `MaxPort` as they do at 2^16 in the
code. `Page` and `Announced` are what the fleet page and the beacons show.

### Analysis

Call is the life of the pipeline as this mode sees it: POST start stores
`running` after the spawn, PATCH stores mode and rate before the bounce, POST
stop after the join. Record is the four sections of POST /analysis/record
(RecordStart, CheckFree, MakeFile, Install); Block, Push and Ends the thread;
NewRows the arithmetic of `encode`. FellBehind says what a viewer cannot be sent: rows
that the ring dropped and rows beyond its limit.

### Sstv, Apt, ModeS, Hdlc, Tracks, Receivers

Each reads an ideal signal, a constant set of scripts, in blocks of every size. A
pipeline runs one of them: Receivers composes them, with a constant for what is on the
air for each, and MCReceivers gives those constants their values.

- *Sstv*: `feed` is Feed, then steps of the state machine until nothing moves
  (Look and BeginPicture for step_search, ReadHeader for step_vis, DecodeLine for
  step_frame), then Deliver, which drops samples (`drop_to`) and shows the canvas with the
  rows of this feed (`sheet`). A script says where each picture begins; ScriptsAssumption
  says that its tones are as `encode` sends them.
- *Apt*: Process adds words, DrainLine is one turn of `drain_lines` with `trim`
  and `push_line`. find_sync finds a sync that is in its window and anything
  otherwise.
- *ModeS*: Process takes a block of samples, NoFrame and PassFrame are the turns of the
  loop over the samples held, Drain keeps the tail (Kept).
- *Hdlc*: the sender of `aprs/tx.rs` sends arbitrary bits; both receivers take
  each bit of the same wire (AprsPush, AisPush). A plan says what the wire carries between
  the frames and how many flags there are.
- *Tracks*: `ingest` with `update_position` for ADS-B (global decoding of a pair,
  local decoding of a lone frame, range and speed gates, trail), with a report's
  place for AIS and APRS; Prune, the snapshot (Shown), and the pipeline that
  clears the table when it starts. GlobalEven, GlobalOdd and LocalDecode are
  `cpr.rs` on a ring of places: one dimension, the zone arithmetic kept. `stray` is a
  history field: a lone frame was decoded against the receiver from half a zone away or
  more, while another place that reads the same is in range (TooFar), or against a fix of
  that kind.

## 3. Runs

| Run | Instance | States | Shows |
|---|---|---|---|
| radio_config | 2 clients (start+patch; stop+patch+preset), 3 thread names, 2 modes, 2 frequencies, queue of 1 | 949,738 | VoiceMatchesPipeline, PipelineFollowsConfig: when the calls are over, transcriber and pipeline agree with the configuration |
| radio_stop | 3 clients (start; stop; stop+select+record), 1 frequency | 124,676 | HandleOwned, OneNotStopping: no thread is lost or joined twice; StoppedReadsIdle; RecordingStops; CallsReturn |
| media_sessions | 2 sessions, cap 1, lifetime 2, 2 requests of any kind, 2 connections | 240,987 | RegisteredPeerOpen, NoDoubleClose, OnePumpUnlessOverlapped; ImplementsLease; ExpiredLeaves, ReapedPeerStops |
| push_to_talk | 2 clients, 7 workloads, log of 1 to 4 entries, limit of 1 piece, buffer and clip of 2, queue of 2 | 634,974 | AirIsLogged; RxOnChannel, ScanOnChannel; ReleasedGoesQuiet; FreshAudio; TxEnds |
| voice | ring of 6 frames, windows of 3 to 5, 2 pipelines, 2 clears, 5 workloads | 204,021 | LossIsCounted; NoOldWindow; RingOwn; OverIsShipped |
| lookup | 2 contacts, 2 requests, cache of 1, times to live 3/2/1 | 408,255 | OneFetchPerKey; PendingHasFetcher; AnswerIsForCall |
| fleet | 2 radios, 3 SDRs, 13 configurations, 2 crashes, 1 failure, 1 kill | 38,911 | OneServerPerRadio; NoServerLeft; ComesBack, ShutdownEnds |
| analysis | 2 requests, 1 viewer, 2 files, 2 rates, ring of 2, 2 runs of 4 rows | 767,478 | OneRunPerRecording; RecordingIsFinished; RowsInOrder |
| receivers | the scripts of MCReceivers, blocks of every size up to a bound, a range gate wider than half a zone | 1,109,061 | CursorHeld, WholePicture; LinesFollow; TwiceOnlyAtCut; FramesDelivered; FixIsTrue, ShownIsCurrent |
| radio_patch_read_only, session_expired_peer | smaller sets of calls | | violations: see section 6 |
| receivers_far_reference | as receivers | | violation: see section 6 |

Each property has a mutant of the code it breaks on, defined beside the original
(`StopTake_Copies`, `Unregister_Detaches`, `Kept_NoPreamble`, ...).

### Bounds

*Radio.* A thread that is not joined is held by RunState or by one client, so
clients + 1 names are enough and StartSpawn is never held back by their number.
Two modes suffice because the handlers tell modes apart only by the five sets
the module takes as constants: the tone is in none of the SDR sets, the other
mode in all. Two frequencies show a stale one. MaxQueue = 1 blocks a sender
until the thread has drained or ended, where the real channel is unbounded; two
senders are enough to reorder. Three stops and starts at once are needed for a
handle to be lost, hence the third client of radio_stop.

*Sessions.* A cap of 1 with two sessions makes the refusal and the dropping of an
expired entry happen; a lifetime of 2 has a heartbeat arrive at full, half and no
time left. Two requests give every pair of operations; a connection name is free
again when nothing refers to it. When no name is free, an offer waits or fails.

*Push-to-talk.* A workload says which requests each client makes and what else
happens (microphone, tuning, scan, stop, mode, a missing device), because all at
once are too many; the seven cover each pair that shares state. It also says how long the
log is. A buffer of two
pieces with a clip of two overflows when the microphone is open too; a queue of
two has a key behind the release of the one before, or its own release behind it.
AirIsLogged says nothing of a log that is full, since its oldest entry may be gone; the
code keeps the last 200. In the first workload the log has four entries and two clients
fill it with keys, in the next two three, so that a key on the air meets its own entry,
that of another client and that of an earlier key in every order before it is full. Where
the workload has much else, for which the log does not matter, it has one.

*Voice.* The ring of 6 with windows of at most 5 overflows while a decoder is
slow; 14 frames take the ring round more than twice. A lead of 2 and a guard of 1
give overlapping windows. Two pipelines and two clears show one of each under way
when the other happens.

*Lookup.* Two contacts over a cache of one entry evict each other; two requests
are the least that race for a claim. The three times to live are distinct and in
the code's order.

*Fleet.* The configurations have ports apart, ports too near, a port that wraps,
each of the flags, servers that ignore SIGINT, and filters that match none, one
or several SDRs. A server may also exit because another holds its port, without
limit.

*Analysis.* An instance has either rows and a viewer or blocks and requests: the
two share nothing but the thread. A ring of 2, polls of at most 2 and 4 rows a run
have a viewer fall behind the ring and behind its own limit.

*Receivers.* Lengths are scaled down in proportion: a satellite line has 6 words
and a window of one word each way, a squitter's window 6 samples, a VIS code 2
bits, the world 48 places with 4 even and 3 odd zones of 12 and 16. The range is 8 and the
receiver hears up to 9, which is to the zones about what the default of 250 NM is to those
of the code, so that lone frames from half a zone away and from beyond the range occur. Every place at which a block
may end is reached; a block of 6 ticks brings the rest of a header and the whole first
line at once. Frames of the packet framing have 4 to 9 arbitrary bits, enough
for a stuffed bit, a flag inside the data and a run of seven; noise before a frame
has up to 12, enough for a false flag and an abort. The crafts' seconds outlast
every age (pair, reference, trail, forget).

### Deadlock

An instance of RadioManager, MediaSessions, PushToTalk or Lookup can always take
a step, and TLC checks that. Voice, Fleet, Analysis and the receivers stop: a
hypervisor exits, a script ends, a plan's number of runs is used up. Their
configurations say CHECK_DEADLOCK FALSE.

### Fairness

- *RadioManager*: a handler that was entered goes on (the runtime schedules its
  worker threads), and a thread opens its device or gives up, drains its channel
  and looks at its stop flag (each loop does so every frame, reads have a time-out
  of 0.2 s). Nothing obliges a client to call anything, nor a frame to arrive.
- *MediaSessions*: the clock runs, and the reaper task is polled, which includes
  that `pc.close()` returns to it. Requests get no fairness: the reaper's
  properties must not depend on them.
- *PushToTalk*: `key_tx` looks at its limit, the stop flag and the channel in every
  turn, and a burst's write has a time-out. A turn is strongly fair, because it
  waits for an empty channel: commands are HTTP requests and do not arrive faster
  than the loop reads them for ever.
- *Voice*: a live thread delivers its frames, one every 20 ms, and the worker runs.
  That the decoder returns is assumed.
- *Fleet*: the hypervisor's tasks run, delays end and SIGKILL works. Servers get no
  fairness: they need not exit, stop when told, or stay up.
- *Lookup, analysis, receivers*: none; safety only.

## 4. Proofs

All theorems hold for any values of the constants that satisfy the named
assumptions of the modules, among them: the mode sets are included in each other
as the code has them, null values are not members, lengths and caps are positive,
session ids are a finite set, a window is no longer than the ring, the times to
live are in order. Eight modules hold proofs; in each, one lemma per part of the
invariant, with one step per action.

**RadioManagerProofs.** `Inv` is inductive: VariableTypes, HandleInv, DraftHeld,
VoiceMatchesPipeline, TelemetryInv, RecorderInv and FollowInv.

- *HandleInv* is needed because "one holder per thread" does not say which
  handlers hold one: a client has a victim exactly at the flag and join steps,
  `running` is set exactly when a thread is registered, and no two clients hold
  the same thread. HandleOwned and OneNotStopping follow: the only thread that is
  neither flagged nor held by a stop() is the registered one.
- *VoiceMatchesPipeline* is stated with its exception, a client about to take
  the thread. It is preserved because set_continuous(false) always comes before
  that step and a spawn sets the voice mode under the run lock.
- *TelemetryInv* says who will still reset telemetry that is live: the
  registered pipeline's stop, or a stop() in progress. With it StoppedReadsIdle
  follows when every client is idle. It needs HandleInv for the threads that
  write: a live thread is registered or held.
- *RecorderInv*: a recording that was not opened late has a registered pipeline, and no
  stop() is between closing the recorder and taking the pipeline. A stop() can enter that
  stretch only by closing the recorder, so RecordingStops follows.
- *FollowInv* says what is still owed to a pipeline that differs from the configuration:
  a client on its way through stop and start owes it the mode (BounceOwed), one about to
  send a Retune, or the newest Retune in the queue, owes it the frequency (HotOwed). When
  no client is under way and the queue is empty nothing is owed, but for the two cases
  of `missed`.

**SessionProofs.** StoreType and StoreCap are inductive with the type invariant
and the finiteness of the map. StoreImplementsLease maps each step: Create to
Grant after the same step's lapses have already been counted dead, Delete of a
live session to End, Tick to Lapse, the others to stutters; that a step never
revives is where Heartbeat's `expires > now` is used. MediaInv = TypeOK and
Peers: RegisteredPeerOpen, NoDoubleClose, that what the reaper or a request is
closing is in state "closing", and that what an offer is building is open, its
own and not registered. OneStream adds whose pump a connection has: where no two offers
of a session overlapped, at most one pump of it runs (OnePumpUnlessOverlapped). ServerRunsStore shows that every step of MediaSessions
is a step of the store or leaves it alone, so ServerCap and
ServerImplementsLease follow from the store's theorems.

**PushToTalkProofs.** `IInv`: the types; *Receiving* (RxOnChannel, and a thread
that is gone is not keyed); ScanOnChannel; *Closed*, that the channel goes with its
thread, without which a release left behind by an old thread could not be told
from one ahead of a new key (ReleasedGoesQuiet); and *HeldFresh*, which says of
every client from the moment it clears the buffer what FreshAudio says of the one
on the air: whatever is in the buffer was captured after that. AirLogged needs *LogInv*, which
says of a client's key or clip from the moment it is sent, in the channel or on the air,
that its entry is written, is still to be written, or may be closed because the radio was
being stopped. The property has the condition the code needs, that no other client has the
name, because the log is closed by name.

**VoiceProofs.** Four invariants over the types. *HeardInv*: `committed` is never
past the end of the last window unless a retry put it there, so the next window's
lead reaches back to what was heard, and what the ring has dropped lies in the span
reported as skipped (NoSilentLoss). *WindowInv*: a window decoded from before a
finished clear or switch has an older generation than the ring (WindowsAreNew). *OwnInv*: a
thread that has ended has no frame on its way (RingIsOwn).

**LookupProofs.** *ClaimInv* (a request at a fetch holds its key's claim, and no two
hold the same), *OwnerInv* (a claim has a request at a fetch, or was dropped),
*CallInv* (an entry was fetched for the callsign it is stored under), and the cap.

**FleetProofs.** *SupervisorInv*: where a radio's task is says what has become of its
server and bounds the servers it had; NothingLeft, Restarts and ShownIsLive follow.
OneServer needs *OrphanInv* (a hypervisor that passed its preflight has no orphan
beside it, because an orphan holds a TCP port of its radio and the preflight tries
them all) and *ResolveInv* (whatever was started was resolved to an SDR of its own).

**AnalysisProofs.** *RecInv*: a file a request has made is empty and its own, what the
open recording holds is of the run that feeds it now, and a request that saw no
recording finds none unless it is `raced` (OneRun, Finished). *RowInv*: the ring holds
consecutive rows of one run that end at `seq`, and each viewer's cursor is the number
of the last row it was sent in this run (InOrder); a hole is excused by what the ring
dropped or the limit cut, not by what `encode` happened to return.

**ReceiverProofs.** One invariant for each receiver, for whatever is on the air.

- *PictureInv* (ScanHolds, mode on auto): what each state of the machine will read next is
  among the samples held, for any blocks: while searching, the cursor, and the beginning of
  the run of 1200 Hz it is in unless the run is longer than what is kept; in a header, its
  bits, unless they are all 1200 Hz, which is no mode's code (VisAssumption); in a picture,
  the line.
- *WholeInv* (PictureIsWhole, over PictureInv) says where the samples so far have brought
  the receiver. While it searches (SeekInv), it is before the last picture, or in its
  leader or start bit with as much leader counted as was sent, or beyond it with every line
  on the sheet. A tone as long as a start bit that the scan has counted is one on the air,
  from end to end, and a leader that was seen is younger than the last such tone (LedInv):
  so the scan can stop only for a picture's start bit, or for a header that is no mode's
  and ends before the last picture (ReadInv). In a picture it is at the line its rows say,
  and those before are painted (PaintInv). Between two blocks nothing is left to do
  (Settled), so at the end of the script only "beyond it" is left.
- *LinesInv* (LinesAreNext): the next line is expected a line after the last row. The pass
  has a sync within the search's reach of there, and one only (PassesAssumption).
- *SquitInv* (PassedOnce, of TwiceOnlyAtCut): the tail kept begins where a window does (TailInv); a block that
  ended with a window did so before the samples that are held now (CutInv); how often a
  frame was passed is decided by whether its window is behind the tail, at it, or ahead
  (CountInv), and they were passed in order (OrderInv). Frames on the air do not overlap
  (AirsAssumption).
- *PacketInv* (PacketsDelivered): the receivers have the sender's level, from the first
  bit on (LevelInv); within a flag, and within the data, the window ends with what was sent
  of it, which is why a flag is complete only where the sender ended one, whatever the bits
  of the frame (FlagInv, `Ends`); what a receiver holds is the payload, and after it as much
  of the closing flag as was sent, which FlagTail cuts off (AprsInv, AisInv). What the
  training and silence of an AIS burst leave in the window is given bit by bit (GapInv): the
  window is not one zero short of a flag when the burst's only flag begins.
- *TracksInv* (FixesAreTrue, NarrowGateIsTrue, ShownAreCurrent): every point of a track that
  is not a stray is where the craft was when it was heard, there are no strays unless the
  gate is wide (WideGate), the frames kept for a pair are as the craft sent them, and no fix is
  older than the last frame from a place a known receiver reaches. The decoding of a pair and
  of a lone frame is proved from the zone arithmetic of the ring, for any numbers of zones, if
  a craft is slower than the gate, moves less than half a zone while a fix is fresh and less
  than half the difference of the zones while two frames make a pair, and is not heard from
  the far side of the ring (ReachAssumption). Nothing is asked of the range gate: it may be
  wider than the zones, as the default is, and then FixesAreTrue excepts the strays.
  NarrowGateIsTrue has no exception, for a gate and a reach that together are narrower than a
  zone.

The assumptions say of the signals what the code takes for granted. For pictures
(ScriptsAssumption): each is sent as `encode` sends it, the last one after the others and
heard to its end with a margin, and no two modes share a code; any other 1200 Hz as long as
a start bit has no leader before it since the last such tone, or reads as no mode's header
and would be over when the last picture begins. A start bit within its leader, or a header
of another mode right before it, does cost the code the picture. For packets
(PlansAssumption) there are three: the first bit heard is mistaken, since the receiver
starts at a level of its own, so something comes before the only flag; noise that is not the
first gap is not long enough for a frame, whose check sequence would have to fail it; and
silence before a single flag is not six ones after a zero, which *is* five eighths of a flag
and hides the real one from the AIS receiver.

**Proved and not run**: SessionCap, CacheBounded, RestartsBounded and RunningIsLive.
They are plain bounds; their theorems say more than a run would.

**Model-checked only**: all liveness
(CallsReturn, ExpiredLeaves, ReapedPeerStops, TxEnds, OverIsShipped,
ComesBack, ShutdownEnds), which the prover's temporal reasoning does not reach. Nor does
it reach induction over data; the models have no recursive operator, and what loops in the
code is a step a turn in them.

## 5. Not modelled

- *DSP chains and message parsers* (`radio/dsp.rs`, the parsers below the trackers,
  the filters and colours of the receivers): floating point, or functions of one
  message. The receiver modules begin above them.
- *Network feeds* (Beast, NMEA, APRS-IS), *the server's beacon, mDNS, TLS, web UI
  serving*: I/O, without state that later behaviour depends on.
- *Web and Android clients*: the server has to be right for any client; their requests
  are the models' free choices.
- *Library back ends*: WebRTC, SoapySDR, the recogniser, the synthesiser and the remote
  services are external. They return something, nothing or an error, or do not return
  before a request is dropped.
- *Of the modelled components*: the audio state shown in a session's summary, trickle
  ICE (the handler ignores it) and close_all at shutdown; the words the recogniser
  carries over (tail_words); the file formats; validation of a configuration against a
  device; gain and demodulator settings, which travel like a retune; names, speeds and
  rates in the tables; a second dimension of positions.

## 6. Where documents and code differ

Three disagreements have a run that shows them.

- *PatchKeepsReadOnly*: "Read-only fields cannot be patched" (`api/radio.rs:23`).
  PATCH stores a copy it made under an earlier lock, so it puts back the
  `running` and the device id of that time.
- *GonePeerIsBeingClosed*: an expired session's peer is to be closed
  (`docs/rest-api.md:1398`). `create()` drops expired sessions itself, and the reaper
  never hears of them. DELETE drops its session without its peer as well.
- *ReferenceIsNear*: `adsb/cpr.rs:75` has references within about 180 NM. The range gate,
  which is all that a lone frame's position is checked against (`adsb/tracker.rs:200`), is
  `max_range_nm`, 250 by default (`catalog.rs:192`). A craft first heard at 240 NM is shown
  120 NM away on the other side, and its true fixes are then refused by the speed gate.
  FixIsTrue and ShownIsCurrent, under the same gate, except such strays only; what the
  gate would have to be for none to occur is NarrowGateIsTrue.

The others are in the models as the code has them, and the properties say where they
make an exception. Paths into `docs` are below `src/docs`.

Radio and sessions:

- "One SDR, one DSP pipeline" (`docs/architecture.md:160`): stop() clears `running` and
  releases the lock before it joins (`radio/mod.rs:844`), so a start() in between opens a
  second pipeline. What does hold is OneNotStopping.
- A recording is to stop with its pipeline (`docs/rest-api.md:1160`). stop() closes the
  recorder first (`radio/mod.rs:840`), and POST /radio/record opens one after a check of
  `running` it made earlier (`api/radio.rs:532`), so a recording may begin after the recorder
  was closed and stay open on a stopped radio. RecordingStops is about all others: the model
  marks what OpenedLate says.
- A session "owns at most one WebRTC peer connection" (`docs/rest-api.md:1341`):
  overlapping offers register one and leave the other's pump running (`media/mod.rs:251`).
- `docs/rest-api.md:991` gives presets the "same validation and hot-apply rules" as PATCH;
  `api/presets.rs` does neither.
- A PATCH of the frequency "cancels the scan" (`docs/rest-api.md:1200`,
  `docs/architecture.md:418`): while keyed, its retune is read and dropped
  (`radio/mod.rs:2036`). The scan goes on, and configuration and pipeline disagree.
- The transmit log is closed by client name, which is not unique: one client's release can
  close another's entry.

Voice and lookups:

- A span that `retry_empty` finds dropped (`voice/mod.rs:170`) is not counted as skipped,
  which the comments at lines 119-120 promise.
- `clear_transcript` is to drop "any buffered / half-decoded audio" (`voice/mod.rs:365`); an
  over that waits in the worker's channel or is being decoded comes after it (367-377).
- "one segment per over" (`docs/rest-api.md:1305`): a stop and a start leave the segment as
  it is, so one segment may hold audio of two runs.
- "pending" (`docs/rest-api.md:653`) is said of a key whose fetcher was dropped at its await
  for as long as the server runs (`flight/mod.rs:141`).
- A failed aircraft fetch with a route found is kept for the long time to live, where
  `flight/mod.rs:25-27` reserves that for good hits.

Hypervisor and analysis:

- The preflight tries TCP ports only (`alloc.rs:11`). The port arithmetic wraps in sixteen
  bits. `--max-restarts` counts over a lifetime, healthy minutes included. A spawn that
  fails is retried whatever the flags say. Without the soapy feature device filters are
  only compared as strings.
- A recording's file has the rate of the configuration, which need not be the running
  pipeline's (`analysis/iq_wav.rs:1-3`, `docs/rest-api.md:1500`). Two requests to record
  that overlap both succeed, where one is to get 409: the second drops the first's
  unfinished file. A late one leaves the recorder open on a stopped radio.
- A cursor from before a restart skips the rows of the new run up to it.

Receivers:

- The table of a stopped mode stays and is shown (`api/adsb.rs:1-3` has it empty).
- The test `survives_block_boundary` has a frame that is cut by a block boundary decoded once
  (`adsb/demod.rs:172`; it cuts within the preamble). The tail that is kept "so a frame
  spanning two blocks still decodes" (line 90) is a whole window, one sample more than an
  unfinished frame can have: a frame with whose window a block ends is handed on twice.
  Nothing else is: TwiceOnlyAtCut.
- `step_search` takes what f_at returns for its cursor for granted (`sstv/demod.rs:441`). In a
  forced mode the end of a 1200 Hz tone begins a picture at the tone's onset. If the tone was
  longer than the two seconds kept and a picture together, line 657 leaves the cursor at that
  picture's end, before the samples that are held, and the unwrap fails. In the automatic mode
  it cannot: CursorHeld.
- An AIS frame is lost if noise before it looked like a flag (`ais/demod.rs:203-204`); a
  silence of exactly six ones after a zero is enough. FramesDelivered asks of AIS only what
  its standard sends, and PlansAssumption leaves that silence out.
- The end of a header is biased "into the 9 ms sync rather than before it"
  (`sstv/demod.rs:519-520`), 6 ms into it, but the first line's edge is looked for 12 ms either
  way (559-586). When the block that completes a header ends before that place, and the
  next one brings the whole first line, the end of the stop bit is still held and is 1200 Hz
  too: the edge may be taken up to 6 ms before the sync. That is less than the model's
  tick, so its first line is not looked for a tick back (Back).
- A picture that is cut short is filled with what follows it, and a forced mode may begin
  on any 1200 Hz tone: WholePicture is about whole pictures in automatic mode. A cold APT
  search takes the best of noise and never searches the whole line again: LinesFollow begins
  with the first line that is framed.

## 7. Plan

1. Which device a running pipeline uses, related to the configuration.
2. The compositions left: push-to-talk under RadioManager's stop and start, and the reaper
   under a shutdown with close_all.
