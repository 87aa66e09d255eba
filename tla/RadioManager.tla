---------------------------- MODULE RadioManager ----------------------------
(***************************************************************************)
(* The radio pipeline manager of the LANline server and the REST handlers   *)
(* that drive it (server/src/radio/mod.rs, server/src/api/radio.rs,         *)
(* api/devices.rs, api/presets.rs, radio/audio_rec.rs).                     *)
(*                                                                          *)
(* Handlers run concurrently on a multi-threaded runtime.  They share four  *)
(* locked cells: the configuration (`cfg`), the device registry             *)
(* (`selected`), the manager's RunState (`run`) and the audio recorder      *)
(* (`recording`).  No handler holds a lock from its first check to its last *)
(* effect, so one action below is one critical section (or one atomic       *)
(* store) of the code, and `pc` says where in its handler a client is.      *)
(*                                                                          *)
(* Abstractions.  A configuration keeps two fields a PATCH may write:       *)
(* `mode` stands for everything whose change bounces the pipeline (mode,    *)
(* sample rate, channel, antenna, LO offset, ...), `freq` for everything    *)
(* applied live (frequency, gains, filter parameters).  Of what selecting a  *)
(* device resets in the tuner, only the device id is kept.  start() holds the *)
(* run lock from its check to its last assignment and is one action.  Two   *)
(* successive reads of `run.running` by one handler are merged into the     *)
(* later one.                                                               *)
(***************************************************************************)
EXTENDS Naturals, Sequences, SequencesExt

CONSTANTS
    Clients,          \* concurrent requests, each made by one client
    Calls,            \* Calls[c]: the handlers client c may invoke
    Pipelines,        \* names of pipeline threads, reused after a join
    Modes,            \* demodulation modes
    SdrModes,         \* modes that open the selected SDR
    RetuneModes,      \* SDR modes whose loop obeys Retune
    ContinuousModes,  \* modes transcribed as a continuous carrier
    AudioModes,       \* modes accepted by the audio recorder
    BootModes,        \* modes the server may start in
    Freqs, Devices,
    PresetMode, PresetFreq,   \* what the built-in preset stores
    MaxQueue,         \* bound: commands waiting in one pipeline's channel
    NoPipe, NoDevice, NoDraft

CallNames == {"start", "stop", "patch", "preset", "select", "record", "unrecord"}

ASSUME CallsAssumption == Calls \in [Clients -> SUBSET CallNames]
ASSUME ModesAssumption ==
    /\ RetuneModes \subseteq SdrModes /\ SdrModes \subseteq Modes
    /\ ContinuousModes \subseteq Modes /\ AudioModes \subseteq Modes
    /\ BootModes \subseteq Modes
    /\ PresetMode \in Modes /\ PresetFreq \in Freqs
ASSUME NullsAssumption == NoPipe \notin Pipelines /\ NoDevice \notin Devices
ASSUME QueueAssumption == MaxQueue \in Nat \ {0}

VARIABLES
    cfg,        \* the shared RadioConfig: what GET /radio shows
    selected,   \* the device held by the registry
    run,        \* RunState: running flag, and the thread its stop flag,
                \* join handle and command sender belong to
    pipe,       \* the pipeline threads
    voice,      \* VoiceShared.continuous
    recording,  \* the audio recorder: closed, open, or opened too late (see OpenedLate)
    telemetry,  \* "idle": Telemetry::default(), "live": written by a pipeline
    missed,     \* history: since the registered pipeline was spawned, a preset
                \* was stored or a Retune sent that the configuration had left
    pc, plan, draft, probed, victim   \* locals of each client's handler

managerVars == <<run, pipe>>
sideVars    == <<voice, recording, telemetry>>
localVars   == <<plan, draft, probed, victim>>
vars == <<cfg, selected, run, pipe, voice, recording, telemetry, missed,
          pc, plan, draft, probed, victim>>

Configs == [mode: Modes, freq: Freqs, running: BOOLEAN,
            device: Devices \cup {NoDevice}]

PipeStates == {"none", "starting", "running", "exited"}
RecordStates == {"none", "open", "late"}
PipeRecords == [state: PipeStates, stop: BOOLEAN, mode: Modes, freq: Freqs,
                dev: Devices \cup {NoDevice}, cmds: Seq(Freqs)]

Points == {"idle", "start", "start_flag",
           "stop_rec", "stop_voice", "stop_take", "stop_flag", "stop_join",
           "stop_reset", "stop_cfg",
           "patch_write", "apply", "select_probe", "select_reset", "record"}

VariableTypes ==
    /\ cfg \in Configs
    /\ selected \in Devices \cup {NoDevice}
    /\ run \in [running: BOOLEAN, thread: Pipelines \cup {NoPipe}]
    /\ pipe \in [Pipelines -> PipeRecords]
    /\ voice \in BOOLEAN /\ recording \in RecordStates /\ missed \in BOOLEAN
    /\ telemetry \in {"idle", "live"}
    /\ pc \in [Clients -> Points]
    /\ plan \in [Clients -> {"api", "bounce", "hot", "none"}]
    /\ draft \in [Clients -> Configs \cup {NoDraft}]
    /\ probed \in [Clients -> Devices \cup {NoDevice}]
    /\ victim \in [Clients -> Pipelines \cup {NoPipe}]

\* A PATCH between its first critical section and its last holds its copy.
DraftHeld == \A c \in Clients : pc[c] \in {"patch_write", "apply"} => draft[c] \in Configs

TypeOK == VariableTypes /\ DraftHeld

-----------------------------------------------------------------------------
(* Helpers *)

Live(t)    == pipe[t].state \in {"starting", "running"}
Settled    == \A c \in Clients : pc[c] = "idle"
IsSdr(t)   == pipe[t].dev # NoDevice       \* else a synth: tone or silence
NotJoined  == {t \in Pipelines : pipe[t].state # "none"}
Fresh      == CHOOSE t \in Pipelines : pipe[t].state = "none"

\* A name no thread has.
Unused == [state |-> "none", stop |-> FALSE, mode |-> PresetMode,
           freq |-> PresetFreq, dev |-> NoDevice, cmds |-> <<>>]

\* A thread that has returned, until it is joined.
Ended(t) == [Unused EXCEPT !.state = "exited", !.mode = pipe[t].mode]

\* PipelineParams::from_config: an SDR mode without a device plays silence.
DeviceFor(mode) == IF mode \in SdrModes THEN selected ELSE NoDevice

\* The frequency a pipeline is at once it has drained its channel.
TunedTo(t) == IF pipe[t].cmds = <<>> THEN pipe[t].freq ELSE Last(pipe[t].cmds)

\* Handler c goes on to a point of its code, keeping its locals.
Goto(c, point) == pc' = [pc EXCEPT ![c] = point] /\ UNCHANGED localVars

\* Handler c returns; its locals are gone.
Return(c) == /\ pc' = [pc EXCEPT ![c] = "idle"]
             /\ plan' = [plan EXCEPT ![c] = "none"]
             /\ draft' = [draft EXCEPT ![c] = NoDraft]
             /\ probed' = [probed EXCEPT ![c] = NoDevice]
             /\ victim' = [victim EXCEPT ![c] = NoPipe]

\* The same with one local assigned: the plan, and the point it leads to.
GotoWith(c, point, p) == /\ pc' = [pc EXCEPT ![c] = point]
                         /\ plan' = [plan EXCEPT ![c] = p]
                         /\ UNCHANGED <<draft, probed, victim>>

\* A client invokes one of the handlers it is allowed.
Begin(c, call) == pc[c] = "idle" /\ call \in Calls[c]

-----------------------------------------------------------------------------
(* POST /radio/start *)

\* The check of the handler: a mode other than the tone needs a ready device.
StartCheck(c) ==
    /\ Begin(c, "start")
    /\ cfg.mode \in SdrModes => selected # NoDevice
    /\ GotoWith(c, "start", "api")
    /\ UNCHANGED <<cfg, selected, managerVars, sideVars, missed>>

\* start() returns to the handler of POST /radio/start or ends a bounce.
StartReturn(c) == IF plan[c] = "api" THEN Goto(c, "start_flag") ELSE Return(c)

\* RadioManager::start with a pipeline already registered as running.
StartRunning(c) ==
    /\ pc[c] = "start" /\ run.running
    /\ StartReturn(c)
    /\ UNCHANGED <<cfg, selected, managerVars, sideVars, missed>>

\* Mutant of StartSpawn: `running` was checked before the lock was taken.
StartSpawn_Unchecked(c) ==
    /\ pc[c] = "start" /\ NotJoined # Pipelines
    /\ pipe' = [pipe EXCEPT ![Fresh] =
                  [Unused EXCEPT !.state = "starting", !.mode = cfg.mode, !.freq = cfg.freq]]
    /\ run' = [running |-> TRUE, thread |-> Fresh]
    /\ StartReturn(c)
    /\ UNCHANGED <<cfg, selected, sideVars, missed>>

\* RadioManager::start: read the configuration, spawn, register.
StartSpawn(c) ==
    /\ pc[c] = "start" /\ ~run.running
    /\ NotJoined # Pipelines
    /\ pipe' = [pipe EXCEPT ![Fresh] =
                  [state |-> "starting", stop |-> FALSE, mode |-> cfg.mode,
                   freq |-> cfg.freq, dev |-> DeviceFor(cfg.mode), cmds |-> <<>>]]
    /\ run' = [running |-> TRUE, thread |-> Fresh]
    /\ voice' = (cfg.mode \in ContinuousModes)
    /\ telemetry' = "idle"
    /\ missed' = FALSE
    /\ StartReturn(c)
    /\ UNCHANGED <<cfg, selected, recording>>

StartFlag(c) ==
    /\ pc[c] = "start_flag"
    /\ cfg' = [cfg EXCEPT !.running = TRUE]
    /\ Return(c)
    /\ UNCHANGED <<selected, managerVars, sideVars, missed>>

-----------------------------------------------------------------------------
(* RadioManager::stop, called by POST /radio/stop and by a bounce *)

StopBegin(c) ==
    /\ Begin(c, "stop")
    /\ GotoWith(c, "stop_rec", "api")
    /\ UNCHANGED <<cfg, selected, managerVars, sideVars, missed>>

\* Mutant of StopRecorder: the recording is left to the thread that feeds it.
StopRecorder_Leaves(c) ==
    /\ pc[c] = "stop_rec"
    /\ Goto(c, "stop_voice")
    /\ UNCHANGED <<cfg, selected, managerVars, sideVars, missed>>

StopRecorder(c) ==
    /\ pc[c] = "stop_rec"
    /\ recording' = "none"
    /\ Goto(c, "stop_voice")
    /\ UNCHANGED <<cfg, selected, managerVars, voice, telemetry, missed>>

StopVoice(c) ==
    /\ pc[c] = "stop_voice"
    /\ voice' = FALSE
    /\ Goto(c, "stop_take")
    /\ UNCHANGED <<cfg, selected, managerVars, recording, telemetry, missed>>

\* Mutant of StopTake: stop() copies the thread's handles and leaves them there.
StopTake_Copies(c) ==
    /\ pc[c] = "stop_take"
    /\ run' = [run EXCEPT !.running = FALSE]
    /\ victim' = [victim EXCEPT ![c] = run.thread]
    /\ pc' = [pc EXCEPT ![c] = IF run.thread = NoPipe THEN "stop_reset" ELSE "stop_flag"]
    /\ UNCHANGED <<cfg, selected, pipe, sideVars, missed, plan, draft, probed>>

\* Under the run lock: clear `running`, drop the sender, take flag and handle.
StopTake(c) ==
    /\ pc[c] = "stop_take"
    /\ run' = [running |-> FALSE, thread |-> NoPipe]
    /\ victim' = [victim EXCEPT ![c] = run.thread]
    /\ pc' = [pc EXCEPT ![c] = IF run.thread = NoPipe THEN "stop_reset" ELSE "stop_flag"]
    /\ missed' = FALSE
    /\ UNCHANGED <<cfg, selected, pipe, sideVars, plan, draft, probed>>

\* Mutant of StopFlag: stop() forgets to raise the flag.
StopFlag_Forgets(c) ==
    /\ pc[c] = "stop_flag"
    /\ Goto(c, "stop_join")
    /\ UNCHANGED <<cfg, selected, managerVars, sideVars, missed>>

StopFlag(c) ==
    /\ pc[c] = "stop_flag"
    /\ pipe' = [pipe EXCEPT ![victim[c]].stop = TRUE]
    /\ Goto(c, "stop_join")
    /\ UNCHANGED <<cfg, selected, run, sideVars, missed>>

\* Mutant of StopJoin: the thread is detached instead of joined.
StopJoin_Detaches(c) ==
    /\ pc[c] = "stop_join"
    /\ victim' = [victim EXCEPT ![c] = NoPipe]
    /\ pc' = [pc EXCEPT ![c] = "stop_reset"]
    /\ UNCHANGED <<cfg, selected, managerVars, sideVars, missed, plan, draft, probed>>

\* join() returns once the thread has exited; its name may be used again.
StopJoin(c) ==
    /\ pc[c] = "stop_join"
    /\ pipe[victim[c]].state = "exited"
    /\ pipe' = [pipe EXCEPT ![victim[c]] = Unused]
    /\ victim' = [victim EXCEPT ![c] = NoPipe]
    /\ pc' = [pc EXCEPT ![c] = "stop_reset"]
    /\ UNCHANGED <<cfg, selected, run, sideVars, missed, plan, draft, probed>>

\* Mutant of StopReset: the voice mode is reset after the join.
StopReset_Voice(c) ==
    /\ pc[c] = "stop_reset"
    /\ telemetry' = "idle" /\ voice' = FALSE
    /\ Goto(c, IF plan[c] = "api" THEN "stop_cfg" ELSE "start")
    /\ UNCHANGED <<cfg, selected, managerVars, recording, missed>>

StopReset(c) ==
    /\ pc[c] = "stop_reset"
    /\ telemetry' = "idle"
    /\ Goto(c, IF plan[c] = "api" THEN "stop_cfg" ELSE "start")
    /\ UNCHANGED <<cfg, selected, managerVars, voice, recording, missed>>

\* The handler's own last step.
StopCfg(c) ==
    /\ pc[c] = "stop_cfg"
    /\ cfg' = [cfg EXCEPT !.running = FALSE]
    /\ Return(c)
    /\ UNCHANGED <<selected, managerVars, sideVars, missed>>

-----------------------------------------------------------------------------
(* PATCH /radio *)

\* First critical section: merge the patch into a copy of the configuration.
\* `running` and `device` are removed from the patch, so the copy keeps what
\* the configuration holds now.  A rejected patch changes nothing.
PatchRead(c) ==
    /\ Begin(c, "patch")
    /\ \E m \in Modes, f \in Freqs :
         draft' = [draft EXCEPT ![c] = [cfg EXCEPT !.mode = m, !.freq = f]]
    /\ pc' = [pc EXCEPT ![c] = "patch_write"]
    /\ UNCHANGED <<cfg, selected, managerVars, sideVars, missed, plan, probed, victim>>

\* Mutant of Effect: the mode is not among the fields that need a restart.
Effect_ModeHot(old, new) == IF old # new THEN "hot" ELSE "none"

\* What apply_patch makes of the difference.
Effect(old, new) == CASE old.mode # new.mode -> "bounce"
                      [] old.mode = new.mode /\ old.freq # new.freq -> "hot"
                      [] OTHER -> "none"

\* Second critical section: store the copy, whatever happened in between.
PatchWrite(c) ==
    /\ pc[c] = "patch_write"
    /\ cfg' = draft[c]
    /\ GotoWith(c, "apply", Effect(cfg, draft[c]))
    /\ UNCHANGED <<selected, managerVars, sideVars, missed>>

\* apply_patch with no pipeline running, or with nothing to apply.
ApplyNothing(c) ==
    /\ pc[c] = "apply"
    /\ ~run.running \/ plan[c] = "none"
    /\ Return(c)
    /\ UNCHANGED <<cfg, selected, managerVars, sideVars, missed>>

\* reconfigure(): stop() then start().
ApplyBounce(c) ==
    /\ pc[c] = "apply" /\ run.running /\ plan[c] = "bounce"
    /\ draft' = [draft EXCEPT ![c] = NoDraft]
    /\ pc' = [pc EXCEPT ![c] = "stop_rec"]
    /\ UNCHANGED <<cfg, selected, managerVars, sideVars, missed, plan, probed, victim>>

\* Retune sent through the sender registered now.  Only a pipeline that reads
\* its channel keeps the command: a dead one has dropped the receiver.
ApplyHot(c) ==
    /\ pc[c] = "apply" /\ run.running /\ plan[c] = "hot"
    /\ LET t == run.thread IN
         IF Live(t) /\ IsSdr(t) /\ pipe[t].mode \in RetuneModes
           THEN /\ Len(pipe[t].cmds) < MaxQueue
                /\ pipe' = [pipe EXCEPT ![t].cmds = Append(@, draft[c].freq)]
           ELSE pipe' = pipe
    /\ missed' = (missed \/ draft[c].freq # cfg.freq)
    /\ Return(c)
    /\ UNCHANGED <<cfg, selected, run, sideVars>>

-----------------------------------------------------------------------------
(* POST /presets/{id}/apply, PUT /device, POST /radio/record *)

\* The preset is merged and stored in one critical section; nothing is applied.
Preset(c) ==
    /\ Begin(c, "preset")
    /\ cfg' = [cfg EXCEPT !.mode = PresetMode, !.freq = PresetFreq]
    /\ missed' = run.running
    /\ UNCHANGED <<selected, managerVars, sideVars, pc, localVars>>

\* The handler refuses when the configuration says the radio runs.
SelectCheck(c) ==
    /\ Begin(c, "select") /\ ~cfg.running
    /\ Goto(c, "select_probe")
    /\ UNCHANGED <<cfg, selected, managerVars, sideVars, missed>>

\* The registry opens the device; if that fails the handler returns.
SelectProbe(c) ==
    /\ pc[c] = "select_probe"
    /\ \/ \E d \in Devices : /\ selected' = d
                             /\ probed' = [probed EXCEPT ![c] = d]
                             /\ pc' = [pc EXCEPT ![c] = "select_reset"]
                             /\ UNCHANGED <<plan, draft, victim>>
       \/ Return(c) /\ UNCHANGED selected
    /\ UNCHANGED <<cfg, managerVars, sideVars, missed>>

SelectReset(c) ==
    /\ pc[c] = "select_reset"
    /\ cfg' = [cfg EXCEPT !.device = probed[c]]
    /\ Return(c)
    /\ UNCHANGED <<selected, managerVars, sideVars, missed>>

RecordCheck(c) ==
    /\ Begin(c, "record") /\ cfg.running /\ cfg.mode \in AudioModes
    /\ Goto(c, "record")
    /\ UNCHANGED <<cfg, selected, managerVars, sideVars, missed>>

\* A recording opened now is closed by no stop() that is under way: one has
\* closed the recorder and not yet taken the pipeline, or has taken it.
OpenedLate ==
    ~run.running \/ \E c \in Clients : pc[c] \in {"stop_voice", "stop_take"}

\* AudioRecorder::start: refused while one is open, and the file may not open.
RecordStart(c) ==
    /\ pc[c] = "record"
    /\ \/ /\ recording = "none"
          /\ recording' = IF OpenedLate THEN "late" ELSE "open"
       \/ UNCHANGED recording
    /\ Return(c)
    /\ UNCHANGED <<cfg, selected, managerVars, voice, telemetry, missed>>

RecordStop(c) ==
    /\ Begin(c, "unrecord") /\ recording # "none"
    /\ recording' = "none"
    /\ UNCHANGED <<cfg, selected, managerVars, voice, telemetry, missed, pc, localVars>>

-----------------------------------------------------------------------------
(* The pipeline threads: run_pipeline, run_synth and the run_* SDR loops *)

\* The device and its stream open and the telemetry label is written.
Open(t) ==
    /\ pipe[t].state = "starting"
    /\ pipe' = [pipe EXCEPT ![t].state = "running"]
    /\ telemetry' = "live"
    /\ UNCHANGED <<cfg, selected, run, voice, recording, missed, pc, localVars>>

\* The device, the stream or the encoder cannot be had: the thread returns,
\* and nothing tells the manager.
OpenFails(t) ==
    /\ pipe[t].state = "starting"
    /\ pipe' = [pipe EXCEPT ![t] = Ended(t)]
    /\ UNCHANGED <<cfg, selected, run, sideVars, missed, pc, localVars>>

\* One command of the drain at the top of the loop.
Retune(t) ==
    /\ pipe[t].state = "running" /\ pipe[t].cmds # <<>>
    /\ pipe' = [pipe EXCEPT ![t].freq = Head(pipe[t].cmds), ![t].cmds = Tail(@)]
    /\ UNCHANGED <<cfg, selected, run, sideVars, missed, pc, localVars>>

\* One frame: telemetry is updated, and the recorder closes at its cap.
Frame(t) ==
    /\ pipe[t].state = "running"
    /\ telemetry' = "live"
    /\ recording' \in IF pipe[t].mode \in AudioModes \/ ~IsSdr(t)
                        THEN {recording, "none"} ELSE {recording}
    /\ UNCHANGED <<cfg, selected, run, pipe, voice, missed, pc, localVars>>

StopSeen(t) ==
    /\ pipe[t].state = "running" /\ pipe[t].stop
    /\ pipe' = [pipe EXCEPT ![t] = Ended(t)]
    /\ UNCHANGED <<cfg, selected, run, sideVars, missed, pc, localVars>>

-----------------------------------------------------------------------------
\* RadioConfig::default_noaa (or the tone with --debug-tone), before any call.
Init ==
    /\ selected \in Devices \cup {NoDevice}
    /\ \E f \in Freqs, m \in BootModes :
         cfg = [mode |-> m, freq |-> f, running |-> FALSE, device |-> selected]
    /\ run = [running |-> FALSE, thread |-> NoPipe]
    /\ pipe = [t \in Pipelines |-> Unused]
    /\ voice = FALSE /\ recording = "none" /\ telemetry = "idle" /\ missed = FALSE
    /\ pc = [c \in Clients |-> "idle"]
    /\ plan = [c \in Clients |-> "none"]
    /\ draft = [c \in Clients |-> NoDraft]
    /\ probed = [c \in Clients |-> NoDevice]
    /\ victim = [c \in Clients |-> NoPipe]

Invoke(c) ==
    \/ StartCheck(c) \/ StopBegin(c) \/ PatchRead(c) \/ Preset(c)
    \/ SelectCheck(c) \/ RecordCheck(c) \/ RecordStop(c)

Proceed(c) ==
    \/ StartRunning(c) \/ StartSpawn(c) \/ StartFlag(c)
    \/ StopRecorder(c) \/ StopVoice(c) \/ StopTake(c) \/ StopFlag(c)
    \/ StopJoin(c) \/ StopReset(c) \/ StopCfg(c)
    \/ PatchWrite(c) \/ ApplyNothing(c) \/ ApplyBounce(c) \/ ApplyHot(c)
    \/ SelectProbe(c) \/ SelectReset(c) \/ RecordStart(c)

Thread(t) == Open(t) \/ OpenFails(t) \/ Retune(t) \/ Frame(t) \/ StopSeen(t)

Next == \/ \E c \in Clients : Invoke(c) \/ Proceed(c)
        \/ \E t \in Pipelines : Thread(t)

\* A handler that was entered is scheduled; a pipeline thread opens its
\* device or gives up, drains its channel, and looks at its stop flag.
Fairness == /\ \A c \in Clients : WF_vars(Proceed(c))
            /\ \A t \in Pipelines : /\ WF_vars(Open(t) \/ OpenFails(t))
                                    /\ WF_vars(Retune(t))
                                    /\ WF_vars(StopSeen(t))

Spec == Init /\ [][Next]_vars
FairSpec == Spec /\ Fairness

-----------------------------------------------------------------------------
(* Correctness *)

\* Every thread that was spawned and not yet joined has exactly one holder of
\* its stop flag and join handle: the manager's RunState, or the one stop()
\* that took them; no handle is lost and none is joined twice.
HandleOwned ==
    \A t \in Pipelines :
      LET stoppers == {c \in Clients : victim[c] = t} IN
      IF pipe[t].state = "none"
        THEN run.thread # t /\ stoppers = {}
        ELSE \/ run.thread = t /\ stoppers = {}
             \/ run.thread # t /\ \E c \in Clients : stoppers = {c}

\* Two pipelines may be alive at once, but all except one are on their way
\* out: flagged, or taken by a stop() whose next step is to flag them.
OneNotStopping ==
    \A t, u \in Pipelines :
      /\ Live(t) /\ ~pipe[t].stop /\ \A c \in Clients : victim[c] # t
      /\ Live(u) /\ ~pipe[u].stop /\ \A c \in Clients : victim[c] # u
      => t = u

\* The transcriber windows its audio exactly when the registered pipeline is
\* a continuous carrier, except between a stop()'s reset of the voice mode
\* and its taking of the pipeline: no late reset hits the next pipeline.
VoiceMatchesPipeline ==
    run.running /\ (\A c \in Clients : pc[c] # "stop_take")
      => (voice <=> pipe[run.thread].mode \in ContinuousModes)

\* With no call in progress and the radio stopped, the telemetry reads as
\* reset: no exiting thread wrote after its stop() cleared it.
StoppedReadsIdle == Settled /\ ~run.running => telemetry = "idle"

\* No recording outlives the pipeline it was opened on: once stop() has taken
\* the pipeline, the recorder is closed, or what it holds was opened after
\* that stop(), or a later one, had already closed it.
RecordingStops == ~run.running => recording # "open"

\* With no call in progress the running pipeline does what the configuration
\* says, unless a preset was stored or a Retune was overtaken by another PATCH.
PipelineFollowsConfig ==
    Settled /\ run.running /\ ~missed /\ Live(run.thread)
      => LET t == run.thread IN
         /\ pipe[t].mode = cfg.mode
         /\ IsSdr(t) /\ cfg.mode \in RetuneModes => TunedTo(t) = cfg.freq

\* Every call returns: no handler waits forever on a join or on another's.
CallsReturn == \A c \in Clients : pc[c] # "idle" ~> pc[c] = "idle"

-----------------------------------------------------------------------------
(* What the documents say and the code does not do *)

\* api/radio.rs: "Read-only fields cannot be patched": storing a patch leaves
\* `running` and the device id as they are.
PatchKeepsReadOnly ==
    [][\A c \in Clients : PatchWrite(c) =>
         cfg'.running = cfg.running /\ cfg'.device = cfg.device]_vars
=============================================================================
