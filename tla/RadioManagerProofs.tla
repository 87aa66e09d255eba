------------------------- MODULE RadioManagerProofs -------------------------
(***************************************************************************)
(* Proofs of RadioManager's type invariant and of its safety invariants, for *)
(* any sets of clients, pipelines, modes, frequencies and devices.           *)
(***************************************************************************)
EXTENDS RadioManager, SequenceTheorems, TLAPS

\* What stop() holds while it has a pipeline to end, and only then.
Stopping(c) == pc[c] \in {"stop_flag", "stop_join"}

\* `running` and the three fields assigned with it; a stop()'s local; and one
\* holder for every thread that has a name.
HandleInv ==
    /\ run.running <=> run.thread # NoPipe
    /\ \A c \in Clients : Stopping(c) <=> victim[c] # NoPipe
    /\ run.thread # NoPipe => pipe[run.thread].state # "none"
    /\ \A c \in Clients : victim[c] # NoPipe =>
         /\ pipe[victim[c]].state # "none"
         /\ victim[c] # run.thread
    /\ \A c, d \in Clients : victim[c] = victim[d] /\ victim[c] # NoPipe => c = d
    /\ \A t \in Pipelines : pipe[t].state # "none" =>
         run.thread = t \/ \E c \in Clients : victim[c] = t

\* Telemetry that is not as reset belongs to the registered pipeline, or some
\* stop() will still reset it.
TelemetryInv ==
    telemetry = "live" =>
      run.running \/ \E c \in Clients : pc[c] \in {"stop_flag", "stop_join", "stop_reset"}

\* A PATCH that will still bounce whatever pipeline is registered, ...
BounceOwed(c) == plan[c] = "bounce" /\ pc[c] \in {"apply", "stop_rec", "stop_voice", "stop_take"}

\* ... and one that will still send it the frequency the configuration shows.
HotOwed(c) == plan[c] = "hot" /\ pc[c] = "apply" /\ draft[c].freq = cfg.freq

\* What the configuration shows and the registered pipeline does not do, a PATCH
\* still owes it.
Follows(t) ==
    /\ pipe[t].mode = cfg.mode
    /\ IsSdr(t) /\ cfg.mode \in RetuneModes =>
         TunedTo(t) = cfg.freq \/ \E c \in Clients : HotOwed(c)

FollowInv ==
    run.running /\ ~missed /\ Live(run.thread) =>
      Follows(run.thread) \/ \E c \in Clients : BounceOwed(c)

\* A recording that was opened in time: its pipeline is registered, and no
\* stop() is between closing the recorder and taking the pipeline.
RecorderInv ==
    recording = "open" =>
      run.running /\ \A c \in Clients : pc[c] \notin {"stop_voice", "stop_take"}

Inv == /\ VariableTypes /\ HandleInv /\ DraftHeld
       /\ VoiceMatchesPipeline /\ TelemetryInv /\ FollowInv /\ RecorderInv

-----------------------------------------------------------------------------
\* The record of a name no thread has is a pipeline record, ...
LEMMA UnusedType == Unused \in PipeRecords
  BY ModesAssumption DEF Unused, PipeRecords, PipeStates

\* ... and so is that of a thread that has ended, whatever its mode.
LEMMA EndedType ==
  ASSUME NEW m \in Modes
  PROVE  [Unused EXCEPT !.state = "exited", !.mode = m] \in PipeRecords
  BY UnusedType DEF PipeRecords, PipeStates

\* Fields of a pipeline record have their types, and updates keep them.
LEMMA PipeFields ==
  ASSUME NEW r \in PipeRecords
  PROVE  /\ r.state \in PipeStates /\ r.mode \in Modes /\ r.cmds \in Seq(Freqs)
         /\ \A s \in PipeStates : [r EXCEPT !.state = s] \in PipeRecords
         /\ [r EXCEPT !.stop = TRUE] \in PipeRecords
         /\ \A q \in Seq(Freqs) : [r EXCEPT !.cmds = q] \in PipeRecords
         /\ \A f \in Freqs, q \in Seq(Freqs) :
              [r EXCEPT !.freq = f, !.cmds = q] \in PipeRecords
  BY DEF PipeRecords

\* A command sent or drained leaves the rest of a pipeline alone.
LEMMA KeptFields ==
  ASSUME NEW r \in PipeRecords, NEW f, NEW q
  PROVE  /\ [r EXCEPT !.cmds = q].state = r.state
         /\ [r EXCEPT !.cmds = q].mode = r.mode
         /\ [r EXCEPT !.cmds = q].dev = r.dev
         /\ [r EXCEPT !.freq = f, !.cmds = q].mode = r.mode
  BY DEF PipeRecords

\* Fields of a configuration have their types, and updates keep them.
LEMMA ConfigFields ==
  ASSUME NEW k \in Configs
  PROVE  /\ k.mode \in Modes /\ k.freq \in Freqs
         /\ \A b \in BOOLEAN : [k EXCEPT !.running = b] \in Configs
         /\ \A d \in Devices : [k EXCEPT !.device = d] \in Configs
         /\ \A d \in Devices \cup {NoDevice} : [k EXCEPT !.device = d] \in Configs
         /\ \A m \in Modes, f \in Freqs : [k EXCEPT !.mode = m, !.freq = f] \in Configs
  BY DEF Configs

\* Every step keeps the types.
LEMMA TypeNext == Inv /\ [Next]_vars => VariableTypes'
<1> SUFFICES ASSUME Inv, [Next]_vars PROVE VariableTypes'
  OBVIOUS
<1> USE DEF Inv, VariableTypes, managerVars, sideVars, localVars, Points,
            Goto, GotoWith, Return
<1>2. ASSUME NEW c \in Clients, StartCheck(c) PROVE VariableTypes'
  BY <1>2 DEF StartCheck
<1>3. ASSUME NEW c \in Clients, StartRunning(c) PROVE VariableTypes'
  BY <1>3 DEF StartRunning, StartReturn
<1>4. ASSUME NEW c \in Clients, StartSpawn(c) PROVE VariableTypes'
  <2>1. Fresh \in Pipelines
    BY <1>4 DEF StartSpawn, Fresh, NotJoined
  <2>2. DeviceFor(cfg.mode) \in Devices \cup {NoDevice}
    BY DEF DeviceFor
  <2>3. pipe' \in [Pipelines -> PipeRecords]
    <3>1. [state |-> "starting", stop |-> FALSE, mode |-> cfg.mode, freq |-> cfg.freq,
           dev |-> DeviceFor(cfg.mode), cmds |-> <<>>] \in PipeRecords
      <4>1. cfg.mode \in Modes /\ cfg.freq \in Freqs
        BY ConfigFields
      <4>2. <<>> \in Seq(Freqs)
        OBVIOUS
      <4> QED
        BY <2>2, <4>1, <4>2 DEF PipeRecords, PipeStates
    <3> QED
      BY <1>4, <2>1, <3>1 DEF StartSpawn
  <2> QED
    <3>1. voice' \in BOOLEAN
      <4>1. (cfg.mode \in ContinuousModes) \in BOOLEAN
        OBVIOUS
      <4> HIDE DEF Inv, VariableTypes
      <4> QED
        BY <1>4, <4>1, Zenon DEF StartSpawn
    <3>2. run' \in [running: BOOLEAN, thread: Pipelines \cup {NoPipe}]
      BY <1>4, <2>1 DEF StartSpawn
    <3>3. /\ pc' \in [Clients -> Points]
          /\ plan' \in [Clients -> {"api", "bounce", "hot", "none"}]
          /\ draft' \in [Clients -> Configs \cup {NoDraft}]
          /\ probed' \in [Clients -> Devices \cup {NoDevice}]
          /\ victim' \in [Clients -> Pipelines \cup {NoPipe}]
      BY <1>4 DEF StartSpawn, StartReturn
    <3>4. cfg' = cfg /\ selected' = selected /\ recording' = recording
          /\ telemetry' = "idle" /\ missed' = FALSE
      BY <1>4 DEF StartSpawn
    <3> QED
      BY <2>3, <3>1, <3>2, <3>3, <3>4
<1>5. ASSUME NEW c \in Clients, StartFlag(c) PROVE VariableTypes'
  BY <1>5, ConfigFields DEF StartFlag
<1>6. ASSUME NEW c \in Clients, StopBegin(c) PROVE VariableTypes'
  BY <1>6 DEF StopBegin
<1>7. ASSUME NEW c \in Clients, StopRecorder(c) PROVE VariableTypes'
  BY <1>7 DEF StopRecorder, RecordStates
<1>8. ASSUME NEW c \in Clients, StopVoice(c) PROVE VariableTypes'
  BY <1>8 DEF StopVoice
<1>9. ASSUME NEW c \in Clients, StopTake(c) PROVE VariableTypes'
  BY <1>9 DEF StopTake
<1>10. ASSUME NEW c \in Clients, StopFlag(c) PROVE VariableTypes'
  <2>1. victim[c] \in Pipelines
    BY <1>10 DEF StopFlag, HandleInv, Stopping
  <2>2. pipe' \in [Pipelines -> PipeRecords]
    BY <1>10, <2>1, PipeFields DEF StopFlag
  <2> QED
    BY <1>10, <2>2 DEF StopFlag
<1>11. ASSUME NEW c \in Clients, StopJoin(c) PROVE VariableTypes'
  <2>1. pipe' \in [Pipelines -> PipeRecords]
    BY <1>11, UnusedType DEF StopJoin
  <2> QED
    BY <1>11, <2>1 DEF StopJoin
<1>12. ASSUME NEW c \in Clients, StopReset(c) PROVE VariableTypes'
  BY <1>12 DEF StopReset
<1>13. ASSUME NEW c \in Clients, StopCfg(c) PROVE VariableTypes'
  BY <1>13, ConfigFields DEF StopCfg
<1>14. ASSUME NEW c \in Clients, PatchRead(c) PROVE VariableTypes'
  <2>1. draft' \in [Clients -> Configs \cup {NoDraft}]
    <3>1. PICK m \in Modes, f \in Freqs :
            draft' = [draft EXCEPT ![c] = [cfg EXCEPT !.mode = m, !.freq = f]]
      BY <1>14 DEF PatchRead
    <3>2. [cfg EXCEPT !.mode = m, !.freq = f] \in Configs
      BY ConfigFields
    <3> QED
      BY <3>1, <3>2
  <2> QED
    BY <1>14, <2>1 DEF PatchRead
<1>15. ASSUME NEW c \in Clients, PatchWrite(c) PROVE VariableTypes'
  <2>1. cfg' \in Configs
    BY <1>15 DEF PatchWrite, DraftHeld
  <2>2. Effect(cfg, draft[c]) \in {"bounce", "hot", "none"}
    BY DEF Effect
  <2> QED
    BY <1>15, <2>1, <2>2 DEF PatchWrite
<1>16. ASSUME NEW c \in Clients, ApplyNothing(c) PROVE VariableTypes'
  BY <1>16 DEF ApplyNothing
<1>17. ASSUME NEW c \in Clients, ApplyBounce(c) PROVE VariableTypes'
  BY <1>17 DEF ApplyBounce
<1>18. ASSUME NEW c \in Clients, ApplyHot(c) PROVE VariableTypes'
  <2>1. run.thread \in Pipelines /\ draft[c].freq \in Freqs
    BY <1>18, ConfigFields DEF ApplyHot, HandleInv, DraftHeld
  <2>2. Append(pipe[run.thread].cmds, draft[c].freq) \in Seq(Freqs)
    <3>1. pipe[run.thread].cmds \in Seq(Freqs)
      BY <2>1, PipeFields
    <3> QED
      BY <2>1, <3>1
  <2>3. pipe' \in [Pipelines -> PipeRecords]
    <3> DEFINE r == [pipe[run.thread] EXCEPT
                       !.cmds = Append(pipe[run.thread].cmds, draft[c].freq)]
    <3>1. r \in PipeRecords
      BY <2>1, <2>2, PipeFields
    <3>2. pipe' = pipe \/ pipe' = [pipe EXCEPT ![run.thread] = r]
      BY <1>18 DEF ApplyHot
    <3> QED
      BY <2>1, <3>1, <3>2
  <2> QED
    BY <1>18, <2>3 DEF ApplyHot
<1>19. ASSUME NEW c \in Clients, Preset(c) PROVE VariableTypes'
  <2>1. cfg' \in Configs
    BY <1>19, ModesAssumption, ConfigFields DEF Preset
  <2> QED
    BY <1>19, <2>1 DEF Preset
<1>20. ASSUME NEW c \in Clients, SelectCheck(c) PROVE VariableTypes'
  BY <1>20 DEF SelectCheck
<1>21. ASSUME NEW c \in Clients, SelectProbe(c) PROVE VariableTypes'
  <2>1. CASE UNCHANGED selected /\ Return(c)
    BY <1>21, <2>1 DEF SelectProbe
  <2>2. CASE ~(UNCHANGED selected /\ Return(c))
    BY <1>21, <2>2 DEF SelectProbe
  <2> QED
    BY <2>1, <2>2
<1>22. ASSUME NEW c \in Clients, SelectReset(c) PROVE VariableTypes'
  BY <1>22, ConfigFields DEF SelectReset
<1>23. ASSUME NEW c \in Clients, RecordCheck(c) PROVE VariableTypes'
  BY <1>23 DEF RecordCheck
<1>24. ASSUME NEW c \in Clients, RecordStart(c) PROVE VariableTypes'
  BY <1>24 DEF RecordStart, RecordStates
<1>25. ASSUME NEW c \in Clients, RecordStop(c) PROVE VariableTypes'
  BY <1>25 DEF RecordStop, RecordStates
<1>26. ASSUME NEW t \in Pipelines, Open(t) PROVE VariableTypes'
  <2>1. pipe' \in [Pipelines -> PipeRecords]
    BY <1>26, PipeFields DEF Open, PipeStates
  <2> QED
    BY <1>26, <2>1 DEF Open
<1>27. ASSUME NEW t \in Pipelines, OpenFails(t) PROVE VariableTypes'
  <2>1. pipe' \in [Pipelines -> PipeRecords]
    BY <1>27, EndedType, PipeFields DEF OpenFails, Ended
  <2> QED
    BY <1>27, <2>1 DEF OpenFails
<1>28. ASSUME NEW t \in Pipelines, Retune(t) PROVE VariableTypes'
  <2>1. Head(pipe[t].cmds) \in Freqs /\ Tail(pipe[t].cmds) \in Seq(Freqs)
    <3>1. pipe[t].cmds \in Seq(Freqs) /\ pipe[t].cmds # <<>>
      BY <1>28, PipeFields DEF Retune
    <3> QED
      BY <3>1
  <2>2. pipe' \in [Pipelines -> PipeRecords]
    BY <1>28, <2>1, PipeFields DEF Retune
  <2> QED
    BY <1>28, <2>2 DEF Retune
<1>29. ASSUME NEW t \in Pipelines, Frame(t) PROVE VariableTypes'
  BY <1>29 DEF Frame, RecordStates
<1>30. ASSUME NEW t \in Pipelines, StopSeen(t) PROVE VariableTypes'
  <2>1. pipe' \in [Pipelines -> PipeRecords]
    BY <1>30, EndedType, PipeFields DEF StopSeen, Ended
  <2> QED
    BY <1>30, <2>1 DEF StopSeen
<1>31. CASE UNCHANGED vars
  BY <1>31 DEF vars
<1> QED
  BY <1>2, <1>3, <1>4, <1>5, <1>6, <1>7, <1>8, <1>9, <1>10, <1>11, <1>12, <1>13, <1>14,
     <1>15, <1>16, <1>17, <1>18, <1>19, <1>20, <1>21, <1>22, <1>23, <1>24, <1>25,
     <1>26, <1>27, <1>28, <1>29, <1>30, <1>31 DEF Next, Invoke, Proceed, Thread

-----------------------------------------------------------------------------
\* A command sent to a pipeline changes neither its state nor its mode.
LEMMA HotKeeps ==
  ASSUME VariableTypes, HandleInv, NEW c \in Clients, ApplyHot(c)
  PROVE  \A t \in Pipelines : pipe'[t].state = pipe[t].state /\ pipe'[t].mode = pipe[t].mode
<1> DEFINE r == [pipe[run.thread] EXCEPT !.cmds = Append(pipe[run.thread].cmds, draft[c].freq)]
<1>1. run.thread \in Pipelines
  BY DEF VariableTypes, HandleInv, ApplyHot
<1>2. r.state = pipe[run.thread].state /\ r.mode = pipe[run.thread].mode
  BY <1>1, KeptFields DEF VariableTypes
<1>3. pipe' = pipe \/ pipe' = [pipe EXCEPT ![run.thread] = r]
  BY DEF ApplyHot
<1> QED
  BY <1>1, <1>2, <1>3 DEF VariableTypes

\* A handler that returns holds no pipeline, so its return frees none.
LEMMA ReturnFreesNone ==
  ASSUME VariableTypes, HandleInv, NEW c \in Clients, ~Stopping(c), Return(c)
  PROVE  victim' = victim
  BY DEF VariableTypes, HandleInv, Return

\* A step that moves no handle preserves HandleInv.
LEMMA HandleFrame ==
  ASSUME HandleInv, run' = run, victim' = victim,
         \A t \in Pipelines : pipe'[t].state = "none" <=> pipe[t].state = "none",
         \A c \in Clients : Stopping(c)' <=> Stopping(c),
         VariableTypes
  PROVE  HandleInv'
  BY DEF HandleInv, VariableTypes

\* Every step keeps one holder for every thread that has a name.
LEMMA HandleNext == Inv /\ [Next]_vars => HandleInv'
<1> SUFFICES ASSUME Inv, [Next]_vars PROVE HandleInv'
  OBVIOUS
<1> USE DEF Inv
<1>1. ASSUME NEW c \in Clients, StartCheck(c) PROVE HandleInv'
  BY <1>1, HandleFrame DEF StartCheck, Goto, GotoWith, localVars,
     managerVars, Begin, Stopping, VariableTypes
<1>2. ASSUME NEW c \in Clients, StartRunning(c) PROVE HandleInv'
  <2>1. victim' = victim
    BY <1>2, ReturnFreesNone DEF StartRunning, StartReturn, Goto, localVars, Stopping
  <2> QED
    BY <1>2, <2>1, HandleFrame DEF StartRunning, StartReturn, Goto, Return, localVars,
       managerVars, Stopping, VariableTypes
<1>3. ASSUME NEW c \in Clients, StartSpawn(c) PROVE HandleInv'
  <2>1. Fresh \in Pipelines /\ pipe[Fresh].state = "none"
    BY <1>3 DEF StartSpawn, Fresh, NotJoined
  <2>2. victim' = victim
    BY <1>3, ReturnFreesNone DEF StartSpawn, StartReturn, Goto, localVars, Stopping
  <2>3. \A d \in Clients : Stopping(d)' <=> Stopping(d)
    BY <1>3 DEF StartSpawn, StartReturn, Goto, Return, Stopping, VariableTypes
  <2>4. run.thread = NoPipe /\ run'.running /\ run'.thread = Fresh
    BY <1>3 DEF StartSpawn, HandleInv
  <2>5. /\ pipe'[Fresh].state = "starting"
        /\ \A t \in Pipelines : t # Fresh => pipe'[t].state = pipe[t].state
    BY <1>3, <2>1 DEF StartSpawn, VariableTypes
  <2> QED
    BY <2>1, <2>2, <2>3, <2>4, <2>5, NullsAssumption DEF HandleInv, VariableTypes
<1>4. ASSUME NEW c \in Clients, StartFlag(c) PROVE HandleInv'
  <2>1. victim' = victim
    BY <1>4, ReturnFreesNone DEF StartFlag, Goto, localVars, Stopping
  <2> QED
    BY <1>4, <2>1, HandleFrame DEF StartFlag, Goto, Return, localVars,
       managerVars, Stopping, VariableTypes
<1>5. ASSUME NEW c \in Clients, StopBegin(c) PROVE HandleInv'
  BY <1>5, HandleFrame DEF StopBegin, Goto, GotoWith, localVars,
     managerVars, Begin, Stopping, VariableTypes
<1>6. ASSUME NEW c \in Clients, StopRecorder(c) PROVE HandleInv'
  BY <1>6, HandleFrame DEF StopRecorder, Goto, GotoWith, localVars,
     managerVars, Begin, Stopping, VariableTypes
<1>7. ASSUME NEW c \in Clients, StopVoice(c) PROVE HandleInv'
  BY <1>7, HandleFrame DEF StopVoice, Goto, GotoWith, localVars,
     managerVars, Begin, Stopping, VariableTypes
<1>8. ASSUME NEW c \in Clients, StopTake(c) PROVE HandleInv'
  <2>1. run'.running = FALSE /\ run'.thread = NoPipe /\ pipe' = pipe
    BY <1>8 DEF StopTake
  <2>2. victim[c] = NoPipe
    BY <1>8 DEF StopTake, HandleInv, Stopping
  <2>3. /\ victim'[c] = run.thread
        /\ \A d \in Clients : d # c => victim'[d] = victim[d]
    BY <1>8 DEF StopTake, VariableTypes
  <2>4. /\ Stopping(c)' <=> run.thread # NoPipe
        /\ \A d \in Clients : d # c => (Stopping(d)' <=> Stopping(d))
    BY <1>8 DEF StopTake, VariableTypes, Stopping
  <2>5. \A d \in Clients : Stopping(d)' <=> victim'[d] # NoPipe
    BY <2>3, <2>4 DEF HandleInv
  <2>6. \A d \in Clients : victim'[d] # NoPipe =>
           pipe'[victim'[d]].state # "none" /\ victim'[d] # run'.thread
    BY <2>1, <2>3 DEF HandleInv
  <2>7. \A d, e \in Clients : victim'[d] = victim'[e] /\ victim'[d] # NoPipe => d = e
    BY <2>3 DEF HandleInv
  <2>8. \A t \in Pipelines : pipe'[t].state # "none" =>
           run'.thread = t \/ \E d \in Clients : victim'[d] = t
    BY <2>1, <2>2, <2>3, NullsAssumption DEF HandleInv
  <2> QED
    BY <2>1, <2>5, <2>6, <2>7, <2>8 DEF HandleInv
<1>9. ASSUME NEW c \in Clients, StopFlag(c) PROVE HandleInv'
  BY <1>9, HandleFrame DEF StopFlag, Goto, localVars, Stopping, VariableTypes
<1>10. ASSUME NEW c \in Clients, StopJoin(c) PROVE HandleInv'
  <2> DEFINE v == victim[c]
  <2>1. v \in Pipelines /\ v # run.thread /\ run' = run
    BY <1>10 DEF StopJoin, HandleInv, Stopping, VariableTypes
  <2>2. /\ pipe'[v].state = "none"
        /\ \A t \in Pipelines : t # v => pipe'[t] = pipe[t]
    BY <1>10, <2>1 DEF StopJoin, Unused, VariableTypes
  <2>3. /\ victim'[c] = NoPipe
        /\ \A d \in Clients : d # c => victim'[d] = victim[d] /\ victim[d] # v
    BY <1>10, <2>1, NullsAssumption DEF StopJoin, HandleInv, VariableTypes
  <2>4. /\ ~Stopping(c)'
        /\ \A d \in Clients : d # c => (Stopping(d)' <=> Stopping(d))
    BY <1>10 DEF StopJoin, Stopping, VariableTypes
  <2>5. \A d \in Clients : Stopping(d)' <=> victim'[d] # NoPipe
    BY <2>3, <2>4 DEF HandleInv
  <2>6. \A d \in Clients : victim'[d] # NoPipe =>
           pipe'[victim'[d]].state # "none" /\ victim'[d] # run'.thread
    BY <2>1, <2>2, <2>3 DEF HandleInv, VariableTypes
  <2>7. \A d, e \in Clients : victim'[d] = victim'[e] /\ victim'[d] # NoPipe => d = e
    BY <2>3 DEF HandleInv
  <2>8. \A t \in Pipelines : pipe'[t].state # "none" =>
           run'.thread = t \/ \E d \in Clients : victim'[d] = t
    BY <2>1, <2>2, <2>3 DEF HandleInv
  <2>9. run'.thread # NoPipe => pipe'[run'.thread].state # "none"
    BY <2>1, <2>2 DEF HandleInv, VariableTypes
  <2> QED
    BY <2>1, <2>5, <2>6, <2>7, <2>8, <2>9 DEF HandleInv
<1>11. ASSUME NEW c \in Clients, StopReset(c) PROVE HandleInv'
  BY <1>11, HandleFrame DEF StopReset, Goto, GotoWith, localVars,
     managerVars, Begin, Stopping, VariableTypes
<1>12. ASSUME NEW c \in Clients, StopCfg(c) PROVE HandleInv'
  <2>1. victim' = victim
    BY <1>12, ReturnFreesNone DEF StopCfg, Goto, localVars, Stopping
  <2> QED
    BY <1>12, <2>1, HandleFrame DEF StopCfg, Goto, Return, localVars,
       managerVars, Stopping, VariableTypes
<1>13. ASSUME NEW c \in Clients, PatchRead(c) PROVE HandleInv'
  BY <1>13, HandleFrame DEF PatchRead, managerVars, Begin, Stopping, VariableTypes
<1>14. ASSUME NEW c \in Clients, PatchWrite(c) PROVE HandleInv'
  BY <1>14, HandleFrame DEF PatchWrite, Goto, GotoWith, localVars,
     managerVars, Begin, Stopping, VariableTypes
<1>15. ASSUME NEW c \in Clients, ApplyNothing(c) PROVE HandleInv'
  <2>1. victim' = victim
    BY <1>15, ReturnFreesNone DEF ApplyNothing, Goto, localVars, Stopping
  <2> QED
    BY <1>15, <2>1, HandleFrame DEF ApplyNothing, Goto, Return, localVars,
       managerVars, Stopping, VariableTypes
<1>16. ASSUME NEW c \in Clients, ApplyBounce(c) PROVE HandleInv'
  BY <1>16, HandleFrame DEF ApplyBounce, managerVars, Stopping, VariableTypes
<1>17. ASSUME NEW c \in Clients, ApplyHot(c) PROVE HandleInv'
  <2>1. victim' = victim
    BY <1>17, ReturnFreesNone DEF ApplyHot, Goto, localVars, Stopping
  <2>2. \A t \in Pipelines : pipe'[t].state = pipe[t].state
    BY <1>17, HotKeeps
  <2>3. \A d \in Clients : Stopping(d)' <=> Stopping(d)
    BY <1>17 DEF ApplyHot, Return, Stopping, VariableTypes
  <2> QED
    BY <1>17, <2>1, <2>2, <2>3, HandleFrame DEF ApplyHot
<1>18. ASSUME NEW c \in Clients, Preset(c) PROVE HandleInv'
  BY <1>18, HandleFrame DEF Preset, managerVars, localVars, Stopping, VariableTypes
<1>19. ASSUME NEW c \in Clients, SelectCheck(c) PROVE HandleInv'
  BY <1>19, HandleFrame DEF SelectCheck, Goto, GotoWith, localVars,
     managerVars, Begin, Stopping, VariableTypes
<1>20. ASSUME NEW c \in Clients, SelectProbe(c) PROVE HandleInv'
  <2>1. victim' = victim
    BY <1>20, ReturnFreesNone DEF SelectProbe, Goto, localVars, Stopping
  <2> QED
    BY <1>20, <2>1, HandleFrame DEF SelectProbe, Goto, Return, localVars,
       managerVars, Stopping, VariableTypes
<1>21. ASSUME NEW c \in Clients, SelectReset(c) PROVE HandleInv'
  <2>1. victim' = victim
    BY <1>21, ReturnFreesNone DEF SelectReset, Goto, localVars, Stopping
  <2> QED
    BY <1>21, <2>1, HandleFrame DEF SelectReset, Goto, Return, localVars,
       managerVars, Stopping, VariableTypes
<1>22. ASSUME NEW c \in Clients, RecordCheck(c) PROVE HandleInv'
  BY <1>22, HandleFrame DEF RecordCheck, Goto, GotoWith, localVars,
     managerVars, Begin, Stopping, VariableTypes
<1>23. ASSUME NEW c \in Clients, RecordStart(c) PROVE HandleInv'
  <2>1. victim' = victim
    BY <1>23, ReturnFreesNone DEF RecordStart, Goto, localVars, Stopping
  <2> QED
    BY <1>23, <2>1, HandleFrame DEF RecordStart, Goto, Return, localVars,
       managerVars, Stopping, VariableTypes
<1>24. ASSUME NEW c \in Clients, RecordStop(c) PROVE HandleInv'
  BY <1>24, HandleFrame DEF RecordStop, managerVars, localVars, Stopping, VariableTypes
<1>25. ASSUME NEW t \in Pipelines, Open(t) PROVE HandleInv'
  BY <1>25, HandleFrame DEF Open, localVars, Stopping, VariableTypes
<1>26. ASSUME NEW t \in Pipelines, OpenFails(t) PROVE HandleInv'
  BY <1>26, HandleFrame DEF OpenFails, Ended, localVars, Stopping, VariableTypes
<1>27. ASSUME NEW t \in Pipelines, Retune(t) PROVE HandleInv'
  BY <1>27, HandleFrame DEF Retune, localVars, Stopping, VariableTypes
<1>28. ASSUME NEW t \in Pipelines, Frame(t) PROVE HandleInv'
  BY <1>28, HandleFrame DEF Frame, localVars, Stopping, VariableTypes
<1>29. ASSUME NEW t \in Pipelines, StopSeen(t) PROVE HandleInv'
  BY <1>29, HandleFrame DEF StopSeen, Ended, localVars, Stopping, VariableTypes
<1>30. CASE UNCHANGED vars
  BY <1>30, HandleFrame DEF vars, Stopping
<1> QED
  BY <1>1, <1>2, <1>3, <1>4, <1>5, <1>6, <1>7, <1>8, <1>9, <1>10, <1>11, <1>12, <1>13, <1>14, <1>15,
     <1>16, <1>17, <1>18, <1>19, <1>20, <1>21, <1>22, <1>23, <1>24, <1>25, <1>26,
     <1>27, <1>28, <1>29, <1>30 DEF Next, Invoke, Proceed, Thread

\* Every step keeps the copy of a PATCH that is still to be stored or applied.
LEMMA DraftNext == Inv /\ [Next]_vars => DraftHeld'
<1> SUFFICES ASSUME Inv, [Next]_vars PROVE DraftHeld'
  OBVIOUS
<1> USE DEF Inv, VariableTypes, managerVars, sideVars, localVars, Goto, GotoWith, Return,
            Begin, StartReturn
<1>1. ASSUME NEW c \in Clients, StartCheck(c) PROVE DraftHeld'
  BY <1>1 DEF StartCheck, DraftHeld
<1>2. ASSUME NEW c \in Clients, StartRunning(c) PROVE DraftHeld'
  BY <1>2 DEF StartRunning, DraftHeld
<1>3. ASSUME NEW c \in Clients, StartSpawn(c) PROVE DraftHeld'
  BY <1>3 DEF StartSpawn, DraftHeld
<1>4. ASSUME NEW c \in Clients, StartFlag(c) PROVE DraftHeld'
  BY <1>4 DEF StartFlag, DraftHeld
<1>5. ASSUME NEW c \in Clients, StopBegin(c) PROVE DraftHeld'
  BY <1>5 DEF StopBegin, DraftHeld
<1>6. ASSUME NEW c \in Clients, StopRecorder(c) PROVE DraftHeld'
  BY <1>6 DEF StopRecorder, DraftHeld
<1>7. ASSUME NEW c \in Clients, StopVoice(c) PROVE DraftHeld'
  BY <1>7 DEF StopVoice, DraftHeld
<1>8. ASSUME NEW c \in Clients, StopTake(c) PROVE DraftHeld'
  BY <1>8 DEF StopTake, DraftHeld
<1>9. ASSUME NEW c \in Clients, StopFlag(c) PROVE DraftHeld'
  BY <1>9 DEF StopFlag, DraftHeld
<1>10. ASSUME NEW c \in Clients, StopJoin(c) PROVE DraftHeld'
  BY <1>10 DEF StopJoin, DraftHeld
<1>11. ASSUME NEW c \in Clients, StopReset(c) PROVE DraftHeld'
  BY <1>11 DEF StopReset, DraftHeld
<1>12. ASSUME NEW c \in Clients, StopCfg(c) PROVE DraftHeld'
  BY <1>12 DEF StopCfg, DraftHeld
<1>13. ASSUME NEW c \in Clients, PatchRead(c) PROVE DraftHeld'
  <2>1. PICK m \in Modes, f \in Freqs :
          draft' = [draft EXCEPT ![c] = [cfg EXCEPT !.mode = m, !.freq = f]]
    BY <1>13 DEF PatchRead
  <2>2. [cfg EXCEPT !.mode = m, !.freq = f] \in Configs
    BY ConfigFields
  <2> QED
    BY <1>13, <2>1, <2>2 DEF PatchRead, DraftHeld
<1>14. ASSUME NEW c \in Clients, PatchWrite(c) PROVE DraftHeld'
  BY <1>14 DEF PatchWrite, DraftHeld
<1>15. ASSUME NEW c \in Clients, ApplyNothing(c) PROVE DraftHeld'
  BY <1>15 DEF ApplyNothing, DraftHeld
<1>16. ASSUME NEW c \in Clients, ApplyBounce(c) PROVE DraftHeld'
  BY <1>16 DEF ApplyBounce, DraftHeld
<1>17. ASSUME NEW c \in Clients, ApplyHot(c) PROVE DraftHeld'
  BY <1>17 DEF ApplyHot, DraftHeld
<1>18. ASSUME NEW c \in Clients, Preset(c) PROVE DraftHeld'
  BY <1>18 DEF Preset, DraftHeld
<1>19. ASSUME NEW c \in Clients, SelectCheck(c) PROVE DraftHeld'
  BY <1>19 DEF SelectCheck, DraftHeld
<1>20. ASSUME NEW c \in Clients, SelectProbe(c) PROVE DraftHeld'
  BY <1>20 DEF SelectProbe, DraftHeld
<1>21. ASSUME NEW c \in Clients, SelectReset(c) PROVE DraftHeld'
  BY <1>21 DEF SelectReset, DraftHeld
<1>22. ASSUME NEW c \in Clients, RecordCheck(c) PROVE DraftHeld'
  BY <1>22 DEF RecordCheck, DraftHeld
<1>23. ASSUME NEW c \in Clients, RecordStart(c) PROVE DraftHeld'
  BY <1>23 DEF RecordStart, DraftHeld
<1>24. ASSUME NEW c \in Clients, RecordStop(c) PROVE DraftHeld'
  BY <1>24 DEF RecordStop, DraftHeld
<1>25. ASSUME NEW t \in Pipelines, Open(t) PROVE DraftHeld'
  BY <1>25 DEF Open, DraftHeld
<1>26. ASSUME NEW t \in Pipelines, OpenFails(t) PROVE DraftHeld'
  BY <1>26 DEF OpenFails, DraftHeld
<1>27. ASSUME NEW t \in Pipelines, Retune(t) PROVE DraftHeld'
  BY <1>27 DEF Retune, DraftHeld
<1>28. ASSUME NEW t \in Pipelines, Frame(t) PROVE DraftHeld'
  BY <1>28 DEF Frame, DraftHeld
<1>29. ASSUME NEW t \in Pipelines, StopSeen(t) PROVE DraftHeld'
  BY <1>29 DEF StopSeen, DraftHeld
<1>30. CASE UNCHANGED vars
  BY <1>30 DEF vars, DraftHeld
<1> QED
  BY <1>1, <1>2, <1>3, <1>4, <1>5, <1>6, <1>7, <1>8, <1>9, <1>10, <1>11, <1>12, <1>13, <1>14, <1>15,
     <1>16, <1>17, <1>18, <1>19, <1>20, <1>21, <1>22, <1>23, <1>24, <1>25, <1>26,
     <1>27, <1>28, <1>29, <1>30 DEF Next, Invoke, Proceed, Thread

\* Every step keeps the voice mode that of the registered pipeline.
LEMMA VoiceNext == Inv /\ [Next]_vars => VoiceMatchesPipeline'
<1> SUFFICES ASSUME Inv, [Next]_vars PROVE VoiceMatchesPipeline'
  OBVIOUS
<1> USE DEF Inv, VariableTypes, managerVars, sideVars, localVars, Goto, GotoWith, Return,
            Begin, StartReturn
<1>1. ASSUME NEW c \in Clients, StartCheck(c) PROVE VoiceMatchesPipeline'
  BY <1>1 DEF StartCheck, VoiceMatchesPipeline
<1>2. ASSUME NEW c \in Clients, StartRunning(c) PROVE VoiceMatchesPipeline'
  BY <1>2 DEF StartRunning, VoiceMatchesPipeline
<1>3. ASSUME NEW c \in Clients, StartSpawn(c) PROVE VoiceMatchesPipeline'
  <2>1. Fresh \in Pipelines
    BY <1>3 DEF StartSpawn, Fresh, NotJoined
  <2>2. pipe'[Fresh].mode = cfg.mode /\ run'.thread = Fresh
    BY <1>3, <2>1 DEF StartSpawn
  <2>3. voice' <=> cfg.mode \in ContinuousModes
    BY <1>3 DEF StartSpawn
  <2> QED
    BY <2>2, <2>3 DEF VoiceMatchesPipeline
<1>4. ASSUME NEW c \in Clients, StartFlag(c) PROVE VoiceMatchesPipeline'
  BY <1>4 DEF StartFlag, VoiceMatchesPipeline
<1>5. ASSUME NEW c \in Clients, StopBegin(c) PROVE VoiceMatchesPipeline'
  BY <1>5 DEF StopBegin, VoiceMatchesPipeline
<1>6. ASSUME NEW c \in Clients, StopRecorder(c) PROVE VoiceMatchesPipeline'
  BY <1>6 DEF StopRecorder, VoiceMatchesPipeline
<1>7. ASSUME NEW c \in Clients, StopVoice(c) PROVE VoiceMatchesPipeline'
  BY <1>7 DEF StopVoice, VoiceMatchesPipeline
<1>8. ASSUME NEW c \in Clients, StopTake(c) PROVE VoiceMatchesPipeline'
  BY <1>8 DEF StopTake, VoiceMatchesPipeline
<1>9. ASSUME NEW c \in Clients, StopFlag(c) PROVE VoiceMatchesPipeline'
  BY <1>9 DEF StopFlag, VoiceMatchesPipeline
<1>10. ASSUME NEW c \in Clients, StopJoin(c) PROVE VoiceMatchesPipeline'
  <2>1. victim[c] \in Pipelines /\ victim[c] # run.thread
    BY <1>10 DEF StopJoin, HandleInv, Stopping
  <2>2. run.running => pipe'[run.thread] = pipe[run.thread]
    BY <1>10, <2>1 DEF StopJoin, HandleInv
  <2> QED
    BY <1>10, <2>2 DEF StopJoin, VoiceMatchesPipeline
<1>11. ASSUME NEW c \in Clients, StopReset(c) PROVE VoiceMatchesPipeline'
  BY <1>11 DEF StopReset, VoiceMatchesPipeline
<1>12. ASSUME NEW c \in Clients, StopCfg(c) PROVE VoiceMatchesPipeline'
  BY <1>12 DEF StopCfg, VoiceMatchesPipeline
<1>13. ASSUME NEW c \in Clients, PatchRead(c) PROVE VoiceMatchesPipeline'
  BY <1>13 DEF PatchRead, VoiceMatchesPipeline
<1>14. ASSUME NEW c \in Clients, PatchWrite(c) PROVE VoiceMatchesPipeline'
  BY <1>14 DEF PatchWrite, VoiceMatchesPipeline
<1>15. ASSUME NEW c \in Clients, ApplyNothing(c) PROVE VoiceMatchesPipeline'
  BY <1>15 DEF ApplyNothing, VoiceMatchesPipeline
<1>16. ASSUME NEW c \in Clients, ApplyBounce(c) PROVE VoiceMatchesPipeline'
  BY <1>16 DEF ApplyBounce, VoiceMatchesPipeline
<1>17. ASSUME NEW c \in Clients, ApplyHot(c) PROVE VoiceMatchesPipeline'
  <2>1. run.running => pipe'[run.thread].mode = pipe[run.thread].mode
    BY <1>17, HotKeeps DEF HandleInv
  <2> QED
    BY <1>17, <2>1 DEF ApplyHot, VoiceMatchesPipeline
<1>18. ASSUME NEW c \in Clients, Preset(c) PROVE VoiceMatchesPipeline'
  BY <1>18 DEF Preset, VoiceMatchesPipeline
<1>19. ASSUME NEW c \in Clients, SelectCheck(c) PROVE VoiceMatchesPipeline'
  BY <1>19 DEF SelectCheck, VoiceMatchesPipeline
<1>20. ASSUME NEW c \in Clients, SelectProbe(c) PROVE VoiceMatchesPipeline'
  BY <1>20 DEF SelectProbe, VoiceMatchesPipeline
<1>21. ASSUME NEW c \in Clients, SelectReset(c) PROVE VoiceMatchesPipeline'
  BY <1>21 DEF SelectReset, VoiceMatchesPipeline
<1>22. ASSUME NEW c \in Clients, RecordCheck(c) PROVE VoiceMatchesPipeline'
  BY <1>22 DEF RecordCheck, VoiceMatchesPipeline
<1>23. ASSUME NEW c \in Clients, RecordStart(c) PROVE VoiceMatchesPipeline'
  BY <1>23 DEF RecordStart, VoiceMatchesPipeline
<1>24. ASSUME NEW c \in Clients, RecordStop(c) PROVE VoiceMatchesPipeline'
  BY <1>24 DEF RecordStop, VoiceMatchesPipeline
<1>25. ASSUME NEW t \in Pipelines, Open(t) PROVE VoiceMatchesPipeline'
  BY <1>25 DEF Open, VoiceMatchesPipeline
<1>26. ASSUME NEW t \in Pipelines, OpenFails(t) PROVE VoiceMatchesPipeline'
  BY <1>26 DEF OpenFails, VoiceMatchesPipeline, Ended
<1>27. ASSUME NEW t \in Pipelines, Retune(t) PROVE VoiceMatchesPipeline'
  <2>1. \A u \in Pipelines : pipe'[u].mode = pipe[u].mode
    BY <1>27, KeptFields DEF Retune
  <2>2. run.running => run.thread \in Pipelines
    BY DEF HandleInv
  <2> QED
    BY <1>27, <2>1, <2>2 DEF Retune, VoiceMatchesPipeline
<1>28. ASSUME NEW t \in Pipelines, Frame(t) PROVE VoiceMatchesPipeline'
  BY <1>28 DEF Frame, VoiceMatchesPipeline
<1>29. ASSUME NEW t \in Pipelines, StopSeen(t) PROVE VoiceMatchesPipeline'
  BY <1>29 DEF StopSeen, VoiceMatchesPipeline, Ended
<1>30. CASE UNCHANGED vars
  BY <1>30 DEF vars, VoiceMatchesPipeline
<1> QED
  BY <1>1, <1>2, <1>3, <1>4, <1>5, <1>6, <1>7, <1>8, <1>9, <1>10, <1>11, <1>12, <1>13, <1>14, <1>15,
     <1>16, <1>17, <1>18, <1>19, <1>20, <1>21, <1>22, <1>23, <1>24, <1>25, <1>26,
     <1>27, <1>28, <1>29, <1>30 DEF Next, Invoke, Proceed, Thread

\* After every step, live telemetry still has somebody who will reset it.
LEMMA TelemetryNext == Inv /\ [Next]_vars => TelemetryInv'
<1> SUFFICES ASSUME Inv, [Next]_vars PROVE TelemetryInv'
  OBVIOUS
<1> USE DEF Inv, VariableTypes, managerVars, sideVars, localVars, Goto, GotoWith, Return,
            Begin, StartReturn
<1>1. ASSUME NEW c \in Clients, StartCheck(c) PROVE TelemetryInv'
  BY <1>1 DEF StartCheck, TelemetryInv
<1>2. ASSUME NEW c \in Clients, StartRunning(c) PROVE TelemetryInv'
  BY <1>2 DEF StartRunning, TelemetryInv
<1>3. ASSUME NEW c \in Clients, StartSpawn(c) PROVE TelemetryInv'
  BY <1>3 DEF StartSpawn, TelemetryInv
<1>4. ASSUME NEW c \in Clients, StartFlag(c) PROVE TelemetryInv'
  BY <1>4 DEF StartFlag, TelemetryInv
<1>5. ASSUME NEW c \in Clients, StopBegin(c) PROVE TelemetryInv'
  BY <1>5 DEF StopBegin, TelemetryInv
<1>6. ASSUME NEW c \in Clients, StopRecorder(c) PROVE TelemetryInv'
  BY <1>6 DEF StopRecorder, TelemetryInv
<1>7. ASSUME NEW c \in Clients, StopVoice(c) PROVE TelemetryInv'
  BY <1>7 DEF StopVoice, TelemetryInv
<1>8. ASSUME NEW c \in Clients, StopTake(c) PROVE TelemetryInv'
  BY <1>8 DEF StopTake, TelemetryInv
<1>9. ASSUME NEW c \in Clients, StopFlag(c) PROVE TelemetryInv'
  BY <1>9 DEF StopFlag, TelemetryInv
<1>10. ASSUME NEW c \in Clients, StopJoin(c) PROVE TelemetryInv'
  BY <1>10 DEF StopJoin, TelemetryInv
<1>11. ASSUME NEW c \in Clients, StopReset(c) PROVE TelemetryInv'
  BY <1>11 DEF StopReset, TelemetryInv
<1>12. ASSUME NEW c \in Clients, StopCfg(c) PROVE TelemetryInv'
  BY <1>12 DEF StopCfg, TelemetryInv
<1>13. ASSUME NEW c \in Clients, PatchRead(c) PROVE TelemetryInv'
  BY <1>13 DEF PatchRead, TelemetryInv
<1>14. ASSUME NEW c \in Clients, PatchWrite(c) PROVE TelemetryInv'
  BY <1>14 DEF PatchWrite, TelemetryInv
<1>15. ASSUME NEW c \in Clients, ApplyNothing(c) PROVE TelemetryInv'
  BY <1>15 DEF ApplyNothing, TelemetryInv
<1>16. ASSUME NEW c \in Clients, ApplyBounce(c) PROVE TelemetryInv'
  BY <1>16 DEF ApplyBounce, TelemetryInv
<1>17. ASSUME NEW c \in Clients, ApplyHot(c) PROVE TelemetryInv'
  BY <1>17 DEF ApplyHot, TelemetryInv
<1>18. ASSUME NEW c \in Clients, Preset(c) PROVE TelemetryInv'
  BY <1>18 DEF Preset, TelemetryInv
<1>19. ASSUME NEW c \in Clients, SelectCheck(c) PROVE TelemetryInv'
  BY <1>19 DEF SelectCheck, TelemetryInv
<1>20. ASSUME NEW c \in Clients, SelectProbe(c) PROVE TelemetryInv'
  BY <1>20 DEF SelectProbe, TelemetryInv
<1>21. ASSUME NEW c \in Clients, SelectReset(c) PROVE TelemetryInv'
  BY <1>21 DEF SelectReset, TelemetryInv
<1>22. ASSUME NEW c \in Clients, RecordCheck(c) PROVE TelemetryInv'
  BY <1>22 DEF RecordCheck, TelemetryInv
<1>23. ASSUME NEW c \in Clients, RecordStart(c) PROVE TelemetryInv'
  BY <1>23 DEF RecordStart, TelemetryInv
<1>24. ASSUME NEW c \in Clients, RecordStop(c) PROVE TelemetryInv'
  BY <1>24 DEF RecordStop, TelemetryInv
<1>25. ASSUME NEW t \in Pipelines, Open(t) PROVE TelemetryInv'
  <2>1. run.thread = t \/ \E d \in Clients : victim[d] = t
    BY <1>25 DEF Open, HandleInv
  <2>2. run.running \/ \E d \in Clients : Stopping(d)
    BY <2>1, NullsAssumption DEF HandleInv
  <2> QED
    BY <1>25, <2>2 DEF Open, TelemetryInv, Stopping
<1>26. ASSUME NEW t \in Pipelines, OpenFails(t) PROVE TelemetryInv'
  BY <1>26 DEF OpenFails, TelemetryInv, HandleInv, Stopping
<1>27. ASSUME NEW t \in Pipelines, Retune(t) PROVE TelemetryInv'
  BY <1>27 DEF Retune, TelemetryInv, HandleInv, Stopping
<1>28. ASSUME NEW t \in Pipelines, Frame(t) PROVE TelemetryInv'
  <2>1. run.thread = t \/ \E d \in Clients : victim[d] = t
    BY <1>28 DEF Frame, HandleInv
  <2>2. run.running \/ \E d \in Clients : Stopping(d)
    BY <2>1, NullsAssumption DEF HandleInv
  <2> QED
    BY <1>28, <2>2 DEF Frame, TelemetryInv, Stopping
<1>29. ASSUME NEW t \in Pipelines, StopSeen(t) PROVE TelemetryInv'
  BY <1>29 DEF StopSeen, TelemetryInv, HandleInv, Stopping
<1>30. CASE UNCHANGED vars
  BY <1>30 DEF vars, TelemetryInv
<1> QED
  BY <1>1, <1>2, <1>3, <1>4, <1>5, <1>6, <1>7, <1>8, <1>9, <1>10, <1>11, <1>12, <1>13, <1>14, <1>15,
     <1>16, <1>17, <1>18, <1>19, <1>20, <1>21, <1>22, <1>23, <1>24, <1>25, <1>26,
     <1>27, <1>28, <1>29, <1>30 DEF Next, Invoke, Proceed, Thread

-----------------------------------------------------------------------------
\* A step that touches no more of the registered pipeline than its stop flag,
\* keeps mode and frequency of the configuration and settles no PATCH keeps
\* what is owed.
LEMMA FollowFrame ==
  ASSUME FollowInv, HandleInv, VariableTypes,
         run' = run, missed' = missed,
         cfg'.mode = cfg.mode, cfg'.freq = cfg.freq,
         run.thread \in Pipelines => pipe'[run.thread] = pipe[run.thread],
         \A c \in Clients : BounceOwed(c) => BounceOwed(c)',
         \A c \in Clients : HotOwed(c) => HotOwed(c)'
  PROVE  FollowInv'
<1> SUFFICES ASSUME run.running, ~missed, Live(run.thread)'
             PROVE  Follows(run.thread)' \/ \E c \in Clients : BounceOwed(c)'
  BY DEF FollowInv
<1> DEFINE t == run.thread
<1>1. t \in Pipelines /\ pipe'[t] = pipe[t] /\ run'.thread = t
  BY DEF HandleInv, VariableTypes
<1>2. Follows(t) \/ \E c \in Clients : BounceOwed(c)
  BY <1>1 DEF FollowInv, Live
<1>3. CASE Follows(t)
  BY <1>1, <1>3 DEF Follows, IsSdr, TunedTo
<1> QED
  BY <1>2, <1>3

\* The same of a step that leaves the pipelines and the configuration alone.
LEMMA FollowQuiet ==
  ASSUME FollowInv, HandleInv, VariableTypes,
         UNCHANGED <<run, pipe, cfg, missed>>,
         \A c \in Clients : BounceOwed(c) => BounceOwed(c)',
         \A c \in Clients : HotOwed(c) => HotOwed(c)'
  PROVE  FollowInv'
  BY FollowFrame

\* A channel is empty when its length is zero.
LEMMA EmptyChannel ==
  ASSUME NEW q \in Seq(Freqs)
  PROVE  q = <<>> <=> Len(q) = 0
<1>1. q # <<>> => Len(q) \in Nat \ {0}
  BY EmptySeq
<1>2. Len(<<>>) = 0
  BY EmptySeq
<1> QED
  BY <1>1, <1>2

\* The last command of a channel one was appended to, and of one drained by one.
LEMMA LastCommand ==
  ASSUME NEW q \in Seq(Freqs), NEW f \in Freqs
  PROVE  /\ Append(q, f) # <<>> /\ Last(Append(q, f)) = f
         /\ q # <<>> => IF Tail(q) = <<>> THEN Head(q) = Last(q)
                                          ELSE Last(Tail(q)) = Last(q)
<1>1. Append(q, f) # <<>> /\ Last(Append(q, f)) = f
  BY DEF Last
<1>2. ASSUME q # <<>>
      PROVE  IF Tail(q) = <<>> THEN Head(q) = Last(q) ELSE Last(Tail(q)) = Last(q)
  <2> DEFINE rest == Tail(q)
  <2>1. /\ Len(q) \in Nat \ {0} /\ Head(q) = q[1]
        /\ rest \in Seq(Freqs) /\ Len(rest) = Len(q) - 1
        /\ \A i \in 1 .. Len(rest) : rest[i] = q[i + 1]
    BY <1>2, EmptySeq, HeadTailProperties
  <2> HIDE DEF rest
  <2>2. CASE Len(q) = 1
    <3>1. rest = <<>>
      BY <2>1, <2>2, EmptyChannel
    <3> QED
      BY <2>1, <2>2, <3>1 DEF Last, rest
  <2>3. CASE Len(q) # 1
    <3>1. rest # <<>>
      BY <2>1, <2>3, EmptyChannel
    <3>2. Last(rest) = Last(q)
      <4>1. Len(q) - 1 \in 1 .. Len(rest) /\ (Len(q) - 1) + 1 = Len(q)
        BY <2>1, <2>3
      <4> QED
        BY <2>1, <4>1 DEF Last
    <3> QED
      BY <3>1, <3>2 DEF rest
  <2> QED
    BY <2>2, <2>3
<1> QED
  BY <1>1, <1>2

\* Every step leaves what the registered pipeline lacks owed to it by a PATCH.
LEMMA FollowNext == Inv /\ [Next]_vars => FollowInv'
<1> SUFFICES ASSUME Inv, [Next]_vars PROVE FollowInv'
  OBVIOUS
<1> USE DEF Inv
<1>0. /\ FollowInv /\ HandleInv /\ VariableTypes
      /\ pc \in [Clients -> Points] /\ pipe \in [Pipelines -> PipeRecords]
      /\ plan \in [Clients -> {"api", "bounce", "hot", "none"}]
      /\ cfg \in Configs
      /\ draft \in [Clients -> Configs \cup {NoDraft}]
  BY DEF VariableTypes
<1> HIDE DEF Inv
<1> USE DEF managerVars, sideVars, localVars, Goto, GotoWith, Return, Begin, StartReturn
<1>1. ASSUME NEW c \in Clients, StartCheck(c) PROVE FollowInv'
  BY <1>0, <1>1, FollowQuiet DEF StartCheck, BounceOwed, HotOwed
<1>2. ASSUME NEW c \in Clients, StartRunning(c) PROVE FollowInv'
  BY <1>0, <1>2, FollowQuiet DEF StartRunning, BounceOwed, HotOwed
<1>3. ASSUME NEW c \in Clients, StartSpawn(c) PROVE FollowInv'
  <2>1. Fresh \in Pipelines
    BY <1>3 DEF StartSpawn, Fresh, NotJoined
  <2>2. /\ run'.thread = Fresh /\ cfg' = cfg
        /\ pipe'[Fresh].mode = cfg.mode /\ pipe'[Fresh].freq = cfg.freq
        /\ pipe'[Fresh].cmds = <<>>
    BY <1>0, <1>3, <2>1 DEF StartSpawn
  <2> QED
    BY <2>2 DEF FollowInv, Follows, TunedTo
<1>4. ASSUME NEW c \in Clients, StartFlag(c) PROVE FollowInv'
  BY <1>0, <1>4, FollowFrame DEF StartFlag, BounceOwed, HotOwed, Configs
<1>5. ASSUME NEW c \in Clients, StopBegin(c) PROVE FollowInv'
  BY <1>0, <1>5, FollowQuiet DEF StopBegin, BounceOwed, HotOwed
<1>6. ASSUME NEW c \in Clients, StopRecorder(c) PROVE FollowInv'
  BY <1>0, <1>6, FollowQuiet DEF StopRecorder, BounceOwed, HotOwed
<1>7. ASSUME NEW c \in Clients, StopVoice(c) PROVE FollowInv'
  BY <1>0, <1>7, FollowQuiet DEF StopVoice, BounceOwed, HotOwed
<1>8. ASSUME NEW c \in Clients, StopTake(c) PROVE FollowInv'
  BY <1>8 DEF StopTake, FollowInv
<1>9. ASSUME NEW c \in Clients, StopFlag(c) PROVE FollowInv'
  <2>1. victim[c] # run.thread
    BY <1>0, <1>9 DEF StopFlag, HandleInv, Stopping
  <2> QED
    BY <1>0, <1>9, <2>1, FollowFrame DEF StopFlag, BounceOwed, HotOwed
<1>10. ASSUME NEW c \in Clients, StopJoin(c) PROVE FollowInv'
  <2>1. victim[c] # run.thread
    BY <1>0, <1>10 DEF StopJoin, HandleInv, Stopping
  <2> QED
    BY <1>0, <1>10, <2>1, FollowFrame DEF StopJoin, BounceOwed, HotOwed
<1>11. ASSUME NEW c \in Clients, StopReset(c) PROVE FollowInv'
  BY <1>0, <1>11, FollowQuiet DEF StopReset, BounceOwed, HotOwed
<1>12. ASSUME NEW c \in Clients, StopCfg(c) PROVE FollowInv'
  BY <1>0, <1>12, FollowFrame DEF StopCfg, BounceOwed, HotOwed, Configs
<1>13. ASSUME NEW c \in Clients, PatchRead(c) PROVE FollowInv'
  BY <1>0, <1>13, FollowQuiet DEF PatchRead, BounceOwed, HotOwed
<1>14. ASSUME NEW c \in Clients, PatchWrite(c) PROVE FollowInv'
  <2>1. /\ run' = run /\ pipe' = pipe /\ missed' = missed /\ cfg' = draft[c]
        /\ draft' = draft /\ pc'[c] = "apply" /\ plan'[c] = Effect(cfg, draft[c])
        /\ \A d \in Clients : d # c => pc'[d] = pc[d] /\ plan'[d] = plan[d]
    BY <1>0, <1>14 DEF PatchWrite
  <2>2. \A d \in Clients : BounceOwed(d) => BounceOwed(d)'
    BY <1>14, <2>1 DEF PatchWrite, BounceOwed
  <2>3. CASE cfg.mode # draft[c].mode
    BY <2>1, <2>3 DEF Effect, BounceOwed, FollowInv
  <2>4. CASE cfg.mode = draft[c].mode /\ cfg.freq # draft[c].freq
    <3>1. HotOwed(c)'
      BY <2>1, <2>4 DEF Effect, HotOwed
    <3> QED
      BY <1>0, <2>1, <2>2, <2>4, <3>1 DEF FollowInv, Follows, Live, IsSdr
  <2>5. CASE cfg.mode = draft[c].mode /\ cfg.freq = draft[c].freq
    <3>1. \A d \in Clients : HotOwed(d) => HotOwed(d)'
      BY <1>14, <2>1, <2>5 DEF PatchWrite, HotOwed
    <3> QED
      BY <1>0, <2>1, <2>2, <2>5, <3>1, FollowFrame
  <2> QED
    BY <2>3, <2>4, <2>5
<1>15. ASSUME NEW c \in Clients, ApplyNothing(c) PROVE FollowInv'
  <2>1. CASE run.running
    BY <1>0, <1>15, <2>1, FollowQuiet DEF ApplyNothing, BounceOwed, HotOwed
  <2>2. CASE ~run.running
    BY <1>15, <2>2 DEF ApplyNothing, FollowInv
  <2> QED
    BY <2>1, <2>2
<1>16. ASSUME NEW c \in Clients, ApplyBounce(c) PROVE FollowInv'
  BY <1>0, <1>16, FollowQuiet DEF ApplyBounce, BounceOwed, HotOwed
<1>17. ASSUME NEW c \in Clients, ApplyHot(c) PROVE FollowInv'
  <2> DEFINE t == run.thread
  <2> SUFFICES ASSUME ~missed', Live(t)'
               PROVE  Follows(t)' \/ \E d \in Clients : BounceOwed(d)'
    BY <1>17 DEF ApplyHot, FollowInv
  <2>1. /\ run' = run /\ cfg' = cfg /\ draft[c].freq = cfg.freq /\ ~missed
        /\ run.running /\ t \in Pipelines /\ draft[c].freq \in Freqs
    BY <1>0, <1>17, ConfigFields DEF ApplyHot, HandleInv, VariableTypes
  <2>2. /\ pipe'[t].mode = pipe[t].mode /\ pipe'[t].state = pipe[t].state
        /\ pipe'[t].dev = pipe[t].dev
    <3> DEFINE r == [pipe[t] EXCEPT !.cmds = Append(pipe[t].cmds, draft[c].freq)]
    <3>1. r.mode = pipe[t].mode /\ r.state = pipe[t].state /\ r.dev = pipe[t].dev
      BY <1>0, <2>1, KeptFields
    <3>2. pipe' = pipe \/ pipe' = [pipe EXCEPT ![t] = r]
      BY <1>17 DEF ApplyHot
    <3> QED
      BY <1>0, <2>1, <3>1, <3>2
  <2>3. Follows(t) \/ \E d \in Clients : BounceOwed(d)
    BY <1>0, <2>1, <2>2 DEF FollowInv, Live
  <2>4. \A d \in Clients : BounceOwed(d) => BounceOwed(d)'
    BY <1>0, <1>17 DEF ApplyHot, BounceOwed
  <2>5. CASE Follows(t)
    <3>1. pipe'[t].mode = cfg'.mode
      BY <2>1, <2>2, <2>5 DEF Follows
    <3>2. ASSUME IsSdr(t)', cfg'.mode \in RetuneModes
          PROVE  TunedTo(t)' = cfg'.freq
      <4>1. Live(t) /\ IsSdr(t) /\ pipe[t].mode \in RetuneModes
        BY <2>1, <2>2, <2>5, <3>2 DEF Live, IsSdr, Follows
      <4>2. pipe' = [pipe EXCEPT ![t].cmds = Append(@, draft[c].freq)]
        BY <1>17, <4>1 DEF ApplyHot
      <4>3. pipe[t].cmds \in Seq(Freqs) /\ pipe'[t].cmds = Append(pipe[t].cmds, draft[c].freq)
        BY <1>0, <2>1, <4>2 DEF PipeRecords
      <4> QED
        BY <2>1, <4>3, LastCommand DEF TunedTo
    <3> QED
      BY <2>1, <3>1, <3>2 DEF Follows
  <2> QED
    BY <2>3, <2>4, <2>5
<1>18. ASSUME NEW c \in Clients, Preset(c) PROVE FollowInv'
  BY <1>18 DEF Preset, FollowInv
<1>19. ASSUME NEW c \in Clients, SelectCheck(c) PROVE FollowInv'
  BY <1>0, <1>19, FollowQuiet DEF SelectCheck, BounceOwed, HotOwed
<1>20. ASSUME NEW c \in Clients, SelectProbe(c) PROVE FollowInv'
  BY <1>0, <1>20, FollowQuiet DEF SelectProbe, BounceOwed, HotOwed
<1>21. ASSUME NEW c \in Clients, SelectReset(c) PROVE FollowInv'
  BY <1>0, <1>21, FollowFrame DEF SelectReset, BounceOwed, HotOwed, Configs
<1>22. ASSUME NEW c \in Clients, RecordCheck(c) PROVE FollowInv'
  BY <1>0, <1>22, FollowQuiet DEF RecordCheck, BounceOwed, HotOwed
<1>23. ASSUME NEW c \in Clients, RecordStart(c) PROVE FollowInv'
  BY <1>0, <1>23, FollowQuiet DEF RecordStart, BounceOwed, HotOwed
<1>24. ASSUME NEW c \in Clients, RecordStop(c) PROVE FollowInv'
  BY <1>0, <1>24, FollowQuiet DEF RecordStop, BounceOwed, HotOwed
<1>25. ASSUME NEW t \in Pipelines, Open(t) PROVE FollowInv'
  <2>1. /\ \A u \in Pipelines : /\ Live(u)' => Live(u)
                                /\ pipe'[u].mode = pipe[u].mode /\ pipe'[u].freq = pipe[u].freq
                                /\ pipe'[u].dev = pipe[u].dev /\ pipe'[u].cmds = pipe[u].cmds
        /\ run' = run /\ cfg' = cfg /\ missed' = missed
        /\ pc' = pc /\ plan' = plan /\ draft' = draft
    BY <1>0, <1>25 DEF Open, Live, PipeRecords
  <2>2. run.running => run.thread \in Pipelines
    BY <1>0 DEF HandleInv, VariableTypes
  <2> QED
    BY <1>0, <2>1, <2>2 DEF FollowInv, Follows, IsSdr, TunedTo, BounceOwed, HotOwed
<1>26. ASSUME NEW t \in Pipelines, OpenFails(t) PROVE FollowInv'
  <2>1. CASE run.thread = t
    BY <1>0, <1>26, <2>1 DEF OpenFails, Ended, FollowInv, Live, Unused
  <2>2. CASE run.thread # t
    BY <1>0, <1>26, <2>2, FollowFrame DEF OpenFails, BounceOwed, HotOwed
  <2> QED
    BY <2>1, <2>2
<1>27. ASSUME NEW t \in Pipelines, Retune(t) PROVE FollowInv'
  <2> DEFINE q == pipe[t].cmds
  <2>1. q \in Seq(Freqs) /\ q # <<>> /\ Head(q) \in Freqs
    <3>1. q \in Seq(Freqs) /\ q # <<>>
      BY <1>0, <1>27 DEF Retune, PipeRecords
    <3> QED
      BY <3>1
  <2>2. /\ pipe'[t].freq = Head(q) /\ pipe'[t].cmds = Tail(q)
        /\ pipe'[t].mode = pipe[t].mode /\ pipe'[t].dev = pipe[t].dev
        /\ pipe'[t].state = pipe[t].state
        /\ \A u \in Pipelines : u # t => pipe'[u] = pipe[u]
    BY <1>0, <1>27 DEF Retune, PipeRecords
  <2>3. TunedTo(t)' = TunedTo(t)
    BY <2>1, <2>2, LastCommand DEF TunedTo
  <2>4. CASE run.thread = t
    <3>1. /\ Live(t)' <=> Live(t)
          /\ IsSdr(t)' <=> IsSdr(t)
      BY <2>2 DEF Live, IsSdr
    <3> QED
      BY <1>0, <1>27, <2>2, <2>3, <2>4, <3>1 DEF Retune, FollowInv, Follows, BounceOwed, HotOwed
  <2>5. CASE run.thread # t
    BY <1>0, <1>27, <2>2, <2>5, FollowFrame DEF Retune, BounceOwed, HotOwed
  <2> QED
    BY <2>4, <2>5
<1>28. ASSUME NEW t \in Pipelines, Frame(t) PROVE FollowInv'
  BY <1>0, <1>28, FollowQuiet DEF Frame, BounceOwed, HotOwed
<1>29. ASSUME NEW t \in Pipelines, StopSeen(t) PROVE FollowInv'
  <2>1. CASE run.thread = t
    BY <1>0, <1>29, <2>1 DEF StopSeen, Ended, FollowInv, Live, Unused
  <2>2. CASE run.thread # t
    BY <1>0, <1>29, <2>2, FollowFrame DEF StopSeen, BounceOwed, HotOwed
  <2> QED
    BY <2>1, <2>2
<1>30. CASE UNCHANGED vars
  BY <1>0, <1>30, FollowQuiet DEF vars, BounceOwed, HotOwed
<1> QED
  BY <1>1, <1>2, <1>3, <1>4, <1>5, <1>6, <1>7, <1>8, <1>9, <1>10, <1>11, <1>12, <1>13, <1>14, <1>15, <1>16, <1>17, <1>18, <1>19, <1>20, <1>21, <1>22, <1>23, <1>24, <1>25, <1>26, <1>27, <1>28, <1>29, <1>30
     DEF Next, Invoke, Proceed, Thread

\* Every step keeps an open recording on a pipeline that no stop() is taking.
LEMMA RecorderNext == Inv /\ [Next]_vars => RecorderInv'
<1> SUFFICES ASSUME Inv, [Next]_vars PROVE RecorderInv'
  OBVIOUS
<1> USE DEF Inv, VariableTypes, managerVars, sideVars, localVars, Goto, GotoWith, Return,
            Begin, StartReturn
<1>1. ASSUME NEW c \in Clients, StartCheck(c) PROVE RecorderInv'
  BY <1>1 DEF StartCheck, RecorderInv
<1>2. ASSUME NEW c \in Clients, StartRunning(c) PROVE RecorderInv'
  BY <1>2 DEF StartRunning, RecorderInv
<1>3. ASSUME NEW c \in Clients, StartSpawn(c) PROVE RecorderInv'
  BY <1>3 DEF StartSpawn, RecorderInv
<1>4. ASSUME NEW c \in Clients, StartFlag(c) PROVE RecorderInv'
  BY <1>4 DEF StartFlag, RecorderInv
<1>5. ASSUME NEW c \in Clients, StopBegin(c) PROVE RecorderInv'
  BY <1>5 DEF StopBegin, RecorderInv
<1>6. ASSUME NEW c \in Clients, StopRecorder(c) PROVE RecorderInv'
  BY <1>6 DEF StopRecorder, RecorderInv
<1>7. ASSUME NEW c \in Clients, StopVoice(c) PROVE RecorderInv'
  BY <1>7 DEF StopVoice, RecorderInv
<1>8. ASSUME NEW c \in Clients, StopTake(c) PROVE RecorderInv'
  BY <1>8 DEF StopTake, RecorderInv
<1>9. ASSUME NEW c \in Clients, StopFlag(c) PROVE RecorderInv'
  BY <1>9 DEF StopFlag, RecorderInv
<1>10. ASSUME NEW c \in Clients, StopJoin(c) PROVE RecorderInv'
  BY <1>10 DEF StopJoin, RecorderInv
<1>11. ASSUME NEW c \in Clients, StopReset(c) PROVE RecorderInv'
  BY <1>11 DEF StopReset, RecorderInv
<1>12. ASSUME NEW c \in Clients, StopCfg(c) PROVE RecorderInv'
  BY <1>12 DEF StopCfg, RecorderInv
<1>13. ASSUME NEW c \in Clients, PatchRead(c) PROVE RecorderInv'
  BY <1>13 DEF PatchRead, RecorderInv
<1>14. ASSUME NEW c \in Clients, PatchWrite(c) PROVE RecorderInv'
  BY <1>14 DEF PatchWrite, RecorderInv
<1>15. ASSUME NEW c \in Clients, ApplyNothing(c) PROVE RecorderInv'
  BY <1>15 DEF ApplyNothing, RecorderInv
<1>16. ASSUME NEW c \in Clients, ApplyBounce(c) PROVE RecorderInv'
  BY <1>16 DEF ApplyBounce, RecorderInv
<1>17. ASSUME NEW c \in Clients, ApplyHot(c) PROVE RecorderInv'
  BY <1>17 DEF ApplyHot, RecorderInv
<1>18. ASSUME NEW c \in Clients, Preset(c) PROVE RecorderInv'
  BY <1>18 DEF Preset, RecorderInv
<1>19. ASSUME NEW c \in Clients, SelectCheck(c) PROVE RecorderInv'
  BY <1>19 DEF SelectCheck, RecorderInv
<1>20. ASSUME NEW c \in Clients, SelectProbe(c) PROVE RecorderInv'
  BY <1>20 DEF SelectProbe, RecorderInv
<1>21. ASSUME NEW c \in Clients, SelectReset(c) PROVE RecorderInv'
  BY <1>21 DEF SelectReset, RecorderInv
<1>22. ASSUME NEW c \in Clients, RecordCheck(c) PROVE RecorderInv'
  BY <1>22 DEF RecordCheck, RecorderInv
<1>23. ASSUME NEW c \in Clients, RecordStart(c) PROVE RecorderInv'
  BY <1>23 DEF RecordStart, OpenedLate, RecorderInv
<1>24. ASSUME NEW c \in Clients, RecordStop(c) PROVE RecorderInv'
  BY <1>24 DEF RecordStop, RecorderInv
<1>25. ASSUME NEW t \in Pipelines, Open(t) PROVE RecorderInv'
  BY <1>25 DEF Open, RecorderInv
<1>26. ASSUME NEW t \in Pipelines, OpenFails(t) PROVE RecorderInv'
  BY <1>26 DEF OpenFails, RecorderInv, Ended
<1>27. ASSUME NEW t \in Pipelines, Retune(t) PROVE RecorderInv'
  BY <1>27 DEF Retune, RecorderInv
<1>28. ASSUME NEW t \in Pipelines, Frame(t) PROVE RecorderInv'
  BY <1>28 DEF Frame, RecorderInv
<1>29. ASSUME NEW t \in Pipelines, StopSeen(t) PROVE RecorderInv'
  BY <1>29 DEF StopSeen, RecorderInv, Ended
<1>30. CASE UNCHANGED vars
  BY <1>30 DEF vars, RecorderInv
<1> QED
  BY <1>1, <1>2, <1>3, <1>4, <1>5, <1>6, <1>7, <1>8, <1>9, <1>10, <1>11, <1>12, <1>13, <1>14, <1>15,
     <1>16, <1>17, <1>18, <1>19, <1>20, <1>21, <1>22, <1>23, <1>24, <1>25, <1>26,
     <1>27, <1>28, <1>29, <1>30 DEF Next, Invoke, Proceed, Thread

-----------------------------------------------------------------------------
\* The inductive invariant holds when the server has started, ...
LEMMA InvInit == Init => Inv
<1> SUFFICES ASSUME Init PROVE Inv
  OBVIOUS
<1>1. VariableTypes
  <2>1. cfg \in Configs
    BY ModesAssumption DEF Init, Configs
  <2>2. pipe \in [Pipelines -> PipeRecords]
    BY UnusedType DEF Init
  <2>3. run \in [running: BOOLEAN, thread: Pipelines \cup {NoPipe}]
    BY DEF Init
  <2> QED
    BY <2>1, <2>2, <2>3 DEF Init, VariableTypes, Points, RecordStates
<1>2. HandleInv
  BY NullsAssumption DEF Init, HandleInv, Stopping, Unused
<1>3. DraftHeld /\ VoiceMatchesPipeline /\ TelemetryInv /\ FollowInv /\ RecorderInv
  BY DEF Init, DraftHeld, VoiceMatchesPipeline, TelemetryInv, FollowInv, RecorderInv
<1> QED
  BY <1>1, <1>2, <1>3 DEF Inv

\* ... and in every behaviour after it.
THEOREM InductiveInvariant == Spec => []Inv
<1>1. Inv /\ [Next]_vars => Inv'
  BY TypeNext, HandleNext, DraftNext, VoiceNext, TelemetryNext, FollowNext,
     RecorderNext DEF Inv
<1> QED
  BY InvInit, <1>1, PTL DEF Spec

\* Every variable keeps its type, and no PATCH stores a copy it does not hold.
THEOREM TypeInvariant == Spec => []TypeOK
<1>1. Inv => TypeOK
  BY DEF Inv, TypeOK
<1> QED
  BY InductiveInvariant, <1>1, PTL

\* No stop flag or join handle is ever lost or held twice, however starts,
\* stops and bounces interleave.
THEOREM HandlesOwned == Spec => []HandleOwned
<1>1. Inv => HandleOwned
  <2> SUFFICES ASSUME Inv, NEW t \in Pipelines
               PROVE  LET stoppers == {c \in Clients : victim[c] = t} IN
                      IF pipe[t].state = "none"
                        THEN run.thread # t /\ stoppers = {}
                        ELSE \/ run.thread = t /\ stoppers = {}
                             \/ run.thread # t /\ \E c \in Clients : stoppers = {c}
    BY DEF HandleOwned
  <2> DEFINE stoppers == {c \in Clients : victim[c] = t}
  <2>1. CASE pipe[t].state = "none"
    BY <2>1, NullsAssumption DEF Inv, HandleInv
  <2>2. CASE run.thread = t
    BY <2>2, NullsAssumption DEF Inv, HandleInv
  <2>3. CASE pipe[t].state # "none" /\ run.thread # t
    <3>1. PICK c \in Clients : victim[c] = t
      BY <2>3 DEF Inv, HandleInv
    <3>2. stoppers = {c}
      BY <3>1, NullsAssumption DEF Inv, HandleInv
    <3> QED
      BY <2>3, <3>2
  <2> QED
    BY <2>1, <2>2, <2>3
<1> QED
  BY InductiveInvariant, <1>1, PTL

\* Of all pipelines alive at a time, one at most is not on its way out.
THEOREM OnlyOneNotStopping == Spec => []OneNotStopping
<1>1. Inv => OneNotStopping
  BY DEF Inv, HandleInv, OneNotStopping, Live
<1> QED
  BY InductiveInvariant, <1>1, PTL

\* No late reset of the voice mode survives into the next pipeline.
THEOREM VoiceFollowsPipeline == Spec => []VoiceMatchesPipeline
<1>1. Inv => VoiceMatchesPipeline
  BY DEF Inv
<1> QED
  BY InductiveInvariant, <1>1, PTL

\* Once all calls returned, a stopped radio's telemetry reads as reset.
THEOREM TelemetryResets == Spec => []StoppedReadsIdle
<1>1. Inv => StoppedReadsIdle
  BY DEF Inv, VariableTypes, TelemetryInv, StoppedReadsIdle, Settled
<1> QED
  BY InductiveInvariant, <1>1, PTL

\* Once all calls returned, the pipeline that runs does what the configuration
\* shows: nothing a PATCH stored is left unapplied, whoever overtook whom.
THEOREM PipelineFollows == Spec => []PipelineFollowsConfig
<1>1. Inv => PipelineFollowsConfig
  BY DEF Inv, FollowInv, Follows, BounceOwed, HotOwed, PipelineFollowsConfig, Settled
<1> QED
  BY InductiveInvariant, <1>1, PTL

\* A recording that was opened on a pipeline is closed by the stop() that takes
\* the pipeline, whoever starts, stops and records meanwhile.
THEOREM RecordingsStop == Spec => []RecordingStops
<1>1. Inv => RecordingStops
  BY DEF Inv, RecorderInv, RecordingStops
<1> QED
  BY InductiveInvariant, <1>1, PTL
=============================================================================
