--------------------------- MODULE AnalysisProofs ---------------------------
(***************************************************************************)
(* Proofs about the waterfall and the IQ recorder, for any number of requests,  *)
(* viewers, files and rates, any ring and any cap.                              *)
(***************************************************************************)
EXTENDS Analysis, FiniteSetTheorems, SequenceTheorems, TLAPS

-----------------------------------------------------------------------------
(* The recorder *)

FileRecords == [state: {"unused", "open", "finished", "broken", "lost"},
                rate: Rates, runs: SUBSET (1..MaxRuns), blocks: 0..Cap]

RecordingTypes ==
    /\ config \in [on: BOOLEAN, rate: Rates]
    /\ call \in Calls
    /\ thread \in [at: Steps, run: 0..MaxRuns, rate: Rates, stop: BOOLEAN]
    /\ thread.at # "none" => thread.run \in 1..MaxRuns
    /\ recorder \in Files \cup {None} /\ last \in Files \cup {None}
    /\ files \in [Files -> FileRecords]
    /\ req \in [Clients -> [at: Points, file: Files \cup {None}]]
    /\ raced \subseteq Clients

\* A file that is made and not yet installed is its request's own, and empty.
MadeIsOwn ==
    /\ \A c \in Clients : At(c, "made") =>
         /\ req[c].file \in Files /\ req[c].file # recorder
         /\ files[req[c].file].state = "open" /\ files[req[c].file].runs = {}
    /\ \A c, d \in Clients : At(c, "made") /\ At(d, "made") /\ c # d => req[c].file # req[d].file

\* The open recording has room, and what it holds is of the thread that runs now.
RecorderFedNow ==
    recorder # None =>
      /\ files[recorder].state = "open"
      /\ files[recorder].blocks < Cap
      /\ files[recorder].runs # {} =>
           thread.at = "running" /\ files[recorder].runs = {thread.run}

\* A file holds nothing before it is the recording, and one run at most after it.
FilesHoldOneRun ==
    \A f \in Files :
      /\ files[f].state = "unused" => files[f].runs = {} /\ f # recorder
      /\ files[f].state \in {"unused", "open"} /\ f # recorder => files[f].blocks = 0
      /\ \A r, s \in files[f].runs : r = s

\* Requests under way together are on record.
RacedKnown ==
    \A c, d \in Clients : c # d /\ Starting(c) /\ Starting(d) => c \in raced

\* A request that has seen no recording finds none when it installs its own.
FreeStaysFree ==
    \A c \in Clients : req[c].at \in {"free", "made"} /\ c \notin raced => recorder = None

RecInv == RecordingTypes /\ MadeIsOwn /\ RecorderFedNow /\ FilesHoldOneRun
            /\ RacedKnown /\ FreeStaysFree

\* Before any call there is no recording and no request.
LEMMA RecInit == Init => RecInv
<1> SUFFICES ASSUME Init PROVE RecInv
  OBVIOUS
<1>1. RecordingTypes
  BY SizesAssumption DEF Init, RecordingTypes, FileRecords, Calls, Steps, Points
<1>2. \A c \in Clients : req[c].at = "idle"
  BY DEF Init
<1>3. recorder = None /\ \A f \in Files : files[f].runs = {} /\ files[f].blocks = 0
  BY DEF Init
<1> QED
  BY <1>1, <1>2, <1>3, NoneAssumption
  DEF RecInv, MadeIsOwn, RecorderFedNow, FilesHoldOneRun, RacedKnown, FreeStaysFree, At, Starting

\* finish() closes a file, and its contents stay: what it was fed with is given by `fed`.
LEMMA FinishKeeps ==
  ASSUME NEW f \in Files, NEW fed \in [Files -> FileRecords], last \in Files \cup {None},
         Finish(f, fed)
  PROVE  /\ files' \in [Files -> FileRecords] /\ last' \in Files \cup {None}
         /\ files'[f].state \in {"finished", "broken"}
         /\ \A g \in Files : files'[g].runs = fed[g].runs /\ files'[g].blocks = fed[g].blocks
         /\ \A g \in Files : g # f => files'[g] = fed[g]
  BY DEF Finish, FileRecords

\* Closing the recording keeps the invariant, however long the thread lives on.
LEMMA ClosedKeeps ==
  ASSUME RecInv, recorder # None, recorder' = None, Finish(recorder, files),
         thread'.at \in Steps, thread' \in [at: Steps, run: 0..MaxRuns, rate: Rates, stop: BOOLEAN],
         thread'.at # "none" => thread'.run \in 1..MaxRuns,
         UNCHANGED <<config, call, requests>>
  PROVE  RecInv'
<1> USE DEF RecInv, requests, At, Starting
<1>1. recorder \in Files
  BY DEF RecordingTypes
<1>2. /\ files' \in [Files -> FileRecords] /\ last' \in Files \cup {None}
      /\ files'[recorder].state \in {"finished", "broken"}
      /\ \A g \in Files : files'[g].runs = files[g].runs /\ files'[g].blocks = files[g].blocks
      /\ \A g \in Files : g # recorder => files'[g] = files[g]
  BY <1>1, FinishKeeps DEF RecordingTypes
<1>3. RecordingTypes'
  BY <1>2 DEF RecordingTypes
<1>4. MadeIsOwn'
  BY <1>1, <1>2, NoneAssumption DEF MadeIsOwn
<1>5. RecorderFedNow'
  BY DEF RecorderFedNow
<1>6. FilesHoldOneRun'
  BY <1>1, <1>2, NoneAssumption DEF FilesHoldOneRun
<1>7. RacedKnown' /\ FreeStaysFree'
  BY DEF RacedKnown, FreeStaysFree
<1> QED
  BY <1>3, <1>4, <1>5, <1>6, <1>7

\* The calls that start and stop the pipeline, and the opening of its device, spawn a new
\* thread only where none ran, and so none whose samples are in the open recording.
LEMMA PipelineKeeps ==
  ASSUME RecInv, Call \/ Open \/ OpenFails
  PROVE  RecInv'
<1> USE DEF RecInv, At, Starting
<1>1. UNCHANGED <<recording, requests>>
  BY DEF Call, Spawn, Started, Patch, Flag, Join, Stopped, Open, OpenFails
<1>2. /\ config' \in [on: BOOLEAN, rate: Rates] /\ call' \in Calls
      /\ thread' \in [at: Steps, run: 0..MaxRuns, rate: Rates, stop: BOOLEAN]
      /\ thread'.at # "none" => thread'.run \in 1..MaxRuns
  <2>1. CASE Spawn
    BY <2>1, SizesAssumption DEF Spawn, RecordingTypes, Calls, Steps
  <2>2. CASE Started \/ Stopped
    BY <2>2 DEF Started, Stopped, RecordingTypes, Calls
  <2>3. CASE Patch
    BY <2>3 DEF Patch, RecordingTypes, Calls
  <2>4. CASE Flag \/ Join
    BY <2>4 DEF Flag, Join, RecordingTypes, Calls
  <2>5. CASE Open \/ OpenFails
    BY <2>5 DEF Open, OpenFails, RecordingTypes, Steps
  <2> QED
    BY <2>1, <2>2, <2>3, <2>4, <2>5 DEF Call
<1>3. \/ thread.at # "running"
      \/ thread'.at = "running" /\ thread'.run = thread.run
  BY DEF Call, Spawn, Started, Patch, Flag, Join, Stopped, Open, OpenFails, RecordingTypes
<1>4. RecordingTypes'
  BY <1>1, <1>2 DEF RecordingTypes, recording, requests
<1>5. MadeIsOwn' /\ FilesHoldOneRun' /\ RacedKnown' /\ FreeStaysFree'
  BY <1>1 DEF MadeIsOwn, FilesHoldOneRun, RacedKnown, FreeStaysFree, recording, requests
<1>6. RecorderFedNow'
  BY <1>1, <1>3 DEF RecorderFedNow, recording
<1> QED
  BY <1>4, <1>5, <1>6

\* A block goes to the recording, which holds nothing of another run.
LEMMA BlockKeeps ==
  ASSUME RecInv, Block
  PROVE  RecInv'
<1> USE DEF RecInv, At, Starting
<1> DEFINE f   == recorder
           fed == [files EXCEPT ![f].blocks = @ + 1, ![f].runs = @ \cup {thread.run}]
<1>1. /\ f \in Files /\ f # None /\ thread.at = "running" /\ thread.run \in 1..MaxRuns
      /\ UNCHANGED <<config, call, thread, requests>>
  BY DEF Block, RecordingTypes, pipeline
<1>2. /\ fed \in [Files -> FileRecords]
      /\ fed[f].runs = {thread.run} /\ fed[f].state = "open"
      /\ \A g \in Files : g # f => fed[g] = files[g]
  <2> DEFINE one == [files[f] EXCEPT !.blocks = @ + 1, !.runs = @ \cup {thread.run}]
  <2>1. /\ files \in [Files -> FileRecords] /\ files[f].state = "open"
        /\ files[f].blocks < Cap /\ files[f].runs \in {{}, {thread.run}}
    BY <1>1 DEF RecordingTypes, RecorderFedNow
  <2>2. one \in FileRecords /\ one.runs = {thread.run} /\ one.state = "open"
    <3>1. files[f] \in FileRecords
      BY <1>1, <2>1
    <3>2. files[f].blocks + 1 \in 0..Cap /\ files[f].runs \cup {thread.run} = {thread.run}
      BY <2>1, <3>1, SizesAssumption DEF FileRecords
    <3> QED
      BY <1>1, <2>1, <3>1, <3>2 DEF FileRecords
  <2>3. fed = [files EXCEPT ![f] = one]
    BY <1>1, <2>1 DEF FileRecords
  <2> HIDE DEF one, fed
  <2> QED
    BY <1>1, <2>1, <2>2, <2>3
<1> HIDE DEF fed
<1>3. CASE files' = fed /\ fed[f].blocks < Cap /\ UNCHANGED <<recorder, last>>
  <2>1. RecordingTypes'
    BY <1>1, <1>2, <1>3 DEF RecordingTypes, requests
  <2>2. MadeIsOwn'
    BY <1>1, <1>2, <1>3 DEF MadeIsOwn, requests
  <2>3. RecorderFedNow'
    BY <1>1, <1>2, <1>3 DEF RecorderFedNow
  <2>4. FilesHoldOneRun'
    BY <1>1, <1>2, <1>3 DEF FilesHoldOneRun
  <2>5. RacedKnown' /\ FreeStaysFree'
    BY <1>1, <1>3 DEF RacedKnown, FreeStaysFree, requests
  <2> QED
    BY <2>1, <2>2, <2>3, <2>4, <2>5
<1>4. CASE recorder' = None /\ Finish(f, fed)
  <2>1. /\ files' \in [Files -> FileRecords] /\ last' \in Files \cup {None}
        /\ files'[f].state \in {"finished", "broken"} /\ files'[f].runs = {thread.run}
        /\ \A g \in Files : g # f => files'[g] = files[g]
    BY <1>1, <1>2, <1>4, FinishKeeps DEF RecordingTypes
  <2>2. RecordingTypes'
    BY <1>1, <1>4, <2>1 DEF RecordingTypes, requests
  <2>3. MadeIsOwn'
    BY <1>1, <1>4, <2>1, NoneAssumption DEF MadeIsOwn, requests
  <2>4. FilesHoldOneRun'
    BY <1>1, <1>4, <2>1, NoneAssumption DEF FilesHoldOneRun
  <2>5. RecorderFedNow' /\ RacedKnown' /\ FreeStaysFree'
    BY <1>1, <1>4 DEF RecorderFedNow, RacedKnown, FreeStaysFree, requests
  <2> QED
    BY <2>2, <2>3, <2>4, <2>5
<1>5. CASE recorder' = None /\ Finish(f, files)
  BY <1>1, <1>5, ClosedKeeps DEF RecordingTypes, requests
<1> QED
  <2>1. \/ files' = fed /\ fed[f].blocks < Cap /\ UNCHANGED <<recorder, last>>
        \/ recorder' = None /\ (Finish(f, fed) \/ Finish(f, files))
    BY DEF Block, fed
  <2> QED
    BY <1>3, <1>4, <1>5, <2>1

\* A thread that ends closes the recording it fed.
LEMMA EndsKeeps ==
  ASSUME RecInv, Ends
  PROVE  RecInv'
<1>1. /\ thread' \in [at: Steps, run: 0..MaxRuns, rate: Rates, stop: BOOLEAN]
      /\ thread'.at = "none" /\ UNCHANGED <<config, call, requests>>
  BY DEF Ends, RecInv, RecordingTypes, Steps
<1>2. CASE recorder # None /\ recorder' = None /\ Finish(recorder, files)
  BY <1>1, <1>2, ClosedKeeps
<1>3. CASE recorder = None /\ UNCHANGED recording
  BY <1>1, <1>3 DEF RecInv, RecordingTypes, MadeIsOwn, RecorderFedNow, FilesHoldOneRun,
       RacedKnown, FreeStaysFree, At, Starting, recording, requests
<1> QED
  BY <1>2, <1>3 DEF Ends

\* A request on its way to a recording: the requests it meets are on record, and the file
\* it makes is one nobody has used.
LEMMA RecordKeeps ==
  ASSUME RecInv, NEW c \in Clients, Record(c)
  PROVE  RecInv'
<1> USE DEF RecInv, At, Starting, pipeline
<1>1. CASE RecordStart(c) \/ CheckFree(c)
  <2>1. /\ UNCHANGED <<config, call, thread, recording>>
        /\ req' \in [Clients -> [at: Points, file: Files \cup {None}]]
        /\ req'[c].at \in {"idle", "running", "free"} /\ req'[c].file = req[c].file
        /\ \A d \in Clients : d # c => req'[d] = req[d]
        /\ raced' \subseteq Clients
    BY <1>1 DEF RecordStart, CheckFree, RecordingTypes, Points
  <2>2. RecordingTypes'
    BY <2>1 DEF RecordingTypes, recording
  <2>3. MadeIsOwn'
    BY <2>1 DEF MadeIsOwn, recording
  <2>4. RecorderFedNow' /\ FilesHoldOneRun'
    BY <2>1 DEF RecorderFedNow, FilesHoldOneRun, recording
  <2>5. RacedKnown' /\ FreeStaysFree'
    <3>1. CASE RecordStart(c)
      <4> DEFINE others == {d \in Clients : Starting(d)}
      <4>1. /\ raced' = IF others = {} THEN raced \ {c} ELSE raced \cup others \cup {c}
            /\ req'[c].at = "running" /\ recorder' = recorder
        BY <3>1, <2>1 DEF RecordStart, recording, RecordingTypes
      <4> QED
        BY <2>1, <4>1 DEF RacedKnown, FreeStaysFree
    <3>2. CASE CheckFree(c)
      BY <2>1, <3>2 DEF CheckFree, RacedKnown, FreeStaysFree, recording, RecordingTypes
    <3> QED
      BY <1>1, <3>1, <3>2
  <2> QED
    BY <2>2, <2>3, <2>4, <2>5
<1>2. CASE MakeFile(c)
  <2>1. /\ UNCHANGED <<config, call, thread, recorder, last, raced>> /\ At(c, "free")
        /\ \A d \in Clients : d # c => req'[d] = req[d]
    BY <1>2 DEF MakeFile, RecordingTypes
  <2>2. CASE req' = [req EXCEPT ![c].at = "idle"] /\ UNCHANGED files
    BY <2>1, <2>2 DEF RecordingTypes, MadeIsOwn, RecorderFedNow, FilesHoldOneRun, RacedKnown,
         FreeStaysFree, Points
  <2>3. ASSUME NEW f \in Files, files[f].state = "unused",
               files' = [files EXCEPT ![f].state = "open", ![f].rate = config.rate],
               req' = [req EXCEPT ![c] = [at |-> "made", file |-> f]]
        PROVE  RecInv'
    <3>1. /\ files' \in [Files -> FileRecords]
          /\ files'[f].state = "open" /\ files'[f].runs = {} /\ files'[f].blocks = 0
          /\ \A g \in Files : g # f => files'[g] = files[g]
      <4>1. files[f] \in FileRecords /\ files[f].runs = {} /\ files[f].blocks = 0 /\ f # recorder
        BY <2>3 DEF RecordingTypes, FilesHoldOneRun
      <4>2. files' = [files EXCEPT ![f] = [files[f] EXCEPT !.state = "open", !.rate = config.rate]]
        BY <2>3 DEF RecordingTypes
      <4> QED
        BY <4>1, <4>2 DEF RecordingTypes, FileRecords
    <3>2. RecordingTypes'
      BY <2>1, <2>3, <3>1 DEF RecordingTypes, Points
    <3>3. MadeIsOwn'
      BY <2>1, <2>3, <3>1 DEF RecordingTypes, MadeIsOwn, FilesHoldOneRun
    <3>4. RecorderFedNow' /\ FilesHoldOneRun'
      BY <2>1, <2>3, <3>1 DEF RecordingTypes, RecorderFedNow, FilesHoldOneRun
    <3>5. RacedKnown' /\ FreeStaysFree'
      BY <2>1, <2>3 DEF RecordingTypes, RacedKnown, FreeStaysFree
    <3> QED
      BY <3>2, <3>3, <3>4, <3>5
  <2> QED
    BY <1>2, <2>2, <2>3 DEF MakeFile
<1>3. CASE Install(c)
  <2> DEFINE f == req[c].file
  <2>1. /\ UNCHANGED <<config, call, thread, last, raced>>
        /\ At(c, "made") /\ f \in Files /\ f # recorder /\ recorder' = f
        /\ files[f].state = "open" /\ files[f].runs = {} /\ files[f].blocks = 0
        /\ \A d \in Clients : d # c => req'[d] = req[d]
        /\ req'[c] = [at |-> "idle", file |-> None]
    BY <1>3 DEF Install, RecordingTypes, MadeIsOwn, FilesHoldOneRun
  <2>2. /\ files' \in [Files -> FileRecords]
        /\ \A g \in Files : /\ files'[g].runs = files[g].runs
                            /\ files'[g].blocks = files[g].blocks
                            /\ g # recorder => files'[g] = files[g]
                            /\ g = recorder => files'[g].state = "lost"
    <3>1. files' = [g \in Files |-> IF g = recorder THEN [files[g] EXCEPT !.state = "lost"]
                                                   ELSE files[g]]
      BY <1>3 DEF Install
    <3>2. ASSUME NEW g \in Files
          PROVE  /\ files[g] \in FileRecords
                 /\ [files[g] EXCEPT !.state = "lost"] \in FileRecords
                 /\ [files[g] EXCEPT !.state = "lost"].runs = files[g].runs
                 /\ [files[g] EXCEPT !.state = "lost"].blocks = files[g].blocks
                 /\ [files[g] EXCEPT !.state = "lost"].state = "lost"
      BY DEF RecordingTypes, FileRecords
    <3> QED
      BY <3>1, <3>2
  <2> HIDE DEF f
  <2>3. RecordingTypes'
    <3>1. req' \in [Clients -> [at: Points, file: Files \cup {None}]]
      <4>1. req' = [req EXCEPT ![c] = [at |-> "idle", file |-> None]]
        BY <1>3 DEF Install
      <4>2. [at |-> "idle", file |-> None] \in [at: Points, file: Files \cup {None}]
        BY DEF Points
      <4>3. req \in [Clients -> [at: Points, file: Files \cup {None}]]
        BY DEF RecordingTypes
      <4> QED
        BY <4>1, <4>2, <4>3
    <3> QED
      BY <2>1, <2>2, <3>1 DEF RecordingTypes
  <2>4. MadeIsOwn'
    <3>1. \A d \in Clients : req'[d].at = "made" => d # c /\ req'[d] = req[d] /\ req[d].at = "made"
      BY <2>1
    <3>2. \A d \in Clients : req'[d].at = "made" =>
            /\ req[d].file \in Files /\ req[d].file # f /\ req[d].file # recorder
            /\ files[req[d].file].state = "open" /\ files[req[d].file].runs = {}
      BY <2>1, <3>1 DEF MadeIsOwn, f
    <3>3. \A d \in Clients : req'[d].at = "made" => files'[req[d].file] = files[req[d].file]
      BY <2>2, <3>2
    <3>4. \A d, e \in Clients : req'[d].at = "made" /\ req'[e].at = "made" /\ d # e =>
            req[d].file # req[e].file
      BY <3>1 DEF MadeIsOwn
    <3> QED
      BY <2>1, <3>1, <3>2, <3>3, <3>4 DEF MadeIsOwn
  <2>5. RecorderFedNow' /\ FilesHoldOneRun'
    BY <2>1, <2>2, SizesAssumption DEF RecorderFedNow, FilesHoldOneRun
  <2>6. RacedKnown' /\ FreeStaysFree'
    BY <2>1, NoneAssumption DEF RacedKnown, FreeStaysFree
  <2> QED
    BY <2>3, <2>4, <2>5, <2>6
<1> QED
  BY <1>1, <1>2, <1>3 DEF Record

\* Every step keeps the recorder's invariant.
LEMMA RecNext == RecInv /\ [Next]_vars => RecInv'
<1> SUFFICES ASSUME RecInv, [Next]_vars PROVE RecInv'
  OBVIOUS
<1> USE DEF RecInv
<1>1. CASE Call \/ Open \/ OpenFails
  BY <1>1, PipelineKeeps
<1>2. CASE Block
  BY <1>2, BlockKeeps
<1>3. CASE Ends
  BY <1>3, EndsKeeps
<1>4. CASE RecordStop
  <2>1. /\ recorder # None /\ recorder' = None /\ Finish(recorder, files)
        /\ UNCHANGED <<config, call, thread, requests>>
    BY <1>4 DEF RecordStop, pipeline
  <2> QED
    BY <2>1, ClosedKeeps DEF RecordingTypes
<1>5. ASSUME NEW c \in Clients, Record(c) PROVE RecInv'
  BY <1>5, RecordKeeps
<1>6. CASE Push \/ (\E v \in Viewers : Poll(v)) \/ UNCHANGED vars
  <2>1. UNCHANGED <<pipeline, recording, requests>>
    BY <1>6 DEF Push, Poll, vars, pipeline, recording, requests
  <2> QED
    BY <2>1 DEF RecordingTypes, MadeIsOwn, RecorderFedNow, FilesHoldOneRun, RacedKnown,
         FreeStaysFree, At, Starting, pipeline, recording, requests
<1> QED
  BY <1>1, <1>2, <1>3, <1>4, <1>5, <1>6 DEF Next, Thread

\* The recorder's invariant holds in every behaviour.
LEMMA RecInvariant == Spec => []RecInv
  BY RecInit, RecNext, PTL DEF Spec

\* However the requests that open and close recordings interleave with starts, stops and
\* bounces, no file holds samples of two pipeline runs (record_iq, run_analysis).
THEOREM OneRun == Spec => []OneRunPerRecording
<1>1. RecInv => OneRunPerRecording
  <2> SUFFICES ASSUME RecInv, NEW f \in Files PROVE Cardinality(files[f].runs) <= 1
    BY DEF OneRunPerRecording
  <2>1. \A r, s \in files[f].runs : r = s
    BY DEF RecInv, FilesHoldOneRun
  <2>2. CASE files[f].runs = {}
    BY <2>2, FS_EmptySet
  <2>3. CASE files[f].runs # {}
    <3>1. PICK r \in files[f].runs : files[f].runs = {r}
      BY <2>1, <2>3
    <3> QED
      BY <3>1, FS_Singleton
  <2> QED
    BY <2>2, <2>3
<1> QED
  BY <1>1, RecInvariant, PTL

\* A recording is dropped unfinished only by a request that was under way together with
\* another one (RecordingIsFinished).
THEOREM Finished == Spec => RecordingIsFinished
<1> DEFINE Dropped(f) == files[f].state # "lost" /\ files'[f].state = "lost"
           Act == \A f \in Files :
                    Dropped(f) => \E c \in raced : At(c, "made") /\ req'[c].at = "idle"
<1>1. ASSUME RecInv, [Next]_vars PROVE [Act]_vars
  <2> SUFFICES ASSUME NEW f \in Files, Dropped(f)
               PROVE  \E c \in raced : At(c, "made") /\ req'[c].at = "idle"
    OBVIOUS
  <2>1. \E c \in Clients : Install(c)
    <3>1. files' # files
      OBVIOUS
    <3>2. ~Block
      <4> SUFFICES ASSUME Block PROVE FALSE
        OBVIOUS
      <4>1. /\ recorder \in Files /\ files \in [Files -> FileRecords]
            /\ files[recorder].state = "open"
        BY <1>1 DEF Block, RecInv, RecordingTypes, RecorderFedNow
      <4> QED
        BY <4>1 DEF Block, Finish, FileRecords
    <3>3. ~Ends /\ ~RecordStop
      <4>1. ASSUME recorder # None, Finish(recorder, files) PROVE FALSE
        <5>1. /\ recorder \in Files /\ files \in [Files -> FileRecords]
              /\ last \in Files \cup {None}
          BY <1>1, <4>1 DEF RecInv, RecordingTypes
        <5>2. /\ files'[recorder].state \in {"finished", "broken"}
              /\ \A g \in Files : g # recorder => files'[g] = files[g]
          BY <4>1, <5>1, FinishKeeps
        <5> QED
          BY <5>2
      <4> QED
        BY <4>1, <3>1 DEF Ends, RecordStop, recording
    <3>4. \A c \in Clients : ~MakeFile(c)
      <4>1. ASSUME NEW g \in Files,
                   files' = [files EXCEPT ![g].state = "open", ![g].rate = config.rate]
            PROVE  FALSE
        <5> DEFINE new == [files[g] EXCEPT !.state = "open", !.rate = config.rate]
        <5>1. files \in [Files -> FileRecords]
          BY <1>1 DEF RecInv, RecordingTypes
        <5>2. new.state = "open" /\ files' = [files EXCEPT ![g] = new]
          BY <4>1, <5>1 DEF FileRecords
        <5> HIDE DEF new
        <5> QED
          BY <5>1, <5>2
      <4> QED
        BY <4>1, <3>1 DEF MakeFile
    <3> QED
      BY <1>1, <3>1, <3>2, <3>3, <3>4
      DEF Next, Thread, Call, Record, vars, Open, OpenFails, Push, Spawn, Started, Patch, Flag,
          Join, Stopped, RecordStart, CheckFree, Poll, recording
  <2>2. PICK c \in Clients : Install(c)
    BY <2>1
  <2>3. recorder # None
    BY <2>2, <1>1, NoneAssumption DEF Install, RecInv, RecordingTypes
  <2>4. c \in raced
    BY <1>1, <2>2, <2>3 DEF Install, RecInv, FreeStaysFree, At
  <2>5. req'[c].at = "idle"
    BY <1>1, <2>2 DEF Install, RecInv, RecordingTypes
  <2> QED
    BY <2>2, <2>4, <2>5 DEF Install
<1>2. Spec => [][Act]_vars
  BY <1>1, RecInvariant, PTL DEF Spec
<1> QED
  BY <1>2 DEF RecordingIsFinished

-----------------------------------------------------------------------------
(* The waterfall *)

Held == Len(spectrum.rows)

\* The ring holds the newest rows of one run, the last of them numbered `seq`.
RingInv ==
    /\ spectrum \in [seq: 0..MaxSeq, rows: Seq(Rows)]
    /\ Held <= MaxRows /\ Held <= spectrum.seq
    /\ spectrum.seq > 0 => Held > 0
    /\ \A i \in 1..Held :
         /\ spectrum.rows[i].n = spectrum.seq - Held + i
         /\ spectrum.rows[i].run = spectrum.rows[1].run
         /\ spectrum.rows[i].run <= thread.run
         /\ thread.at = "opening" => spectrum.rows[i].run < thread.run
         /\ thread.at = "running" => spectrum.rows[i].run = thread.run

Sent == [row: Rows, behind: BOOLEAN]
LastRun(v) == shown[v][Len(shown[v])].row.run
LastNumber(v) == shown[v][Len(shown[v])].row.n

\* What a viewer has seen last is of an older run than what comes next, or its cursor
\* is the number of that row.
CursorInv(v) ==
    /\ LastRun(v) <= thread.run
    /\ thread.at = "opening" => LastRun(v) < thread.run
    /\ thread.at = "running" /\ Held = 0 => LastRun(v) < thread.run
    /\ \A i \in 1..Held :
         \/ LastRun(v) < spectrum.rows[i].run
         \/ /\ LastRun(v) = spectrum.rows[i].run
            /\ LastNumber(v) = since[v] /\ since[v] <= spectrum.seq

ViewInv ==
    /\ since \in [Viewers -> 0..MaxSeq]
    /\ shown \in [Viewers -> Seq(Sent)]
    /\ \A v \in Viewers : shown[v] # <<>> => CursorInv(v)

RowInv == RingInv /\ ViewInv /\ RowsInOrder

RowsAndTypes == RecordingTypes /\ RowInv

\* What the types of the rows say of their numbers.
LEMMA HeldTyped ==
  ASSUME RingInv
  PROVE  /\ spectrum.rows \in Seq(Rows) /\ spectrum.seq \in Nat /\ Held \in Nat
         /\ \A i \in 1..Held : spectrum.rows[i].run \in Nat /\ spectrum.rows[i].n \in Nat
<1>1. spectrum.rows \in Seq(Rows) /\ spectrum.seq \in Nat
  BY SizesAssumption DEF RingInv
<1>2. Held \in Nat
  BY <1>1, LenProperties DEF Held
<1>3. ASSUME NEW i \in 1..Held PROVE spectrum.rows[i].run \in Nat /\ spectrum.rows[i].n \in Nat
  <2>1. spectrum.rows[i] \in Rows
    BY <1>1, <1>3, ElementOfSeq DEF Held
  <2> QED
    BY <2>1, SizesAssumption DEF Rows
<1> QED
  BY <1>1, <1>2, <1>3

\* And the types of what was sent.
LEMMA LastTyped ==
  ASSUME ViewInv, NEW v \in Viewers, shown[v] # <<>>
  PROVE  LastRun(v) \in Nat /\ LastNumber(v) \in Nat /\ since[v] \in Nat
<1>1. shown[v] \in Seq(Sent) /\ since[v] \in Nat
  BY SizesAssumption DEF ViewInv
<1>2. Len(shown[v]) \in 1..Len(shown[v])
  BY <1>1, EmptySeq
<1>3. shown[v][Len(shown[v])] \in Sent
  BY <1>1, <1>2, ElementOfSeq
<1> QED
  BY <1>1, <1>3, SizesAssumption DEF LastRun, LastNumber, Sent, Rows

\* No row was made and none was sent.
LEMMA RowInit == Init => RowInv
<1> SUFFICES ASSUME Init PROVE RowInv
  OBVIOUS
<1>1. RingInv
  BY SizesAssumption DEF Init, RingInv, Held, Rows
<1>2. ViewInv /\ RowsInOrder
  BY SizesAssumption DEF Init, ViewInv, RowsInOrder
<1> QED
  BY <1>1, <1>2 DEF RowInv

\* What was sent is as it was, and so is the order it is in.
LEMMA ShownKept ==
  ASSUME RowsInOrder, UNCHANGED shown
  PROVE  RowsInOrder'
  BY DEF RowsInOrder

\* A run that ends, and one that is spawned, leave the rows to the viewers; a device that
\* is opened empties the ring, and the rows to come are of a newer run than any sent.
LEMMA RunsKeepRows ==
  ASSUME RowsAndTypes, RecordingTypes', Call \/ Open \/ OpenFails \/ Ends
  PROVE  RowInv'
<1> USE DEF RowsAndTypes, RowInv
<1>1. UNCHANGED viewing
  BY DEF Call, Spawn, Started, Patch, Flag, Join, Stopped, Open, OpenFails, Ends
<1>2. CASE Call \/ OpenFails \/ Ends
  <2>1. /\ UNCHANGED spectrum
        /\ \/ thread'.run = thread.run /\ thread'.at \in {thread.at, "none"}
           \/ /\ thread.at = "none" /\ thread'.at = "opening"
              /\ thread'.run = thread.run + 1
    BY <1>2 DEF Call, Spawn, Started, Patch, Flag, Join, Stopped, OpenFails, Ends, RecordingTypes
  <2>2. thread.run \in Nat /\ thread'.run \in Nat
    BY SizesAssumption DEF RecordingTypes
  <2>3. \A i \in 1..Held : spectrum.rows[i].run \in Nat
    BY HeldTyped
  <2>4. RingInv'
    BY <2>1, <2>2, <2>3 DEF RingInv, Held
  <2>5. \A v \in Viewers : shown[v] # <<>> => LastRun(v) \in Nat
    BY LastTyped
  <2>6. ViewInv'
    BY <1>1, <2>1, <2>2, <2>5 DEF ViewInv, CursorInv, LastRun, LastNumber, Held, viewing
  <2> QED
    BY <1>1, <2>4, <2>6, ShownKept DEF viewing
<1>3. CASE Open
  <2>1. /\ spectrum' = [seq |-> 0, rows |-> <<>>] /\ thread.at = "opening"
        /\ thread'.run = thread.run /\ thread'.at \in {"running", "none"}
    BY <1>3 DEF Open, RecordingTypes
  <2>2. RingInv'
    BY <2>1, SizesAssumption DEF RingInv, Held, Rows
  <2>3. ViewInv'
    BY <1>1, <2>1 DEF ViewInv, CursorInv, LastRun, LastNumber, Held, viewing
  <2> QED
    BY <1>1, <2>2, <2>3, ShownKept DEF viewing
<1> QED
  BY <1>2, <1>3

\* A new row goes to the end of the ring, and the oldest leaves it when it is full.
LEMMA PushRing ==
  ASSUME RowsAndTypes, Push
  PROVE  /\ RingInv' /\ Held' > 0
         /\ spectrum'.seq = spectrum.seq + 1
         /\ \A i \in 1..Held' : spectrum'.rows[i].run = thread.run
<1> USE DEF RowsAndTypes, RowInv, Held
<1> DEFINE row  == [run |-> thread.run, n |-> spectrum.seq + 1]
           kept == IF Held = MaxRows THEN Tail(spectrum.rows) ELSE spectrum.rows
           k    == Len(kept)
<1>1. /\ thread.at = "running" /\ UNCHANGED thread /\ spectrum.seq < MaxSeq
      /\ spectrum' = [seq |-> spectrum.seq + 1, rows |-> Append(kept, row)]
  BY DEF Push, pipeline
<1>2. row \in Rows /\ spectrum.rows \in Seq(Rows) /\ spectrum.seq \in Nat /\ thread.run \in 1..MaxRuns
  BY <1>1, SizesAssumption DEF RecordingTypes, RingInv, Rows
<1>3. /\ kept \in Seq(Rows) /\ k \in Nat /\ k < MaxRows /\ k <= spectrum.seq
      /\ \A i \in 1..k : kept[i].n = spectrum.seq - k + i /\ kept[i].run = thread.run
  <2>1. CASE Held = MaxRows
    <3>1. spectrum.rows # <<>> /\ Held \in Nat
      BY <1>2, <2>1, SizesAssumption
    <3>2. /\ Tail(spectrum.rows) \in Seq(Rows) /\ Len(Tail(spectrum.rows)) = Held - 1
          /\ \A i \in 1..Held - 1 : Tail(spectrum.rows)[i] = spectrum.rows[i + 1]
      BY <1>2, <3>1, HeadTailProperties
    <3> QED
      <4>1. \A i \in 1..Held - 1 : /\ Tail(spectrum.rows)[i].n = spectrum.seq - Held + (i + 1)
                                   /\ Tail(spectrum.rows)[i].run = thread.run
        BY <1>1, <1>2, <3>1, <3>2 DEF RingInv
      <4>2. kept = Tail(spectrum.rows) /\ k = Held - 1
        BY <2>1, <3>2
      <4>3. Held <= spectrum.seq /\ Held = MaxRows
        BY <2>1 DEF RingInv
      <4> HIDE DEF kept, k
      <4>4. kept \in Seq(Rows) /\ k \in Nat /\ k < MaxRows /\ k <= spectrum.seq
        <5>1. Held >= 1
          BY <3>1, <4>3, SizesAssumption
        <5> HIDE DEF Held
        <5> QED
          BY <1>2, <3>1, <3>2, <4>2, <4>3, <5>1
      <4>5. ASSUME NEW i \in 1..k
            PROVE  kept[i].n = spectrum.seq - k + i /\ kept[i].run = thread.run
        <5> HIDE DEF Held
        <5>1. kept[i].n = spectrum.seq - Held + (i + 1) /\ kept[i].run = thread.run
          BY <4>1, <4>2
        <5>2. k = Held - 1 /\ Held \in Int /\ spectrum.seq \in Int /\ i \in Int
          BY <1>2, <3>1, <4>2
        <5>3. spectrum.seq - Held + (i + 1) = spectrum.seq - k + i
          BY <5>2
        <5> QED
          BY <5>1, <5>3
      <4> QED
        BY <4>4, <4>5
  <2>2. CASE Held # MaxRows
    BY <1>1, <1>2, <2>2, LenProperties, SizesAssumption DEF RingInv
  <2> QED
    BY <2>1, <2>2
<1> HIDE DEF kept, row
<1>4. /\ spectrum'.rows \in Seq(Rows) /\ Held' = k + 1
      /\ \A i \in 1..k : spectrum'.rows[i] = kept[i]
      /\ spectrum'.rows[k + 1] = row
  BY <1>1, <1>2, <1>3, AppendProperties
<1>5. \A i \in 1..Held' : /\ spectrum'.rows[i].n = spectrum'.seq - Held' + i
                          /\ spectrum'.rows[i].run = thread.run
  <2> SUFFICES ASSUME NEW i \in 1..k + 1
               PROVE  /\ spectrum'.rows[i].n = spectrum'.seq - (k + 1) + i
                      /\ spectrum'.rows[i].run = thread.run
    BY <1>4
  <2>1. CASE i \in 1..k
    BY <1>1, <1>2, <1>3, <1>4, <2>1
  <2>2. CASE i = k + 1
    BY <1>1, <1>2, <1>3, <1>4, <2>2 DEF row
  <2> QED
    BY <1>3, <2>1, <2>2
<1>6. RingInv'
  <2>1. Held' \in Nat /\ Held' <= MaxRows /\ Held' <= spectrum'.seq /\ Held' > 0
    BY <1>1, <1>2, <1>3, <1>4, SizesAssumption
  <2>2. spectrum' \in [seq: 0..MaxSeq, rows: Seq(Rows)]
    BY <1>1, <1>2, <1>4, SizesAssumption
  <2>3. thread'.run = thread.run /\ thread'.at = "running" /\ thread.run \in Nat /\ 1 \in 1..Held'
    BY <1>1, <1>2, <2>1, SizesAssumption
  <2> QED
    BY <1>5, <2>1, <2>2, <2>3 DEF RingInv
<1> QED
  BY <1>1, <1>3, <1>4, <1>5, <1>6

\* A new row is of a newer run than what a viewer has seen last, or comes after it.
LEMMA PushKeepsRows ==
  ASSUME RowsAndTypes, Push
  PROVE  RowInv'
<1> USE DEF RowsAndTypes, RowInv
<1>1. /\ UNCHANGED viewing /\ thread.at = "running" /\ UNCHANGED thread
  BY DEF Push, pipeline
<1>2. /\ RingInv' /\ Held' > 0 /\ spectrum'.seq = spectrum.seq + 1
      /\ \A i \in 1..Held' : spectrum'.rows[i].run = thread.run
  BY PushRing
<1>3. ASSUME NEW v \in Viewers, shown[v] # <<>> PROVE CursorInv(v)'
  <2>1. CursorInv(v) /\ since[v] \in Nat /\ spectrum.seq \in Nat /\ Held \in Nat
    BY <1>3, SizesAssumption, LenProperties DEF ViewInv, RingInv, Held
  <2>2. LastRun(v)' = LastRun(v) /\ LastNumber(v)' = LastNumber(v)
    BY <1>1 DEF LastRun, LastNumber, viewing
  <2>3. \/ LastRun(v) < thread.run
        \/ LastRun(v) = thread.run /\ LastNumber(v) = since[v] /\ since[v] <= spectrum.seq
    <3>1. CASE Held = 0
      BY <1>1, <2>1, <3>1 DEF CursorInv
    <3>2. CASE Held > 0
      <4>1. 1 \in 1..Held
        BY <2>1, <3>2
      <4>2. spectrum.rows[1].run = thread.run
        BY <1>1, <4>1 DEF RingInv
      <4> QED
        BY <2>1, <4>1, <4>2 DEF CursorInv
    <3> QED
      BY <2>1, <3>1, <3>2
  <2> QED
    BY <1>1, <1>2, <2>1, <2>2, <2>3 DEF CursorInv, viewing
<1>4. ViewInv'
  BY <1>1, <1>3 DEF ViewInv, viewing
<1> QED
  BY <1>1, <1>2, <1>4, ShownKept DEF viewing

\* encode sends the newest rows, all that came after the cursor unless there are too many
\* of them, and none only if none is held or none is new.
LEMMA NewRowsAre ==
  ASSUME RingInv, NEW cursor \in Nat, NEW most \in Nat \ {0}
  PROVE  LET rows == NewRows(cursor, most)
         IN  /\ rows \in Seq(Rows) /\ Len(rows) \in Nat /\ Len(rows) <= Held
             /\ \A i \in 1..Len(rows) :
                  rows[i].n = spectrum.seq - Len(rows) + i /\ rows[i].run = spectrum.rows[1].run
             /\ Len(rows) > 0 => cursor + Len(rows) <= spectrum.seq
             /\ Len(rows) = 0 => Held = 0 \/ cursor >= spectrum.seq
             /\ cursor + Len(rows) < spectrum.seq => FellBehind(cursor, most)
<1> DEFINE rows == NewRows(cursor, most)
<1> DEFINE first == spectrum.seq - Held
           start == IF cursor > first THEN cursor ELSE first
           fresh == IF spectrum.seq > start THEN spectrum.seq - start ELSE 0
           count == IF fresh > most THEN most ELSE fresh
<1>1. /\ spectrum.rows \in Seq(Rows) /\ spectrum.seq \in Nat /\ Held \in Nat
      /\ Held <= spectrum.seq
  BY HeldTyped DEF RingInv
<1>a. /\ count \in Nat /\ count <= Held
      /\ count > 0 => cursor + count <= spectrum.seq
      /\ count = 0 => Held = 0 \/ cursor >= spectrum.seq
      /\ cursor + count < spectrum.seq => first > cursor \/ spectrum.seq - cursor > most
  <2>1. start \in Nat /\ start >= cursor /\ start >= first /\ start \in {cursor, first}
    BY <1>1
  <2> HIDE DEF start
  <2>2. /\ fresh \in Nat
        /\ fresh > 0 => start + fresh = spectrum.seq
        /\ fresh = 0 => start >= spectrum.seq
    <3>1. start \in Nat /\ spectrum.seq \in Nat
      BY <1>1, <2>1
    <3> QED
      BY <3>1
  <2> HIDE DEF fresh
  <2>3. /\ count \in Nat /\ count <= fresh /\ (count = 0 => fresh = 0)
        /\ count = fresh \/ (count = most /\ most < fresh)
    BY <2>2
  <2> HIDE DEF count
  <2> QED
    BY <1>1, <2>1, <2>2, <2>3
<1>2. /\ count \in Nat /\ count <= Held
      /\ count > 0 => cursor + count <= spectrum.seq
      /\ count = 0 => Held = 0 \/ cursor >= spectrum.seq
  BY <1>a
<1>3. rows = SubSeq(spectrum.rows, Held - count + 1, Held)
  BY DEF NewRows, Held
<1> HIDE DEF count
<1>4. /\ \A i \in Held - count + 1..Held : spectrum.rows[i] \in Rows
      /\ Held - count + 1 \in Int /\ Held \in Int
  BY <1>1, <1>2, ElementOfSeq DEF Held
<1> HIDE DEF rows
<1>5. /\ rows \in Seq(Rows) /\ Len(rows) = count
      /\ \A i \in 1..count : rows[i] = spectrum.rows[Held - count + i]
  <2> DEFINE m == Held - count + 1
  <2>1. /\ rows \in Seq(Rows) /\ Len(rows) = IF m <= Held THEN Held - m + 1 ELSE 0
        /\ \A i \in 1..Held - m + 1 : rows[i] = spectrum.rows[m + i - 1]
    <3>1. m \in Int /\ Held \in Int /\ \A i \in m..Held : spectrum.rows[i] \in Rows
      BY <1>4
    <3> HIDE DEF m
    <3> QED
      BY <1>3, <3>1, SubSeqProperties DEF m
  <2>2. /\ Held \in Nat /\ count \in Nat /\ m = Held - count + 1
        /\ (IF m <= Held THEN Held - m + 1 ELSE 0) = count /\ Held - m + 1 = count
    BY <1>1, <1>2
  <2>3. \A i \in 1..count : m + i - 1 = Held - count + i
    BY <2>2
  <2> HIDE DEF m
  <2> QED
    BY <2>1, <2>2, <2>3
<1>6. ASSUME NEW i \in 1..count
      PROVE  rows[i].n = spectrum.seq - count + i /\ rows[i].run = spectrum.rows[1].run
  <2>1. Held - count + i \in 1..Held
    BY <1>1, <1>2
  <2>2. spectrum.rows[Held - count + i].n = spectrum.seq - Held + (Held - count + i)
    BY <2>1 DEF RingInv
  <2> QED
    <3>1. 1 \in 1..Held /\ spectrum.seq - Held + (Held - count + i) = spectrum.seq - count + i
      BY <1>1, <1>2, <2>1
    <3>2. spectrum.rows[Held - count + i].run = spectrum.rows[1].run
      BY <2>1 DEF RingInv
    <3> QED
      BY <1>5, <2>2, <3>1, <3>2
<1>7. cursor + count < spectrum.seq => FellBehind(cursor, most)
  BY <1>a DEF FellBehind, Held
<1> QED
  BY <1>2, <1>5, <1>6, <1>7 DEF rows

\* The rows a poll adds follow those the viewer has.
LEMMA PollKeepsRows ==
  ASSUME RowsAndTypes, NEW v \in Viewers, Poll(v)
  PROVE  RowInv'
<1> USE DEF RowsAndTypes, RowInv
<1>a. PICK most \in 1..MaxPoll :
      LET rows == NewRows(since[v], most)
      IN /\ spectrum.seq # since[v]
         /\ shown' = [shown EXCEPT ![v] = @ \o
              [i \in 1..Len(rows) |->
                 [row |-> rows[i],
                  behind |-> i = 1 /\ FellBehind(since[v], most)]]]
         /\ since' = [since EXCEPT ![v] = spectrum.seq]
         /\ UNCHANGED <<pipeline, spectrum, recording, requests>>
  BY DEF Poll
<1> DEFINE rows == NewRows(since[v], most)
           L    == Len(rows)
           behind(i) == i = 1 /\ FellBehind(since[v], most)
           sent == [i \in 1..L |-> [row |-> rows[i], behind |-> behind(i)]]
           K    == Len(shown[v])
<1>1. /\ since[v] \in Nat /\ most \in Nat \ {0} /\ shown[v] \in Seq(Sent) /\ K \in Nat
      /\ spectrum.seq \in Nat /\ Held \in Nat
      /\ K = Len(shown[v])
  BY HeldTyped, SizesAssumption, LenProperties DEF ViewInv
<1>2. /\ L = Len(rows)
      /\ rows \in Seq(Rows) /\ L \in Nat /\ L <= Held
      /\ \A i \in 1..L :
           rows[i].n = spectrum.seq - L + i /\ rows[i].run = spectrum.rows[1].run
      /\ L > 0 => since[v] + L <= spectrum.seq
      /\ L = 0 => Held = 0 \/ since[v] >= spectrum.seq
  BY <1>1, NewRowsAre
<1>b. since[v] + L < spectrum.seq => FellBehind(since[v], most)
  BY <1>1, NewRowsAre
<1>3. /\ shown' = [shown EXCEPT ![v] = shown[v] \o sent] /\ spectrum.seq # since[v]
      /\ since' = [since EXCEPT ![v] = spectrum.seq]
      /\ UNCHANGED <<thread, spectrum>>
  BY <1>a DEF pipeline
<1> HIDE DEF rows, L, K
<1>4. /\ sent \in Seq(Sent) /\ Len(sent) = L
      /\ \A i \in 1..L : sent[i].row = rows[i]
      /\ \A i \in 1..L : sent[i].behind = behind(i)
  <2>1. \A i \in 1..L : rows[i] \in Rows
    BY <1>2, ElementOfSeq
  <2>2. \A i \in 1..L : behind(i) \in BOOLEAN
    OBVIOUS
  <2> HIDE DEF behind
  <2>3. sent \in [1..L -> Sent]
    BY <2>1, <2>2 DEF Sent
  <2> QED
    BY <1>2, <2>3, SeqDef
<1>c. FellBehind(since[v], most) => behind(1)
  OBVIOUS
<1> HIDE DEF behind, sent
<1>5. /\ shown'[v] = shown[v] \o sent /\ \A w \in Viewers : w # v => shown'[w] = shown[w]
      /\ since'[v] = spectrum.seq /\ \A w \in Viewers : w # v => since'[w] = since[w]
      /\ shown'[v] \in Seq(Sent) /\ Len(shown'[v]) = K + L
      /\ \A i \in 1..K : shown'[v][i] = shown[v][i]
      /\ \A i \in 1..L : shown'[v][K + i] = sent[i]
  <2>1. /\ shown'[v] = shown[v] \o sent /\ \A w \in Viewers : w # v => shown'[w] = shown[w]
        /\ since'[v] = spectrum.seq /\ \A w \in Viewers : w # v => since'[w] = since[w]
    BY <1>3 DEF ViewInv
  <2>2. /\ shown[v] \o sent \in Seq(Sent) /\ Len(shown[v] \o sent) = K + L
        /\ \A i \in 1..K + L : (shown[v] \o sent)[i] = IF i <= K THEN shown[v][i] ELSE sent[i - K]
    <3>1. /\ shown[v] \in Seq(Sent) /\ sent \in Seq(Sent)
          /\ Len(shown[v]) = K /\ Len(sent) = L
      BY <1>1, <1>4
    <3>2. /\ shown[v] \o sent \in Seq(Sent)
          /\ Len(shown[v] \o sent) = Len(shown[v]) + Len(sent)
          /\ \A i \in 1..Len(shown[v]) + Len(sent) : (shown[v] \o sent)[i] =
               IF i <= Len(shown[v]) THEN shown[v][i] ELSE sent[i - Len(shown[v])]
      BY <3>1, ConcatProperties
    <3> QED
      BY <3>1, <3>2
  <2>3. K \in Nat /\ L \in Nat
    BY <1>1, <1>2
  <2>4. ASSUME NEW i \in 1..K PROVE shown'[v][i] = shown[v][i]
    <3>1. i \in 1..K + L /\ i <= K
      BY <2>3
    <3> QED
      BY <2>1, <2>2, <3>1
  <2>5. ASSUME NEW i \in 1..L PROVE shown'[v][K + i] = sent[i]
    <3>1. K + i \in 1..K + L /\ ~(K + i <= K) /\ (K + i) - K = i
      BY <2>3
    <3> QED
      BY <2>1, <2>2, <3>1
  <2> QED
    BY <2>1, <2>2, <2>4, <2>5
<1>6. RingInv'
  BY <1>3 DEF RingInv, Held
<1>n. K \in Nat /\ L \in Nat /\ spectrum.seq \in Nat /\ since[v] \in Nat
  BY <1>1, <1>2
<1>7. ASSUME K > 0, Held > 0
      PROVE  \/ LastRun(v) < spectrum.rows[1].run
             \/ /\ LastRun(v) = spectrum.rows[1].run
                /\ LastNumber(v) = since[v] /\ since[v] <= spectrum.seq
  <2>1. shown[v] # <<>> /\ 1 \in 1..Held
    BY <1>1, <1>7
  <2> QED
    BY <2>1 DEF ViewInv, CursorInv
<1>8. ASSUME shown'[v] # <<>> PROVE CursorInv(v)'
  <2>1. CASE L = 0
    <3>1. K > 0 /\ shown[v] # <<>> /\ LastRun(v)' = LastRun(v) /\ LastNumber(v)' = LastNumber(v)
      BY <1>1, <1>4, <1>5, <1>8, <2>1, EmptySeq DEF LastRun, LastNumber
    <3>2. Held = 0 \/ since[v] > spectrum.seq
      BY <1>1, <1>2, <1>3, <2>1
    <3>3. \A i \in 1..Held : LastRun(v) < spectrum.rows[i].run
      <4> SUFFICES ASSUME NEW i \in 1..Held
                   PROVE  LastRun(v) < spectrum.rows[i].run
        OBVIOUS
      <4>1. Held > 0 /\ ~(since[v] <= spectrum.seq)
        BY <1>1, <1>n, <3>2
      <4>2. LastRun(v) < spectrum.rows[1].run
        BY <1>7, <3>1, <4>1
      <4>3. spectrum.rows[i].run = spectrum.rows[1].run
        BY DEF RingInv
      <4> QED
        BY <4>2, <4>3
    <3> QED
      BY <1>3, <3>1, <3>3 DEF ViewInv, CursorInv, Held
  <2>2. CASE L > 0
    <3>0. L \in 1..L
      BY <1>n, <2>2
    <3>1. /\ Len(shown'[v]) = K + L
          /\ LastRun(v)' = rows[L].run /\ LastNumber(v)' = rows[L].n
      BY <1>4, <1>5, <3>0 DEF LastRun, LastNumber
    <3>2. /\ rows[L].n = spectrum.seq /\ rows[L].run = spectrum.rows[1].run /\ Held > 0
          /\ 1 \in 1..Held
      <4>1. rows[L].n = spectrum.seq - L + L /\ rows[L].run = spectrum.rows[1].run
        BY <1>2, <3>0
      <4> QED
        BY <1>1, <1>2, <1>n, <2>2, <4>1
    <3> QED
      BY <1>1, <1>3, <1>5, <3>1, <3>2 DEF CursorInv, RingInv, Held
  <2> QED
    BY <1>2, <2>1, <2>2
<1>9. ViewInv'
  <2>1. since' \in [Viewers -> 0..MaxSeq] /\ shown' \in [Viewers -> Seq(Sent)]
    BY <1>3, <1>5 DEF ViewInv, RingInv
  <2>2. ASSUME NEW w \in Viewers, shown'[w] # <<>> PROVE CursorInv(w)'
    <3>1. CASE w = v
      BY <1>8, <2>2, <3>1
    <3>2. CASE w # v
      BY <1>3, <1>5, <2>2, <3>2 DEF ViewInv, CursorInv, LastRun, LastNumber, Held
    <3> QED
      BY <3>1, <3>2
  <2> QED
    BY <2>1, <2>2 DEF ViewInv
<1>10. RowsInOrder'
  <2>1. SUFFICES ASSUME NEW w \in Viewers, NEW i \in 1..Len(shown'[w]) - 1
                 PROVE  Follows(shown'[w][i], shown'[w][i + 1])
    BY DEF RowsInOrder
  <2>2. CASE w # v
    BY <1>5, <2>1, <2>2 DEF RowsInOrder
  <2>3. CASE w = v /\ i < K
    <3>1. i \in 1..K - 1 /\ i \in 1..K /\ i + 1 \in 1..K
      BY <1>1, <2>3
    <3>2. Follows(shown[v][i], shown[v][i + 1])
      BY <1>1, <3>1 DEF RowsInOrder
    <3> QED
      BY <1>5, <2>3, <3>1, <3>2
  <2>4. CASE w = v /\ i = K
    <3>1. K > 0 /\ L > 0 /\ Held > 0 /\ i \in 1..K /\ 1 \in 1..L
      BY <1>1, <1>2, <1>5, <2>4
    <3>2. /\ shown'[v][i].row.run = LastRun(v) /\ shown'[v][i].row.n = LastNumber(v)
          /\ shown'[v][i + 1] = sent[1]
      BY <1>1, <1>5, <2>4, <3>1 DEF LastRun, LastNumber
    <3>3. /\ sent[1].row.run = spectrum.rows[1].run /\ sent[1].row.n = spectrum.seq - L + 1
      BY <1>2, <1>4, <3>1
    <3>8. FellBehind(since[v], most) => sent[1].behind
      BY <1>4, <1>c, <3>1
    <3>4. since[v] + L <= spectrum.seq
      BY <1>2, <3>1
    <3>5. CASE spectrum.seq = since[v] + L
      BY <1>n, <1>7, <2>4, <3>1, <3>2, <3>3, <3>5 DEF Follows
    <3>6. CASE spectrum.seq > since[v] + L
      <4>1. spectrum.seq - L + 1 > since[v] /\ FellBehind(since[v], most)
        BY <1>b, <1>n, <3>6
      <4> QED
        BY <1>n, <1>7, <2>4, <3>1, <3>2, <3>3, <3>8, <4>1 DEF Follows
    <3>7. \/ spectrum.seq = since[v] + L
          \/ spectrum.seq > since[v] + L
      <4> HIDE DEF Held
      <4> QED
        BY <1>n, <3>4
    <3> QED
      BY <3>5, <3>6, <3>7
  <2>5. CASE w = v /\ i > K
    <3>1. PICK j \in 1..L - 1 : i = K + j
      <4>1. i \in Nat /\ K < i /\ i <= K + L - 1
        BY <1>n, <1>5, <2>1, <2>5
      <4>2. i - K \in 1..L - 1 /\ i = K + (i - K)
        BY <1>n, <4>1
      <4> QED
        BY <4>2
    <3>2. j \in 1..L /\ j + 1 \in 1..L /\ i + 1 = K + (j + 1)
      BY <1>n, <3>1
    <3>3. shown'[v][i].row = rows[j] /\ shown'[v][i + 1].row = rows[j + 1]
      <4>1. shown'[v][K + j] = sent[j] /\ shown'[v][K + (j + 1)] = sent[j + 1]
        BY <1>5, <3>2
      <4>2. sent[j].row = rows[j] /\ sent[j + 1].row = rows[j + 1]
        BY <1>4, <3>2
      <4> QED
        BY <3>1, <3>2, <4>1, <4>2
    <3>4. rows[j].run = rows[j + 1].run /\ rows[j + 1].n = rows[j].n + 1
      <4>1. /\ rows[j].run = spectrum.rows[1].run /\ rows[j + 1].run = spectrum.rows[1].run
            /\ rows[j].n = spectrum.seq - L + j /\ rows[j + 1].n = spectrum.seq - L + (j + 1)
        BY <1>2, <3>2
      <4>2. spectrum.seq - L + (j + 1) = (spectrum.seq - L + j) + 1
        BY <1>n
      <4> QED
        BY <4>1, <4>2
    <3> QED
      BY <2>5, <3>3, <3>4 DEF Follows
  <2> QED
    BY <1>1, <2>1, <2>2, <2>3, <2>4, <2>5
<1> QED
  BY <1>6, <1>9, <1>10

\* Every step keeps the rows in order.
LEMMA RowNext == RowsAndTypes /\ RecordingTypes' /\ [Next]_vars => RowInv'
<1> SUFFICES ASSUME RowsAndTypes, RecordingTypes', [Next]_vars PROVE RowInv'
  OBVIOUS
<1>1. CASE Call \/ Open \/ OpenFails \/ Ends
  BY <1>1, RunsKeepRows
<1>2. CASE Push
  BY <1>2, PushKeepsRows
<1>3. ASSUME NEW v \in Viewers, Poll(v) PROVE RowInv'
  BY <1>3, PollKeepsRows
<1>4. CASE Block \/ RecordStop \/ (\E c \in Clients : Record(c)) \/ UNCHANGED vars
  <2>1. UNCHANGED <<thread, spectrum, since, shown>>
    BY <1>4 DEF Block, RecordStop, Record, RecordStart, CheckFree, MakeFile, Install, vars,
         pipeline, viewing
  <2> QED
    BY <2>1 DEF RowsAndTypes, RowInv, RingInv, ViewInv, CursorInv, LastRun, LastNumber, Held,
         RowsInOrder
<1> QED
  BY <1>1, <1>2, <1>3, <1>4 DEF Next, Thread

\* However starts, stops, rows and polls interleave, what a viewer is sent is in order,
\* each row once, and without a hole unless it was too far behind (encode, push, reset).
THEOREM InOrder == Spec => []RowsInOrder
<1>1. RecInv => RecordingTypes
  BY DEF RecInv
<1>2. RowsAndTypes <=> RecordingTypes /\ RowInv
  BY DEF RowsAndTypes
<1>3. RowInv => RowsInOrder
  BY DEF RowInv
<1> QED
  BY <1>1, <1>2, <1>3, RowInit, RowNext, RecInvariant, PTL DEF Spec

\* Every variable keeps its type.
THEOREM AnalysisType == Spec => []TypeOK
<1>1. RecInv /\ RowInv => TypeOK
  BY HeldTyped DEF RecInv, RowInv, RecordingTypes, RingInv, ViewInv, TypeOK, FileRecords, Sent, Held
<1>2. RecInv => RecordingTypes
  BY DEF RecInv
<1>3. RowsAndTypes <=> RecordingTypes /\ RowInv
  BY DEF RowsAndTypes
<1> QED
  BY <1>1, <1>2, <1>3, RowInit, RowNext, RecInvariant, PTL DEF Spec
=============================================================================
