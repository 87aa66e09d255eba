------------------------------ MODULE Analysis ------------------------------
(***************************************************************************)
(* Receiver analysis (server/src/analysis, api/analysis.rs, run_analysis of   *)
(* radio/mod.rs): the waterfall that clients poll with a cursor, and the IQ     *)
(* recorder that requests open and close while the pipeline thread feeds it,    *)
(* closes it at its cap and closes it when it ends.                             *)
(*                                                                             *)
(* A row is its run and its number in the run.  The calls that start, stop and  *)
(* bounce the pipeline come one at a time here (RadioManager has their           *)
(* interleavings); what matters is where each of them stores the configuration, *)
(* because requests look at the configuration and never at the thread.          *)
(***************************************************************************)
EXTENDS Naturals, Sequences, FiniteSets

CONSTANTS Clients,     \* requests for a recording
          Viewers,     \* clients that poll the waterfall
          Files,       \* recordings that may be made
          Rates,       \* sample rates
          MaxRows,     \* rows the ring holds
          MaxPoll,     \* bound of the model: the largest max_rows of a poll
          Cap,         \* blocks a recording may take
          MaxRuns,     \* bound of the model: pipeline runs
          MaxSeq,      \* bound of the model: rows of a run
          None

ASSUME SizesAssumption ==
    /\ MaxRows \in Nat \ {0} /\ MaxPoll \in Nat \ {0} /\ Cap \in Nat \ {0}
    /\ MaxRuns \in Nat /\ MaxSeq \in Nat
ASSUME NoneAssumption == None \notin Files

VARIABLES config,      \* the radio's configuration: running in this mode, and its rate
          call,        \* how far the call that starts, stops or bounces has come
          thread,      \* the pipeline thread
          spectrum,    \* rows held, and their count since the run began
          recorder,    \* the file being recorded
          last,        \* the last finished recording
          files,
          req,         \* each request: where it is, the file it made
          raced,       \* history: requests that were under way together
          since,       \* each viewer's cursor
          shown        \* history: the rows each viewer was sent

vars == <<config, call, thread, spectrum, recorder, last, files, req, raced, since, shown>>
pipeline  == <<config, call, thread>>
recording == <<recorder, last, files>>
requests  == <<req, raced>>
viewing   == <<since, shown>>

Rows   == [run: 1..MaxRuns, n: 1..MaxSeq]
Calls  == {"idle", "start", "enter", "stop", "leave", "bounce", "spawn", "ended"}
Steps  == {"none", "opening", "running"}
Points == {"idle", "running", "free", "made"}

TypeOK ==
    /\ config \in [on: BOOLEAN, rate: Rates]
    /\ call \in Calls
    /\ thread \in [at: Steps, run: 0..MaxRuns, rate: Rates, stop: BOOLEAN]
    /\ spectrum.seq \in 0..MaxSeq /\ spectrum.rows \in Seq(Rows)
    /\ Len(spectrum.rows) <= MaxRows /\ Len(spectrum.rows) <= spectrum.seq
    /\ recorder \in Files \cup {None} /\ last \in Files \cup {None}
    /\ files \in [Files -> [state: {"unused", "open", "finished", "broken", "lost"},
                            rate: Rates, runs: SUBSET (1..MaxRuns), blocks: 0..Cap]]
    /\ req \in [Clients -> [at: Points, file: Files \cup {None}]]
    /\ raced \subseteq Clients
    /\ since \in [Viewers -> 0..MaxSeq]
    /\ shown \in [Viewers -> Seq([row: Rows, behind: BOOLEAN])]

Init ==
    /\ \E r \in Rates :
         /\ config = [on |-> FALSE, rate |-> r]
         /\ thread = [at |-> "none", run |-> 0, rate |-> r, stop |-> FALSE]
         /\ files = [f \in Files |-> [state |-> "unused", rate |-> r, runs |-> {}, blocks |-> 0]]
    /\ call = "idle"
    /\ spectrum = [seq |-> 0, rows |-> <<>>]
    /\ recorder = None /\ last = None
    /\ req = [c \in Clients |-> [at |-> "idle", file |-> None]] /\ raced = {}
    /\ since = [v \in Viewers |-> 0] /\ shown = [v \in Viewers |-> <<>>]

-----------------------------------------------------------------------------
(* Start, stop and PATCH, as far as this mode is concerned. *)

\* The configuration says so after the spawn (POST start) or before it (PATCH to this mode).
Spawn ==
    /\ thread.at = "none" /\ thread.run < MaxRuns
    /\ \/ call = "idle" /\ ~config.on /\ call' = "start"
       \/ call = "enter" /\ call' = "idle"
       \/ call = "spawn" /\ call' = "idle"
    /\ thread' = [at |-> "opening", run |-> thread.run + 1, rate |-> config.rate, stop |-> FALSE]
    /\ UNCHANGED <<config, spectrum, recording, requests, viewing>>

Started ==
    /\ call = "start"
    /\ config' = [config EXCEPT !.on = TRUE] /\ call' = "idle"
    /\ UNCHANGED <<thread, spectrum, recording, requests, viewing>>

\* PATCH stores the configuration first and bounces the pipeline after it: into this
\* mode, out of it, or to another rate within it.
Patch ==
    /\ call = "idle"
    /\ \/ ~config.on /\ thread.at = "none"
          /\ config' = [config EXCEPT !.on = TRUE] /\ call' = "enter"
       \/ config.on
          /\ config' = [config EXCEPT !.on = FALSE] /\ call' = "leave"
       \/ config.on
          /\ \E r \in Rates \ {config.rate} : config' = [config EXCEPT !.rate = r]
          /\ call' = "bounce"
    /\ UNCHANGED <<thread, spectrum, recording, requests, viewing>>

\* stop() flags the thread.
Flag ==
    /\ ~thread.stop
    /\ \/ call = "idle" /\ config.on /\ call' = "stop"
       \/ call \in {"leave", "bounce"} /\ UNCHANGED call
    /\ thread' = [thread EXCEPT !.stop = TRUE]
    /\ UNCHANGED <<config, spectrum, recording, requests, viewing>>

\* stop() joins it, and POST stop only then says so.
Join ==
    /\ thread.stop /\ thread.at = "none"
    /\ \/ call = "stop" /\ call' = "ended"
       \/ call = "leave" /\ call' = "idle"
       \/ call = "bounce" /\ call' = "spawn"
    /\ thread' = [thread EXCEPT !.stop = FALSE]
    /\ UNCHANGED <<config, spectrum, recording, requests, viewing>>

Stopped ==
    /\ call = "ended"
    /\ config' = [config EXCEPT !.on = FALSE] /\ call' = "idle"
    /\ UNCHANGED <<thread, spectrum, recording, requests, viewing>>

-----------------------------------------------------------------------------
(* The pipeline thread. *)

\* The device is opened, then the waterfall is reset, then the stream is opened.
Open ==
    /\ thread.at = "opening"
    /\ spectrum' = [seq |-> 0, rows |-> <<>>]
    /\ \E at \in {"running", "none"} : thread' = [thread EXCEPT !.at = at]
    /\ UNCHANGED <<config, call, recording, requests, viewing>>

OpenFails ==
    /\ thread.at = "opening"
    /\ thread' = [thread EXCEPT !.at = "none"]
    /\ UNCHANGED <<config, call, spectrum, recording, requests, viewing>>

\* finish() patches the header and the recording becomes the last one; it may fail.
Finish(f, fed) ==
    \/ /\ files' = [fed EXCEPT ![f].state = "finished"]
       /\ last' = f
    \/ /\ files' = [fed EXCEPT ![f].state = "broken"]
       /\ UNCHANGED last

\* record_iq: the block goes into the file, which is closed when it is full or when the
\* write fails.
Block ==
    /\ thread.at = "running" /\ recorder # None
    /\ LET f == recorder
           fed == [files EXCEPT ![f].blocks = @ + 1, ![f].runs = @ \cup {thread.run}]
       IN \/ /\ fed[f].blocks < Cap
             /\ files' = fed
             /\ UNCHANGED <<recorder, last>>
          \/ /\ fed[f].blocks >= Cap
             /\ recorder' = None
             /\ Finish(f, fed)
          \/ /\ recorder' = None
             /\ Finish(f, files)
    /\ UNCHANGED <<pipeline, spectrum, requests, viewing>>

\* push: a row drops the oldest when the ring is full.
Push ==
    /\ thread.at = "running" /\ spectrum.seq < MaxSeq
    /\ LET row == [run |-> thread.run, n |-> spectrum.seq + 1]
           kept == IF Len(spectrum.rows) = MaxRows THEN Tail(spectrum.rows) ELSE spectrum.rows
       IN spectrum' = [seq |-> spectrum.seq + 1, rows |-> Append(kept, row)]
    /\ UNCHANGED <<pipeline, recording, requests, viewing>>

\* Mutant of Ends: the thread leaves without closing the recording.
Ends_Open ==
    /\ thread.at = "running" /\ thread.stop
    /\ thread' = [thread EXCEPT !.at = "none"]
    /\ UNCHANGED <<config, call, spectrum, recording, requests, viewing>>

\* The loop sees its flag; the last thing the thread does is close the recording.
Ends ==
    /\ thread.at = "running" /\ thread.stop
    /\ thread' = [thread EXCEPT !.at = "none"]
    /\ IF recorder = None
         THEN UNCHANGED recording
         ELSE recorder' = None /\ Finish(recorder, files)
    /\ UNCHANGED <<config, call, spectrum, requests, viewing>>

-----------------------------------------------------------------------------
(* POST /analysis/record *)

At(c, point) == req[c].at = point
Starting(c) == ~At(c, "idle")

RecordStart(c) ==
    /\ At(c, "idle") /\ config.on
    /\ req' = [req EXCEPT ![c].at = "running"]
    /\ LET others == {d \in Clients : Starting(d)}
       IN raced' = IF others = {} THEN raced \ {c} ELSE raced \cup others \cup {c}
    /\ UNCHANGED <<pipeline, spectrum, recording, viewing>>

\* Mutant of CheckFree: a recording under way is no reason to refuse.
CheckFree_Any(c) ==
    /\ At(c, "running")
    /\ req' = [req EXCEPT ![c].at = "free"]
    /\ UNCHANGED <<pipeline, spectrum, recording, raced, viewing>>

CheckFree(c) ==
    /\ At(c, "running")
    /\ req' = [req EXCEPT ![c].at = IF recorder = None THEN "free" ELSE "idle"]
    /\ UNCHANGED <<pipeline, spectrum, recording, raced, viewing>>

\* The file is made for the rate the configuration has now.
MakeFile(c) ==
    /\ At(c, "free")
    /\ \/ \E f \in Files :
            /\ files[f].state = "unused"
            /\ files' = [files EXCEPT ![f].state = "open", ![f].rate = config.rate]
            /\ req' = [req EXCEPT ![c] = [at |-> "made", file |-> f]]
       \/ /\ req' = [req EXCEPT ![c].at = "idle"]
          /\ UNCHANGED files
    /\ UNCHANGED <<pipeline, spectrum, recorder, last, raced, viewing>>

\* It becomes the recording whatever is there: a recorder in its place is dropped.
Install(c) ==
    /\ At(c, "made")
    /\ recorder' = req[c].file
    /\ files' = [f \in Files |-> IF f = recorder THEN [files[f] EXCEPT !.state = "lost"]
                                                 ELSE files[f]]
    /\ req' = [req EXCEPT ![c] = [at |-> "idle", file |-> None]]
    /\ UNCHANGED <<pipeline, spectrum, last, raced, viewing>>

RecordStop ==
    /\ recorder # None
    /\ recorder' = None
    /\ Finish(recorder, files)
    /\ UNCHANGED <<pipeline, spectrum, requests, viewing>>

-----------------------------------------------------------------------------
(* GET /analysis/spectrum *)

\* Mutant of NewRows: the row after the cursor is taken for one the viewer has.
NewRows_Short(cursor, most) ==
    LET held  == Len(spectrum.rows)
        first == spectrum.seq - held
        start == IF cursor > first THEN cursor + 1 ELSE first
        fresh == IF spectrum.seq > start THEN spectrum.seq - start ELSE 0
        count == IF fresh > most THEN most ELSE fresh
    IN SubSeq(spectrum.rows, held - count + 1, held)

\* encode: the rows after the cursor that are still held, and of these the newest.
NewRows(cursor, most) ==
    LET held  == Len(spectrum.rows)
        first == spectrum.seq - held
        start == IF cursor > first THEN cursor ELSE first
        fresh == IF spectrum.seq > start THEN spectrum.seq - start ELSE 0
        count == IF fresh > most THEN most ELSE fresh
    IN SubSeq(spectrum.rows, held - count + 1, held)

\* Rows after the cursor have left the ring, or there are more of them than the limit.
FellBehind(cursor, most) ==
    spectrum.seq - Len(spectrum.rows) > cursor \/ spectrum.seq - cursor > most

\* The reply carries `seq`, which the viewer sends back the next time.
Poll(v) ==
    \E most \in 1..MaxPoll :
      LET rows == NewRows(since[v], most)
      IN /\ spectrum.seq # since[v]
         /\ shown' = [shown EXCEPT ![v] = @ \o
              [i \in 1..Len(rows) |->
                 [row |-> rows[i],
                  behind |-> i = 1 /\ FellBehind(since[v], most)]]]
         /\ since' = [since EXCEPT ![v] = spectrum.seq]
         /\ UNCHANGED <<pipeline, spectrum, recording, requests>>

-----------------------------------------------------------------------------
Thread == Open \/ OpenFails \/ Block \/ Push \/ Ends
Call   == Spawn \/ Started \/ Patch \/ Flag \/ Join \/ Stopped
Record(c) == RecordStart(c) \/ CheckFree(c) \/ MakeFile(c) \/ Install(c)

Next ==
    \/ Thread \/ Call \/ RecordStop
    \/ \E c \in Clients : Record(c)
    \/ \E v \in Viewers : Poll(v)

Spec == Init /\ [][Next]_vars

-----------------------------------------------------------------------------
(* Properties *)

\* A recording holds the samples of one pipeline run only: the thread that fed it closes
\* it before another can be spawned, however late a request installs it.
OneRunPerRecording == \A f \in Files : Cardinality(files[f].runs) <= 1

\* The recorder is given up only for a finished (or failed) file, unless two requests to
\* start were under way at once: then one installs its recorder over the other's.
RecordingIsFinished ==
    [][ \A f \in Files :
          files[f].state # "lost" /\ files'[f].state = "lost"
            => \E c \in raced : At(c, "made") /\ req'[c].at = "idle" ]_vars

\* What a viewer is sent is in the order the rows were made, each row once, and within a
\* run without a hole unless the viewer was further behind than the ring or its limit.
Follows(a, b) ==
    \/ a.row.run < b.row.run
    \/ a.row.run = b.row.run /\ b.row.n = a.row.n + 1
    \/ a.row.run = b.row.run /\ b.row.n > a.row.n /\ b.behind
RowsInOrder ==
    \A v \in Viewers : \A i \in 1..Len(shown[v]) - 1 : Follows(shown[v][i], shown[v][i + 1])
=============================================================================
