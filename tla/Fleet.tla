------------------------------- MODULE Fleet -------------------------------
(***************************************************************************)
(* The hypervisor (hypervisor/src): main, the port layout and its preflight,   *)
(* and one supervisor task per radio, which runs a server process, restarts it *)
(* when it exits and stops it on shutdown.                                     *)
(*                                                                             *)
(* The hypervisor may be killed outright and started anew; the servers it had  *)
(* then go on running as orphans.  A server that finds one of its ports taken  *)
(* exits; it binds them as it starts.  Times are the order of events: a delay   *)
(* ends, a server stays up for a minute or not, a grace period ends before or    *)
(* after the server does.                                                      *)
(***************************************************************************)
EXTENDS Naturals, FiniteSets

CONSTANTS Radios,        \* 0..n-1, the indices of the radios
          Units,         \* the SDRs that are attached
          Plans,         \* how a run is configured, see PlanType
          MaxPort,       \* ports are numbers below this
          MaxCrashes, MaxFails, MaxKills   \* bounds: servers that exit, spawns that fail,
                                           \* hypervisors that are killed

ASSUME RadiosAssumption == Radios = 0..(Cardinality(Radios) - 1) /\ MaxPort \in Nat \ {0}
ASSUME BoundsAssumption == MaxCrashes \in Nat /\ MaxFails \in Nat /\ MaxKills \in Nat

VARIABLES plan,
          main,          \* the hypervisor process
          shutdown,      \* the watch channel
          task,          \* each radio's supervisor task
          proc,          \* its server process
          running, pid,  \* what the fleet page shows; a pid is set or not
          restarts, attempt,
          orphan,        \* servers of a hypervisor that was killed
          crashes, fails, kills,
          lost,          \* history: radios whose server could not be waited for
          spawned        \* history: servers started by this hypervisor

child == <<running, pid, restarts, attempt>>
budget == <<crashes, fails, kills>>
vars == <<plan, main, shutdown, task, proc, child, orphan, budget, lost, spawned>>

Feeds   == {"c2", "beast", "ais_nmea", "aprs"}       \* TCP
Streams == {"audio_out", "audio_in"}                 \* UDP
\* The SDRs that each radio's filter matches, the first port of each kind (0: the feed is
\* off), the flags --no-restart and --max-restarts, and whether servers stop when they are
\* told to.
PlanType == [match: [Radios -> SUBSET Units], base: [Feeds \cup Streams -> 0..(MaxPort - 1)],
             noRestart: BOOLEAN, maxRestarts: Nat, graceful: BOOLEAN]

\* A configuration gives every server a TCP port of its own to be found by.
ASSUME PlansAssumption ==
    /\ Plans \subseteq PlanType
    /\ \A p \in Plans, r \in Radios : \E kind \in Feeds :
         /\ kind = "c2" \/ p.base[kind] # 0
         /\ (p.base[kind] + r) % MaxPort # 0

MainStates == {"load", "running", "stopping", "exited", "aborted", "killed"}
TaskStates == {"none", "loop", "waiting", "exited", "backoff", "retry", "stopping", "killing", "done"}
\* "exited": not yet waited for; "doomed": SIGKILL is on its way.
ProcStates == {"none", "up", "exited", "doomed"}

TypeOK ==
    /\ plan \in PlanType
    /\ main \in MainStates /\ shutdown \in BOOLEAN
    /\ task \in [Radios -> TaskStates] /\ proc \in [Radios -> ProcStates]
    /\ running \in [Radios -> BOOLEAN] /\ pid \in [Radios -> BOOLEAN]
    /\ restarts \in [Radios -> Nat] /\ attempt \in [Radios -> Nat]
    /\ orphan \in [Radios -> BOOLEAN]
    /\ crashes \in 0..MaxCrashes /\ fails \in 0..MaxFails /\ kills \in 0..MaxKills
    /\ lost \subseteq Radios /\ spawned \in [Radios -> Nat]
    /\ \A r \in Radios : attempt[r] <= restarts[r] /\ (running[r] => pid[r])

None == [r \in Radios |-> FALSE]
Zero == [r \in Radios |-> 0]
Fresh ==
    /\ main' = "load" /\ shutdown' = FALSE
    /\ task' = [r \in Radios |-> "none"] /\ proc' = [r \in Radios |-> "none"]
    /\ running' = None /\ pid' = None /\ restarts' = Zero /\ attempt' = Zero
    /\ lost' = {} /\ spawned' = Zero

Init ==
    /\ plan \in Plans
    /\ main = "load" /\ shutdown = FALSE
    /\ task = [r \in Radios |-> "none"] /\ proc = [r \in Radios |-> "none"]
    /\ running = None /\ pid = None /\ restarts = Zero /\ attempt = Zero
    /\ orphan = None
    /\ crashes = 0 /\ fails = 0 /\ kills = 0
    /\ lost = {} /\ spawned = Zero

Alive(r) == proc[r] \in {"up", "doomed"}

-----------------------------------------------------------------------------
(* Ports *)

\* base + index, in sixteen bits.
Port(r, kind) ==
    IF kind \in Feeds \ {"c2"} /\ plan.base[kind] = 0 THEN 0 ELSE (plan.base[kind] + r) % MaxPort

TcpPorts(r) == {Port(r, kind) : kind \in Feeds} \ {0}
UdpPorts(r) == {Port(r, kind) : kind \in Streams} \ {0}

\* Assigned to one feed of one radio.
Unique == \A r1, r2 \in Radios : \A k1, k2 \in Feeds :
    Port(r1, k1) = Port(r2, k2) /\ Port(r1, k1) # 0 => r1 = r2 /\ k1 = k2

\* Bound by a server that is there.
Held(r) == \E o \in Radios :
    /\ orphan[o] \/ (o # r /\ Alive(o))
    /\ (TcpPorts(o) \cap TcpPorts(r)) \cup (UdpPorts(o) \cap UdpPorts(r)) # {}

\* Mutant of Preflight: the ports are compared and not tried.
Preflight_Compared == Unique

\* Every TCP port of every server, compared and bound for a moment.
Preflight == Unique /\ \A r, o \in Radios : orphan[o] => TcpPorts(o) \cap TcpPorts(r) = {}

\* resolve: each filter matches one SDR, and no two the same.
Resolved ==
    /\ \A r \in Radios : \E u \in Units : plan.match[r] = {u}
    /\ \A r1, r2 \in Radios : plan.match[r1] = plan.match[r2] => r1 = r2

\* main: load, resolve, preflight, spawn_fleet.
Load ==
    /\ main = "load"
    /\ IF Resolved /\ Preflight
         THEN main' = "running" /\ task' = [r \in Radios |-> "loop"]
         ELSE main' = "aborted" /\ UNCHANGED task
    /\ UNCHANGED <<plan, shutdown, proc, child, orphan, budget, lost, spawned>>

-----------------------------------------------------------------------------
(* supervise and run_once *)

Goto(r, state) == task' = [task EXCEPT ![r] = state]

Down(r) == running' = [running EXCEPT ![r] = FALSE] /\ pid' = [pid EXCEPT ![r] = FALSE]

LoopEnds(r) ==
    /\ task[r] = "loop" /\ shutdown
    /\ Goto(r, "done")
    /\ UNCHANGED <<plan, main, shutdown, proc, child, orphan, budget, lost, spawned>>

\* The shutdown may come between the look at it and the spawn.
Spawn(r) ==
    /\ task[r] = "loop"
    /\ proc' = [proc EXCEPT ![r] = "up"]
    /\ running' = [running EXCEPT ![r] = TRUE] /\ pid' = [pid EXCEPT ![r] = TRUE]
    /\ spawned' = [spawned EXCEPT ![r] = @ + 1]
    /\ Goto(r, "waiting")
    /\ UNCHANGED <<plan, main, shutdown, restarts, attempt, orphan, budget, lost>>

SpawnFails(r) ==
    /\ task[r] = "loop" /\ fails < MaxFails
    /\ fails' = fails + 1
    /\ Goto(r, "retry")
    /\ UNCHANGED <<plan, main, shutdown, proc, child, orphan, crashes, kills, lost, spawned>>

\* The server's exit has been collected.
WaitReturns(r) ==
    /\ task[r] = "waiting" /\ proc[r] = "exited"
    /\ proc' = [proc EXCEPT ![r] = "none"]
    /\ Down(r)
    /\ Goto(r, "exited")
    /\ UNCHANGED <<plan, main, shutdown, restarts, attempt, orphan, budget, lost, spawned>>

\* It cannot be collected: it is dropped, and a drop kills.
WaitFails(r) ==
    /\ task[r] = "waiting" /\ fails < MaxFails
    /\ fails' = fails + 1
    /\ proc' = [proc EXCEPT ![r] = IF @ = "up" THEN "doomed" ELSE "none"]
    /\ lost' = lost \cup {r}
    /\ Goto(r, "retry")
    /\ UNCHANGED <<plan, main, shutdown, child, orphan, crashes, kills, spawned>>

\* Mutant of GaveUp: zero is a bound like any other.
GaveUp_Zero(r, healthy) == restarts[r] + 1 > plan.maxRestarts

GaveUp(r, healthy) == plan.maxRestarts # 0 /\ restarts[r] + 1 > plan.maxRestarts

\* The backoff of 2^attempt seconds begins anew after a minute of health.
Exited(r) ==
    /\ task[r] = "exited"
    /\ IF shutdown \/ plan.noRestart
         THEN Goto(r, "done") /\ UNCHANGED <<restarts, attempt>>
         ELSE \E healthy \in BOOLEAN :
                /\ restarts' = [restarts EXCEPT ![r] = @ + 1]
                /\ attempt' = [attempt EXCEPT ![r] =
                     (IF healthy THEN 0 ELSE @) + (IF GaveUp(r, healthy) THEN 0 ELSE 1)]
                /\ Goto(r, IF GaveUp(r, healthy) THEN "done" ELSE "backoff")
    /\ UNCHANGED <<plan, main, shutdown, proc, running, pid, orphan, budget, lost, spawned>>

\* The five seconds of a retry outlast a SIGKILL.
DelayEnds(r) ==
    /\ task[r] \in {"backoff", "retry"} /\ proc[r] = "none"
    /\ Goto(r, IF shutdown THEN "done" ELSE "loop")
    /\ UNCHANGED <<plan, main, shutdown, proc, child, orphan, budget, lost, spawned>>

\* Mutant of StopChild: the supervisor returns, and a drop does not kill.
StopChild_Returns(r) ==
    /\ task[r] = "waiting" /\ shutdown
    /\ Goto(r, "done")
    /\ UNCHANGED <<plan, main, shutdown, proc, child, orphan, budget, lost, spawned>>

\* SIGINT.
StopChild(r) ==
    /\ task[r] = "waiting" /\ shutdown
    /\ Goto(r, "stopping")
    /\ UNCHANGED <<plan, main, shutdown, proc, child, orphan, budget, lost, spawned>>

Stopped(r) ==
    /\ task[r] \in {"stopping", "killing"} /\ proc[r] = "exited"
    /\ proc' = [proc EXCEPT ![r] = "none"]
    /\ Down(r)
    /\ Goto(r, "done")
    /\ UNCHANGED <<plan, main, shutdown, restarts, attempt, orphan, budget, lost, spawned>>

\* Mutant of GraceEnds: the supervisor goes on waiting.
GraceEnds_Waits(r) == FALSE /\ UNCHANGED vars

\* Five seconds have passed.
GraceEnds(r) ==
    /\ task[r] = "stopping" /\ proc[r] = "up"
    /\ proc' = [proc EXCEPT ![r] = "doomed"]
    /\ Goto(r, "killing")
    /\ UNCHANGED <<plan, main, shutdown, child, orphan, budget, lost, spawned>>

-----------------------------------------------------------------------------
(* Server processes *)

\* It has been told to stop and does.
ServerStops(r) ==
    /\ proc[r] = "up" /\ task[r] = "stopping" /\ plan.graceful
    /\ proc' = [proc EXCEPT ![r] = "exited"]
    /\ UNCHANGED <<plan, main, shutdown, task, child, orphan, budget, lost, spawned>>

ServerExits(r) ==
    /\ proc[r] = "up" /\ (Held(r) \/ crashes < MaxCrashes)
    /\ crashes' = IF Held(r) THEN crashes ELSE crashes + 1
    /\ proc' = [proc EXCEPT ![r] = "exited"]
    /\ UNCHANGED <<plan, main, shutdown, task, child, orphan, fails, kills, lost, spawned>>

\* SIGKILL; nobody waits for a server that was dropped.
ServerDies(r) ==
    /\ proc[r] = "doomed"
    /\ proc' = [proc EXCEPT ![r] = IF task[r] = "killing" THEN "exited" ELSE "none"]
    /\ UNCHANGED <<plan, main, shutdown, task, child, orphan, budget, lost, spawned>>

OrphanEnds(r) ==
    /\ orphan[r]
    /\ orphan' = [orphan EXCEPT ![r] = FALSE]
    /\ UNCHANGED <<plan, main, shutdown, task, proc, child, budget, lost, spawned>>

-----------------------------------------------------------------------------
(* main *)

Signal ==
    /\ main = "running"
    /\ main' = "stopping" /\ shutdown' = TRUE
    /\ UNCHANGED <<plan, task, proc, child, orphan, budget, lost, spawned>>

\* All supervisors have returned, or ten seconds have passed, which leaves those that
\* wait for a server they killed: they are dropped with the runtime.
Exit ==
    /\ main = "stopping"
    /\ \A r \in Radios : task[r] \in {"done", "killing"}
    /\ main' = "exited"
    /\ task' = [r \in Radios |-> "done"]
    /\ UNCHANGED <<plan, shutdown, proc, child, orphan, budget, lost, spawned>>

\* The hypervisor is killed: its servers are nobody's.
Kill ==
    /\ main \in {"running", "stopping"} /\ kills < MaxKills
    /\ kills' = kills + 1
    /\ main' = "killed"
    /\ task' = [r \in Radios |-> "none"] /\ proc' = [r \in Radios |-> "none"]
    /\ orphan' = [r \in Radios |-> orphan[r] \/ proc[r] = "up"]
    /\ UNCHANGED <<plan, shutdown, child, crashes, fails, lost, spawned>>

Restart ==
    /\ main \in {"killed", "aborted"} /\ kills > 0
    /\ Fresh
    /\ UNCHANGED <<plan, orphan, budget>>

\* GET /api/v1/fleet and the fleet's beacon; served until the hypervisor exits.
Page(r) == [running |-> main \in {"running", "stopping"} /\ running[r],
            restarts |-> restarts[r], pid |-> pid[r]]

\* The radios with a beacon of their own; there are no beacons once the fleet stops.
Announced == {r \in Radios : main = "running" /\ running[r]}

TaskStep(r) ==
    \/ LoopEnds(r) \/ Spawn(r) \/ WaitReturns(r) \/ Exited(r) \/ DelayEnds(r)
    \/ StopChild(r) \/ Stopped(r) \/ GraceEnds(r)

Next ==
    \/ Load \/ Signal \/ Exit \/ Kill \/ Restart
    \/ \E r \in Radios : TaskStep(r) \/ SpawnFails(r) \/ WaitFails(r) \/ ServerStops(r)
                         \/ ServerExits(r) \/ ServerDies(r) \/ OrphanEnds(r)

\* The tasks run, delays end and SIGKILL works; a server need do nothing.
Fairness ==
    /\ WF_vars(Load) /\ WF_vars(Exit)
    /\ \A r \in Radios : WF_vars(TaskStep(r)) /\ WF_vars(ServerDies(r))

Spec == Init /\ [][Next]_vars /\ Fairness

-----------------------------------------------------------------------------
(* Properties *)

HasServer(r) == orphan[r] \/ proc[r] = "up"

\* An SDR has one server: no two radios share one, and no second server is started beside
\* an orphan, which holds the SDR, since the orphan holds its ports too.
OneServerPerRadio ==
    /\ \A r \in Radios : ~(orphan[r] /\ proc[r] = "up")
    /\ \A r1, r2 \in Radios : HasServer(r1) /\ HasServer(r2) /\ r1 # r2 =>
         plan.match[r1] \cap plan.match[r2] = {}

\* A hypervisor that has stopped leaves no server behind that was not killed.
NoServerLeft == main = "exited" => \A r \in Radios : proc[r] # "up"

\* --max-restarts bounds the servers a radio gets for as long as the hypervisor runs,
\* healthy minutes or not; --no-restart allows one.
RestartsBounded == \A r \in Radios : r \notin lost =>
    /\ plan.noRestart => spawned[r] <= 1
    /\ plan.maxRestarts # 0 => spawned[r] <= plan.maxRestarts + 1

\* The fleet page shows and the beacons announce a radio as running only while it has a
\* server, which may have exited a moment ago, unless waiting for it failed.
RunningIsLive == \A r \in Radios :
    Page(r).running \/ r \in Announced => r \in lost \/ proc[r] # "none"

\* A server that exits comes back, unless the flags say otherwise or the fleet stops.
ComesBack == \A r \in Radios :
    (main = "running" /\ proc[r] = "exited" /\ ~plan.noRestart /\ plan.maxRestarts = 0)
        ~> (proc[r] = "up" \/ main # "running")

\* A shutdown ends, also with servers that do not stop and with one just being started.
ShutdownEnds == main = "stopping" ~> main \in {"exited", "killed"}

=============================================================================
