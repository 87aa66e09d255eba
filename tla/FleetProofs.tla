---------------------------- MODULE FleetProofs -----------------------------
(***************************************************************************)
(* Proofs about the hypervisor, for any number of radios, any layout of ports,  *)
(* any flags and any number of servers that exit, spawns that fail and           *)
(* hypervisors that are killed.                                                  *)
(***************************************************************************)
EXTENDS Fleet, TLAPS

-----------------------------------------------------------------------------
(* Types *)

\* Every variable has its type at first.
LEMMA TypeInit == Init => TypeOK
<1> SUFFICES ASSUME Init PROVE TypeOK
  OBVIOUS
<1>1. plan \in PlanType
  BY PlansAssumption DEF Init
<1>2. crashes \in 0..MaxCrashes /\ fails \in 0..MaxFails /\ kills \in 0..MaxKills
  BY BoundsAssumption DEF Init
<1>3. None \in [Radios -> BOOLEAN] /\ Zero \in [Radios -> Nat]
  BY DEF None, Zero
<1>4. \A r \in Radios : attempt[r] <= restarts[r] /\ (running[r] => pid[r])
  BY DEF Init, None, Zero
<1>5. main \in MainStates /\ shutdown \in BOOLEAN /\ lost \subseteq Radios
  BY DEF Init, MainStates
<1>6. task \in [Radios -> TaskStates] /\ proc \in [Radios -> ProcStates]
  BY DEF Init, TaskStates, ProcStates
<1> QED
  BY <1>1, <1>2, <1>3, <1>4, <1>5, <1>6 DEF Init, TypeOK

\* And keeps it at every step.
LEMMA TypeNext == TypeOK /\ [Next]_vars => TypeOK'
<1> SUFFICES ASSUME TypeOK, [Next]_vars PROVE TypeOK'
  OBVIOUS
<1> USE DEF TypeOK, TaskStates, ProcStates, MainStates, Goto, child, budget
<1>1. CASE Load
  BY <1>1 DEF Load
<1>2. CASE Signal
  BY <1>2 DEF Signal
<1>3. CASE Exit
  BY <1>3 DEF Exit
<1>4. CASE Kill
  BY <1>4, BoundsAssumption DEF Kill
<1>5. CASE Restart
  <2>1. None \in [Radios -> BOOLEAN] /\ Zero \in [Radios -> Nat]
    BY DEF None, Zero
  <2>2. \A r \in Radios : attempt'[r] <= restarts'[r] /\ (running'[r] => pid'[r])
    BY <1>5 DEF Restart, Fresh, None, Zero
  <2>3. /\ task' \in [Radios -> TaskStates] /\ proc' \in [Radios -> ProcStates]
        /\ main' \in MainStates /\ shutdown' \in BOOLEAN /\ lost' \subseteq Radios
    BY <1>5 DEF Restart, Fresh
  <2> QED
    BY <1>5, <2>1, <2>2, <2>3 DEF Restart, Fresh
<1>6. ASSUME NEW r \in Radios, LoopEnds(r) \/ DelayEnds(r) \/ StopChild(r) PROVE TypeOK'
  BY <1>6 DEF LoopEnds, DelayEnds, StopChild
<1>7. ASSUME NEW r \in Radios, Spawn(r) PROVE TypeOK'
  BY <1>7 DEF Spawn
<1>8. ASSUME NEW r \in Radios, WaitReturns(r) \/ Stopped(r) PROVE TypeOK'
  BY <1>8 DEF WaitReturns, Stopped, Down
<1>9. ASSUME NEW r \in Radios, SpawnFails(r) PROVE TypeOK'
  BY <1>9, BoundsAssumption DEF SpawnFails
<1>10. ASSUME NEW r \in Radios, WaitFails(r) PROVE TypeOK'
  BY <1>10, BoundsAssumption DEF WaitFails
<1>11. ASSUME NEW r \in Radios, Exited(r) PROVE TypeOK'
  <2>1. task' \in [Radios -> TaskStates]
    BY <1>11 DEF Exited
  <2>2. restarts' \in [Radios -> Nat] /\ attempt' \in [Radios -> Nat]
    BY <1>11 DEF Exited
  <2>3. \A o \in Radios : attempt'[o] <= restarts'[o]
    BY <1>11 DEF Exited
  <2> QED
    BY <1>11, <2>1, <2>2, <2>3 DEF Exited
<1>12. ASSUME NEW r \in Radios, GraceEnds(r) PROVE TypeOK'
  BY <1>12 DEF GraceEnds
<1>13. ASSUME NEW r \in Radios, ServerStops(r) \/ ServerDies(r) \/ OrphanEnds(r) PROVE TypeOK'
  <2>1. CASE ServerStops(r) \/ ServerDies(r)
    BY <2>1 DEF ServerStops, ServerDies
  <2>2. CASE OrphanEnds(r)
    BY <2>2 DEF OrphanEnds
  <2> QED
    BY <1>13, <2>1, <2>2
<1>14. ASSUME NEW r \in Radios, ServerExits(r) PROVE TypeOK'
  BY <1>14, BoundsAssumption DEF ServerExits
<1>15. CASE UNCHANGED vars
  BY <1>15 DEF vars
<1> QED
  BY <1>1, <1>2, <1>3, <1>4, <1>5, <1>6, <1>7, <1>8, <1>9, <1>10, <1>11, <1>12, <1>13, <1>14,
     <1>15 DEF Next, TaskStep

\* Every variable keeps its type in every behaviour.
THEOREM FleetType == Spec => []TypeOK
  BY TypeInit, TypeNext, PTL DEF Spec

-----------------------------------------------------------------------------
(* The server of a radio and its supervisor *)

\* What the supervisor is at says what has become of its server.
TaskInv(r) ==
    /\ proc[r] = "up" => task[r] \in {"waiting", "stopping"}
    /\ task[r] \in {"waiting", "stopping"} => proc[r] \in {"up", "exited"}
    /\ task[r] = "killing" => proc[r] \in {"doomed", "exited"}
    /\ main = "exited" => task[r] = "done"
    /\ main \in {"load", "aborted", "killed"} => task[r] = "none"
    /\ main \in {"running", "stopping"} /\ running[r] /\ r \notin lost =>
         task[r] \in {"waiting", "stopping", "killing"}

\* What it is at says how many servers it has started.
CountInv(r) ==
    /\ main = "load" => spawned[r] = 0 /\ restarts[r] = 0 /\ running[r] = FALSE
    /\ r \notin lost =>
         /\ task[r] \in {"loop", "backoff", "retry"} =>
              /\ spawned[r] = restarts[r]
              /\ plan.noRestart => restarts[r] = 0
              /\ plan.maxRestarts # 0 => restarts[r] <= plan.maxRestarts
         /\ task[r] \in {"waiting", "exited", "stopping", "killing"} =>
              /\ spawned[r] = restarts[r] + 1
              /\ plan.noRestart => restarts[r] = 0
              /\ plan.maxRestarts # 0 => restarts[r] <= plan.maxRestarts
         /\ plan.noRestart => spawned[r] <= 1
         /\ plan.maxRestarts # 0 => spawned[r] <= plan.maxRestarts + 1

SupervisorInv == \A r \in Radios : TaskInv(r) /\ CountInv(r)

\* Every step of any radio, its own or another's, keeps the invariant of each supervisor.
LEMMA SupervisorNext == TypeOK /\ SupervisorInv /\ [Next]_vars => SupervisorInv'
<1> SUFFICES ASSUME TypeOK, SupervisorInv, [Next]_vars, NEW o \in Radios
             PROVE  TaskInv(o)' /\ CountInv(o)'
  BY DEF SupervisorInv
<1>0. /\ TaskInv(o) /\ CountInv(o) /\ restarts[o] \in Nat /\ spawned[o] \in Nat
      /\ plan.maxRestarts \in Nat /\ plan.noRestart \in BOOLEAN
  BY DEF SupervisorInv, TypeOK, PlanType
<1> USE <1>0 DEF TaskInv, CountInv, Goto, child, budget
<1>1. CASE Load \/ Signal
  BY <1>1 DEF Load, Signal, TypeOK
<1>2. CASE Exit
  BY <1>2 DEF Exit
<1>3. CASE Kill
  BY <1>3 DEF Kill
<1>4. CASE Restart
  BY <1>4 DEF Restart, Fresh, None, Zero
<1>5. ASSUME NEW r \in Radios, TaskStep(r) PROVE TaskInv(o)' /\ CountInv(o)'
  <2>1. CASE o # r
    BY <1>5, <2>1 DEF TaskStep, LoopEnds, Spawn, WaitReturns, Exited, DelayEnds, StopChild,
         Stopped, GraceEnds, Down, TypeOK
  <2>2. CASE o = r /\ (LoopEnds(r) \/ DelayEnds(r) \/ StopChild(r))
    BY <2>2 DEF LoopEnds, DelayEnds, StopChild, TypeOK
  <2>3. CASE o = r /\ Spawn(r)
    BY <2>3 DEF Spawn, TypeOK
  <2>4. CASE o = r /\ (WaitReturns(r) \/ Stopped(r))
    BY <2>4 DEF WaitReturns, Stopped, Down, TypeOK
  <2>5. CASE o = r /\ Exited(r)
    BY <2>5 DEF Exited, GaveUp, TypeOK
  <2>6. CASE o = r /\ GraceEnds(r)
    BY <2>6 DEF GraceEnds, TypeOK
  <2> QED
    BY <1>5, <2>1, <2>2, <2>3, <2>4, <2>5, <2>6 DEF TaskStep
<1>6. ASSUME NEW r \in Radios, SpawnFails(r) \/ WaitFails(r) PROVE TaskInv(o)' /\ CountInv(o)'
  BY <1>6 DEF SpawnFails, WaitFails, TypeOK, ProcStates
<1>7. ASSUME NEW r \in Radios, ServerStops(r) \/ ServerExits(r) \/ ServerDies(r) \/ OrphanEnds(r)
      PROVE  TaskInv(o)' /\ CountInv(o)'
  BY <1>7 DEF ServerStops, ServerExits, ServerDies, OrphanEnds, TypeOK
<1>8. CASE UNCHANGED vars
  BY <1>8 DEF vars
<1> QED
  BY <1>1, <1>2, <1>3, <1>4, <1>5, <1>6, <1>7, <1>8 DEF Next

\* The invariant of a supervisor and its server holds in every behaviour.
LEMMA SupervisorInvariant == Spec => []SupervisorInv
<1>1. Init => SupervisorInv
  BY PlansAssumption DEF Init, SupervisorInv, TaskInv, CountInv, None, Zero, PlanType
<1> QED
  BY <1>1, SupervisorNext, FleetType, PTL DEF Spec

\* Whatever a shutdown meets, a server about to be started, one that does not stop or one
\* that could not be waited for, none is left that was not killed (run_once, main).
THEOREM NothingLeft == Spec => []NoServerLeft
<1>1. SupervisorInv => NoServerLeft
  BY DEF SupervisorInv, TaskInv, NoServerLeft
<1> QED
  BY <1>1, SupervisorInvariant, PTL

\* A radio gets no more servers than its flags say, for as long as the hypervisor lives.
THEOREM Restarts == Spec => []RestartsBounded
<1>1. SupervisorInv => RestartsBounded
  BY DEF SupervisorInv, CountInv, RestartsBounded
<1> QED
  BY <1>1, SupervisorInvariant, PTL

\* A radio that is shown as running has a server.
THEOREM ShownIsLive == Spec => []RunningIsLive
<1>1. SupervisorInv => RunningIsLive
  BY DEF SupervisorInv, TaskInv, RunningIsLive, Page, Announced
<1> QED
  BY <1>1, SupervisorInvariant, PTL

-----------------------------------------------------------------------------
(* Orphans *)

\* Past its preflight a hypervisor has no orphans, and before it no servers.
OrphanInv ==
    /\ plan \in Plans
    /\ main \in {"running", "stopping", "exited"} => \A r \in Radios : ~orphan[r]
    /\ main \in {"load", "aborted", "killed"} => \A r \in Radios : proc[r] = "none"

\* Only a preflight that found the orphans' ports free lets a hypervisor start servers.
LEMMA OrphanNext == TypeOK /\ SupervisorInv /\ OrphanInv /\ [Next]_vars => OrphanInv'
<1> SUFFICES ASSUME TypeOK, SupervisorInv, OrphanInv, [Next]_vars PROVE OrphanInv'
  OBVIOUS
<1> USE DEF OrphanInv, child, budget
<1>1. CASE Load
  <2>1. ASSUME NEW r \in Radios PROVE TcpPorts(r) # {}
    <3>1. PICK kind \in Feeds : /\ kind = "c2" \/ plan.base[kind] # 0
                                /\ (plan.base[kind] + r) % MaxPort # 0
      BY PlansAssumption
    <3>2. Port(r, kind) # 0
      BY <3>1 DEF Port
    <3> QED
      BY <3>2 DEF TcpPorts
  <2>2. Preflight => \A r \in Radios : ~orphan[r]
    BY <2>1 DEF Preflight
  <2> QED
    BY <1>1, <2>2 DEF Load
<1>2. CASE Kill
  BY <1>2 DEF Kill
<1>3. CASE Restart
  BY <1>3 DEF Restart, Fresh
<1>4. CASE Signal \/ Exit \/ UNCHANGED vars
  BY <1>4 DEF Signal, Exit, vars
<1>5. ASSUME NEW r \in Radios, TaskStep(r) \/ SpawnFails(r) \/ WaitFails(r) PROVE OrphanInv'
  <2>1. task[r] # "none" /\ UNCHANGED <<plan, main, orphan>>
    BY <1>5 DEF TaskStep, LoopEnds, Spawn, WaitReturns, Exited, DelayEnds, StopChild, Stopped,
         GraceEnds, SpawnFails, WaitFails
  <2>2. main \notin {"load", "aborted", "killed"}
    BY <2>1 DEF SupervisorInv, TaskInv
  <2> QED
    BY <2>1, <2>2
<1>6. ASSUME NEW r \in Radios, ServerStops(r) \/ ServerExits(r) \/ ServerDies(r) PROVE OrphanInv'
  BY <1>6 DEF ServerStops, ServerExits, ServerDies, TypeOK
<1>7. ASSUME NEW r \in Radios, OrphanEnds(r) PROVE OrphanInv'
  BY <1>7 DEF OrphanEnds, TypeOK
<1> QED
  BY <1>1, <1>2, <1>3, <1>4, <1>5, <1>6, <1>7 DEF Next

\* Servers are started only for radios that each have an SDR of their own.
ResolveInv == \A r \in Radios : task[r] # "none" \/ proc[r] # "none" \/ orphan[r] => Resolved

\* Tasks begin in Load, servers in tasks, orphans as servers.
LEMMA ResolveNext == TypeOK /\ SupervisorInv /\ ResolveInv /\ [Next]_vars => ResolveInv'
<1> SUFFICES ASSUME TypeOK, SupervisorInv, ResolveInv, [Next]_vars PROVE ResolveInv'
  OBVIOUS
<1>0. plan' = plan
  BY DEF Next, TaskStep, Load, Signal, Exit, Kill, Restart, LoopEnds, Spawn, WaitReturns, Exited,
     DelayEnds, StopChild, Stopped, GraceEnds, SpawnFails, WaitFails, ServerStops, ServerExits,
     ServerDies, OrphanEnds, vars
<1> SUFFICES ASSUME NEW o \in Radios, (task[o] # "none" \/ proc[o] # "none" \/ orphan[o])'
             PROVE  Resolved
  BY <1>0 DEF ResolveInv, Resolved
<1> USE DEF ResolveInv, child, budget
<1>1. CASE Load
  BY <1>1 DEF Load
<1>2. CASE Exit
  <2>1. task[o] = "done" \/ task[o] = "killing"
    BY <1>2 DEF Exit
  <2> QED
    BY <2>1
<1>3. CASE Kill
  BY <1>3 DEF Kill
<1>4. CASE Restart
  BY <1>4 DEF Restart, Fresh
<1>5. CASE Signal \/ UNCHANGED vars
  BY <1>5 DEF Signal, vars
<1>6. ASSUME NEW r \in Radios, TaskStep(r) \/ SpawnFails(r) \/ WaitFails(r) PROVE Resolved
  <2>1. task[r] # "none"
    BY <1>6 DEF TaskStep, LoopEnds, Spawn, WaitReturns, Exited, DelayEnds, StopChild, Stopped,
       GraceEnds, SpawnFails, WaitFails
  <2> QED
    BY <2>1
<1>7. ASSUME NEW r \in Radios, ServerStops(r) \/ ServerExits(r) \/ ServerDies(r) \/ OrphanEnds(r)
      PROVE  Resolved
  <2>1. proc[r] # "none" \/ orphan[r]
    BY <1>7 DEF ServerStops, ServerExits, ServerDies, OrphanEnds
  <2> QED
    BY <2>1
<1> QED
  BY <1>1, <1>2, <1>3, <1>4, <1>5, <1>6, <1>7 DEF Next

\* No second server is started beside the orphan of a killed hypervisor (preflight), and no
\* two servers are given one SDR (resolve).
THEOREM OneServer == Spec => []OneServerPerRadio
<1>1. Init => OrphanInv /\ ResolveInv
  BY DEF Init, OrphanInv, ResolveInv, None
<1>2. TypeOK /\ OrphanInv /\ ResolveInv => OneServerPerRadio
  <2> SUFFICES ASSUME TypeOK, OrphanInv, ResolveInv PROVE OneServerPerRadio
    OBVIOUS
  <2>1. \A r \in Radios : ~(orphan[r] /\ proc[r] = "up")
    BY DEF TypeOK, MainStates, OrphanInv
  <2>2. ASSUME NEW r1 \in Radios, NEW r2 \in Radios, HasServer(r1), HasServer(r2), r1 # r2
        PROVE  plan.match[r1] \cap plan.match[r2] = {}
    <3>1. Resolved
      BY <2>2 DEF ResolveInv, HasServer
    <3>2. PICK u1, u2 \in Units : plan.match[r1] = {u1} /\ plan.match[r2] = {u2}
      BY <3>1 DEF Resolved
    <3> QED
      BY <2>2, <3>1, <3>2 DEF Resolved
  <2> QED
    BY <2>1, <2>2 DEF OneServerPerRadio
<1> QED
  BY <1>1, <1>2, OrphanNext, ResolveNext, SupervisorInvariant, FleetType, PTL DEF Spec
=============================================================================
