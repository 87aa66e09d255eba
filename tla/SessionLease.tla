---------------------------- MODULE SessionLease ----------------------------
(***************************************************************************)
(* What the session API of the LANline server promises a client, without    *)
(* clocks, maps or reapers: a session is a lease.  It is granted while fewer *)
(* than the cap are live, it ends when its client says so or when time has   *)
(* run out on it, and an ended session is never live again.                  *)
(* SessionStore is shown to implement this.                                  *)
(***************************************************************************)
EXTENDS FiniteSets, Naturals

CONSTANTS Sessions,     \* session ids, each drawn at most once
          MaxSessions   \* Config.max_sessions

VARIABLE lease

Init == lease = [s \in Sessions |-> "unborn"]

LiveLeases == {s \in Sessions : lease[s] = "live"}

Grant(s) == /\ lease[s] = "unborn"
            /\ Cardinality(LiveLeases) < MaxSessions
            /\ lease' = [lease EXCEPT ![s] = "live"]

End(s) == /\ lease[s] = "live"
          /\ lease' = [lease EXCEPT ![s] = "dead"]

\* Time runs out on some live sessions at once.
Lapse == \E S \in SUBSET LiveLeases :
           lease' = [s \in Sessions |-> IF s \in S THEN "dead" ELSE lease[s]]

Next == Lapse \/ \E s \in Sessions : Grant(s) \/ End(s)

Spec == Init /\ [][Next]_lease
=============================================================================
