---------------------------- MODULE SessionStore ----------------------------
(***************************************************************************)
(* The in-memory session store (server/src/sessions.rs).  Every operation    *)
(* takes the map's lock once and is one action.                              *)
(*                                                                           *)
(* Time.  A session keeps `expires`; what the code compares is whether        *)
(* `expires > now`.  The model keeps what is left of it, `left[s]`, which a   *)
(* Tick lowers for all sessions alike, so `expires > now` is `left[s] > 0`.   *)
(* An id and its token are one thing: random_token() never repeats one.      *)
(***************************************************************************)
EXTENDS FiniteSets, Naturals

CONSTANTS Sessions,      \* ids that may be drawn, each at most once
          MaxSessions,   \* Config.max_sessions
          TTL            \* Config.session_ttl_s(), in ticks

ASSUME SessionsAssumption == IsFiniteSet(Sessions)
ASSUME MaxAssumption == MaxSessions \in Nat
ASSUME TTLAssumption == TTL \in Nat \ {0}

VARIABLES held,   \* held[s]: not yet created, in the map, removed from it
          left    \* left[s]: ticks until the session in the map expires

storeVars == <<held, left>>

StoreTypeOK == /\ held \in [Sessions -> {"unborn", "held", "gone"}]
               /\ left \in [Sessions -> 0..TTL]

InMap   == {s \in Sessions : held[s] = "held"}
Live(s) == held[s] = "held" /\ left[s] > 0
Expired == {s \in InMap : left[s] = 0}

\* The map without the sessions in S.
Without(S) == [s \in Sessions |-> IF s \in S THEN "gone" ELSE held[s]]

StoreInit == /\ held = [s \in Sessions |-> "unborn"]
             /\ left = [s \in Sessions |-> 0]

\* create(): `retain` first drops what has expired, telling nobody, ...
Create(s) ==
    /\ held[s] = "unborn"
    /\ Cardinality(InMap \ Expired) < MaxSessions
    /\ held' = [Without(Expired) EXCEPT ![s] = "held"]
    /\ left' = [left EXCEPT ![s] = TTL]

\* ... also when the call is then refused because the map is full.
CreateRefused ==
    /\ Cardinality(InMap \ Expired) >= MaxSessions
    /\ held' = Without(Expired)
    /\ UNCHANGED left

\* Mutant of Heartbeat: extends a session that is in the map but has expired.
Heartbeat_Revives(s) ==
    /\ left' = [left EXCEPT ![s] = IF held[s] = "held" THEN TTL ELSE @]
    /\ UNCHANGED held

\* heartbeat(): an error for a session that is unknown or has expired.
Heartbeat(s) ==
    /\ left' = [left EXCEPT ![s] = IF Live(s) THEN TTL ELSE @]
    /\ UNCHANGED held

\* delete(): whatever is left of it.
Delete(s) ==
    /\ held' = [held EXCEPT ![s] = IF @ = "held" THEN "gone" ELSE @]
    /\ UNCHANGED left

\* Mutant of Reap: the ids are collected and returned, but not removed.
Reap_Keeps == UNCHANGED storeVars

\* reap(): drops the expired sessions, and returns them to its caller.
Reap ==
    /\ held' = Without(Expired)
    /\ UNCHANGED left

\* The clock.
Tick ==
    /\ \E s \in InMap : left[s] > 0
    /\ left' = [s \in Sessions |-> IF left[s] > 0 THEN left[s] - 1 ELSE 0]
    /\ UNCHANGED held

StoreNext ==
    \/ CreateRefused \/ Reap \/ Tick
    \/ \E s \in Sessions : Create(s) \/ Heartbeat(s) \/ Delete(s)

StoreSpec == StoreInit /\ [][StoreNext]_storeVars

-----------------------------------------------------------------------------
\* The map never holds more sessions than the cap, the expired ones that no
\* reap has dropped yet included.
SessionCap == Cardinality(InMap) <= MaxSessions

\* A session is a live lease from its creation until it is removed or its time
\* has run out, whichever is first; being still in the map does not count.
LeaseOf == [s \in Sessions |-> IF held[s] = "unborn" THEN "unborn"
                               ELSE IF Live(s) THEN "live" ELSE "dead"]

Lease == INSTANCE SessionLease WITH lease <- LeaseOf

\* The store keeps the promise of SessionLease: the cap counts live sessions
\* only, and no operation revives a session whose time has run out.
ImplementsLease == Lease!Spec
=============================================================================
