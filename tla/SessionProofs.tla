---------------------------- MODULE SessionProofs ---------------------------
(***************************************************************************)
(* Proofs about the session store and about the WebRTC peers over it, for    *)
(* any finite set of session ids, any cap and any time to live.              *)
(***************************************************************************)
EXTENDS MediaSessions, FiniteSetTheorems, TLAPS

-----------------------------------------------------------------------------
(* The store *)

\* Every store operation keeps the types of the map and of the timers.
LEMMA StoreTypeNext == StoreTypeOK /\ [StoreNext]_storeVars => StoreTypeOK'
<1> SUFFICES ASSUME StoreTypeOK, [StoreNext]_storeVars PROVE StoreTypeOK'
  OBVIOUS
<1> USE TTLAssumption DEF StoreTypeOK, Without
<1>1. ASSUME NEW s \in Sessions, Create(s) PROVE StoreTypeOK'
  BY <1>1 DEF Create
<1>2. CASE CreateRefused
  BY <1>2 DEF CreateRefused
<1>3. ASSUME NEW s \in Sessions, Heartbeat(s) PROVE StoreTypeOK'
  BY <1>3 DEF Heartbeat
<1>4. ASSUME NEW s \in Sessions, Delete(s) PROVE StoreTypeOK'
  BY <1>4 DEF Delete
<1>5. CASE Reap
  BY <1>5 DEF Reap
<1>6. CASE Tick
  BY <1>6 DEF Tick
<1>7. CASE UNCHANGED storeVars
  BY <1>7 DEF storeVars
<1> QED
  BY <1>1, <1>2, <1>3, <1>4, <1>5, <1>6, <1>7 DEF StoreNext

\* The store's variables keep their types in every behaviour.
THEOREM StoreType == StoreSpec => []StoreTypeOK
<1>1. StoreInit => StoreTypeOK
  BY TTLAssumption DEF StoreInit, StoreTypeOK
<1> QED
  BY <1>1, StoreTypeNext, PTL DEF StoreSpec

\* A step that adds no session to the map cannot break the cap.
LEMMA FewerInMap ==
  ASSUME SessionCap, InMap' \subseteq InMap
  PROVE  SessionCap'
<1>1. IsFiniteSet(InMap)
  BY SessionsAssumption, FS_Subset DEF InMap
<1>2. IsFiniteSet(InMap') /\ Cardinality(InMap') <= Cardinality(InMap)
  BY <1>1, FS_Subset
<1>3. Cardinality(InMap') \in Nat /\ Cardinality(InMap) \in Nat
  BY <1>1, <1>2, FS_CardinalityType
<1> QED
  BY <1>2, <1>3, MaxAssumption DEF SessionCap

\* create() counts what `retain` has left, and adds one to it.
LEMMA CreateKeepsCap ==
  ASSUME StoreTypeOK, NEW s \in Sessions, Create(s)
  PROVE  SessionCap'
<1> DEFINE Kept == InMap \ Expired
<1>1. IsFiniteSet(Kept)
  BY SessionsAssumption, FS_Subset DEF InMap
<1>2. Cardinality(Kept) \in Nat /\ Cardinality(Kept) < MaxSessions
  BY <1>1, FS_CardinalityType DEF Create
<1>3. InMap' = Kept \cup {s} /\ s \notin Kept
  BY DEF Create, Without, InMap, Expired, StoreTypeOK
<1>4. Cardinality(Kept \cup {s}) = Cardinality(Kept) + 1
  BY <1>1, <1>3, FS_AddElement
<1> QED
  BY <1>2, <1>3, <1>4, MaxAssumption DEF SessionCap

\* The map never holds more sessions than the cap, for any number of ids.
THEOREM StoreCap == StoreSpec => []SessionCap
<1>1. StoreInit => SessionCap
  <2> SUFFICES ASSUME StoreInit PROVE SessionCap
    OBVIOUS
  <2>1. InMap = {}
    BY DEF StoreInit, InMap
  <2> QED
    BY <2>1, FS_EmptySet, MaxAssumption DEF SessionCap
<1>2. StoreTypeOK /\ SessionCap /\ [StoreNext]_storeVars => SessionCap'
  <2> SUFFICES ASSUME StoreTypeOK, SessionCap, [StoreNext]_storeVars PROVE SessionCap'
    OBVIOUS
  <2>1. ASSUME NEW s \in Sessions, Create(s) PROVE SessionCap'
    BY <2>1, CreateKeepsCap
  <2>2. ASSUME NEW s \in Sessions, Heartbeat(s) PROVE InMap' \subseteq InMap
    BY <2>2 DEF Heartbeat, InMap
  <2>3. ASSUME NEW s \in Sessions, Delete(s) PROVE InMap' \subseteq InMap
    BY <2>3 DEF Delete, InMap, StoreTypeOK
  <2>4. CreateRefused \/ Reap => InMap' \subseteq InMap
    BY DEF CreateRefused, Reap, Without, InMap
  <2>5. Tick \/ UNCHANGED storeVars => InMap' \subseteq InMap
    BY DEF Tick, storeVars, InMap
  <2> QED
    BY <2>1, <2>2, <2>3, <2>4, <2>5, FewerInMap DEF StoreNext
<1> QED
  BY <1>1, <1>2, StoreType, PTL DEF StoreSpec

-----------------------------------------------------------------------------
(* The store implements the lease *)

\* Dropping expired sessions from the map changes no lease: they had ended.
LEMMA DropExpiredStutters ==
  ASSUME StoreTypeOK, held' = Without(Expired), left' = left
  PROVE  LeaseOf' = LeaseOf
  BY DEF StoreTypeOK, Without, Expired, InMap, LeaseOf, Live

\* create() grants a lease, to a session that had none, below the cap.
LEMMA CreateGrants ==
  ASSUME StoreTypeOK, NEW s \in Sessions, Create(s)
  PROVE  Lease!Grant(s)
<1>1. LeaseOf[s] = "unborn"
  BY DEF Create, LeaseOf
<1>2. Lease!LiveLeases = InMap \ Expired
  BY DEF Lease!LiveLeases, LeaseOf, Live, InMap, Expired, StoreTypeOK
<1>3. LeaseOf' = [LeaseOf EXCEPT ![s] = "live"]
  <2>1. LeaseOf'[s] = "live"
    BY TTLAssumption DEF Create, LeaseOf, Live, Without, StoreTypeOK
  <2>2. ASSUME NEW t \in Sessions, t # s PROVE LeaseOf'[t] = LeaseOf[t]
    <3>1. left'[t] = left[t]
      BY <2>2 DEF Create, StoreTypeOK
    <3>2. held'[t] = IF t \in Expired THEN "gone" ELSE held[t]
      BY <2>2 DEF Create, Without
    <3> QED
      BY <3>1, <3>2 DEF LeaseOf, Live, Expired, InMap, StoreTypeOK
  <2> QED
    BY <2>1, <2>2 DEF LeaseOf
<1>4. Lease!Cardinality(Lease!LiveLeases) < MaxSessions
  <2>1. Lease!Cardinality(InMap \ Expired) = Cardinality(InMap \ Expired)
    BY DEF Lease!Cardinality, Cardinality
  <2> QED
    BY <1>2, <2>1 DEF Create
<1> QED
  BY <1>1, <1>3, <1>4 DEF Lease!Grant

\* A tick ends the leases that had one tick left, all at once.
LEMMA TickLapses ==
  ASSUME StoreTypeOK, Tick
  PROVE  Lease!Lapse
<1> DEFINE S == {s \in InMap : left[s] = 1}
<1>1. S \in SUBSET Lease!LiveLeases
  BY DEF Lease!LiveLeases, LeaseOf, Live, InMap
<1>2. LeaseOf' = [s \in Sessions |-> IF s \in S THEN "dead" ELSE LeaseOf[s]]
  BY TTLAssumption DEF Tick, LeaseOf, Live, InMap, StoreTypeOK
<1> QED
  BY <1>1, <1>2 DEF Lease!Lapse

\* The session store does what SessionLease promises: it grants at most the
\* cap of live sessions, and revives none whose time has run out.
THEOREM StoreImplementsLease == StoreSpec => ImplementsLease
<1>1. StoreInit => Lease!Init
  BY DEF StoreInit, Lease!Init, LeaseOf
<1>2. StoreTypeOK /\ [StoreNext]_storeVars => [Lease!Next]_LeaseOf
  <2> SUFFICES ASSUME StoreTypeOK, [StoreNext]_storeVars
               PROVE  Lease!Next \/ LeaseOf' = LeaseOf
    OBVIOUS
  <2>1. ASSUME NEW s \in Sessions, Create(s) PROVE Lease!Next
    BY <2>1, CreateGrants DEF Lease!Next
  <2>2. ASSUME NEW s \in Sessions, Heartbeat(s) PROVE LeaseOf' = LeaseOf
    BY <2>2, TTLAssumption DEF Heartbeat, LeaseOf, Live, StoreTypeOK
  <2>3. ASSUME NEW s \in Sessions, Delete(s) PROVE Lease!Next \/ LeaseOf' = LeaseOf
    <3>1. CASE Live(s)
      <4>1. LeaseOf[s] = "live"
        BY <3>1 DEF LeaseOf, Live
      <4>2. held' = [held EXCEPT ![s] = "gone"] /\ left' = left
        BY <2>3, <3>1 DEF Delete, Live, StoreTypeOK
      <4>3. LeaseOf' = [LeaseOf EXCEPT ![s] = "dead"]
        BY <4>2 DEF LeaseOf, Live, StoreTypeOK
      <4> QED
        BY <4>1, <4>3 DEF Lease!Next, Lease!End
    <3>2. CASE ~Live(s)
      BY <2>3, <3>2 DEF Delete, LeaseOf, Live, StoreTypeOK
    <3> QED
      BY <3>1, <3>2
  <2>4. CreateRefused \/ Reap => LeaseOf' = LeaseOf
    BY DropExpiredStutters DEF CreateRefused, Reap
  <2>5. Tick => Lease!Next
    BY TickLapses DEF Lease!Next
  <2>6. UNCHANGED storeVars => LeaseOf' = LeaseOf
    BY DEF storeVars, LeaseOf, Live
  <2> QED
    BY <2>1, <2>2, <2>3, <2>4, <2>5, <2>6 DEF StoreNext
<1> QED
  BY <1>1, <1>2, StoreType, PTL DEF StoreSpec, ImplementsLease, Lease!Spec

-----------------------------------------------------------------------------
(* The peers *)

\* A request past its authentication has a session, and holds a connection
\* exactly while it negotiates one or closes one; nobody has registered the
\* one it negotiates.
RequestInv(r) ==
    /\ req[r].at # "idle" => req[r].sess \in Sessions
    /\ req[r].conn # NoConn <=> req[r].at \in {"negotiate", "closing", "closing_old"}
    /\ req[r].at = "negotiate" =>
         /\ conn[req[r].conn].state = "open"
         /\ conn[req[r].conn].owner = req[r].sess
         /\ \A s \in Sessions : peers[s] # req[r].conn
    /\ req[r].at \in {"closing", "closing_old"} => conn[req[r].conn].state = "closing"

ReaperInv == reaper.conn # NoConn => conn[reaper.conn].state = "closing"

\* A registered, a negotiated and a closing connection are never the same.
Peers == RegisteredPeerOpen /\ NoDoubleClose /\ ReaperInv /\ \A r \in Requests : RequestInv(r)

MediaInv == TypeOK /\ Peers

\* Field updates keep the types of connections.
LEMMA ConnTypes ==
  ASSUME TypeOK, NEW p \in Conns
  PROVE  /\ conn[p] \in ConnRecords /\ Unused \in ConnRecords
         /\ Dropped(p) \in ConnRecords
         /\ \A b \in BOOLEAN : [conn[p] EXCEPT !.pump = b] \in ConnRecords
         /\ [conn EXCEPT ![p].pump = FALSE, ![p].state = "closing"]
              \in [Conns -> ConnRecords]
<1>1. conn \in [Conns -> ConnRecords] /\ conn[p] \in ConnRecords
  BY DEF TypeOK
<1>2. Unused \in ConnRecords
  BY DEF ConnRecords, Unused
<1>3. Dropped(p) \in ConnRecords
  BY <1>1 DEF ConnRecords, Unused, Dropped
<1>4. \A b \in BOOLEAN : [conn[p] EXCEPT !.pump = b] \in ConnRecords
  BY <1>1 DEF ConnRecords
<1>5. [conn EXCEPT ![p].pump = FALSE, ![p].state = "closing"] \in [Conns -> ConnRecords]
  BY <1>1 DEF ConnRecords
<1> QED
  BY <1>1, <1>2, <1>3, <1>4, <1>5

\* A request has a session or none, a connection or none, and may go idle.
LEMMA ReqTypes ==
  ASSUME TypeOK, NEW r \in Requests
  PROVE  /\ req[r].sess \in Sessions \cup {NoSession}
         /\ req[r].conn \in Conns \cup {NoConn}
         /\ [req EXCEPT ![r] = Idle] \in [Requests -> ReqRecords]
<1>1. Idle \in ReqRecords
  BY DEF Idle, ReqRecords, Points
<1>2. req[r] \in ReqRecords
  BY DEF TypeOK
<1> QED
  BY <1>1, <1>2 DEF TypeOK, ReqRecords

\* Moving a request to a point, with or without a connection, keeps its type.
LEMMA ReqUpdate ==
  ASSUME TypeOK, NEW r \in Requests, NEW a \in Points, NEW p \in Conns \cup {NoConn}
  PROVE  /\ [req EXCEPT ![r].at = a] \in [Requests -> ReqRecords]
         /\ [req EXCEPT ![r].at = a, ![r].conn = p] \in [Requests -> ReqRecords]
<1>1. /\ [req[r] EXCEPT !.at = a] \in ReqRecords
      /\ [req[r] EXCEPT !.at = a, !.conn = p] \in ReqRecords
  BY DEF TypeOK, ReqRecords
<1>2. /\ [req EXCEPT ![r].at = a] = [req EXCEPT ![r] = [req[r] EXCEPT !.at = a]]
      /\ [req EXCEPT ![r].at = a, ![r].conn = p]
            = [req EXCEPT ![r] = [req[r] EXCEPT !.at = a, !.conn = p]]
  BY DEF TypeOK
<1> QED
  BY <1>1, <1>2 DEF TypeOK

\* Every step keeps the types.
LEMMA MediaTypeNext == MediaInv /\ [Next]_vars => TypeOK'
<1> SUFFICES ASSUME MediaInv, [Next]_vars PROVE TypeOK'
  OBVIOUS
<1> USE NullAssumption DEF MediaInv, Peers, TypeOK, At, mediaVars, storeVars, Finish, Step, Doing
<1>0. [StoreNext]_storeVars => StoreTypeOK'
  BY StoreTypeNext
<1>1. ASSUME NEW r \in Requests, Authenticate(r) PROVE TypeOK'
  <2>1. PICK s \in Sessions, op \in Handlers :
          /\ req' = [req EXCEPT ![r] = [Idle EXCEPT !.at = "run", !.op = op, !.sess = s]]
          /\ overlap' = IF op = "offer" /\ Offering(s) # {}
                          THEN overlap \cup {s} ELSE overlap
    BY <1>1 DEF Authenticate
  <2>2. [Idle EXCEPT !.at = "run", !.op = op, !.sess = s] \in ReqRecords
    BY DEF Idle, ReqRecords, Points
  <2> QED
    BY <1>0, <1>1, <2>1, <2>2 DEF Authenticate
<1>2. CASE CreateSession
  BY <1>0, <1>2 DEF CreateSession, StoreNext
<1>3. ASSUME NEW r \in Requests, HeartbeatSession(r) \/ DeleteSession(r) PROVE TypeOK'
  <2>1. req[r].sess \in Sessions
    BY <1>3 DEF HeartbeatSession, DeleteSession, RequestInv
  <2>2. StoreTypeOK'
    BY <1>0, <1>3, <2>1 DEF HeartbeatSession, DeleteSession, StoreNext
  <2>3. req' \in [Requests -> ReqRecords]
    BY <1>3, ReqTypes DEF HeartbeatSession, DeleteSession
  <2> QED
    BY <1>3, <2>2, <2>3 DEF HeartbeatSession, DeleteSession
<1>5. ASSUME NEW r \in Requests, CloseAudio(r) PROVE TypeOK'
  <2>1. req[r].sess \in Sessions /\ peers[req[r].sess] \in Conns \cup {NoConn}
    BY <1>5 DEF CloseAudio, RequestInv
  <2>2. CASE peers[req[r].sess] # NoConn
    <3>1. /\ conn' \in [Conns -> ConnRecords]
          /\ peers' \in [Sessions -> Conns \cup {NoConn}]
      <4>1. Unregister(req[r].sess)
        BY <1>5, <2>2 DEF CloseAudio
      <4>2. peers[req[r].sess] \in Conns /\ peers \in [Sessions -> Conns \cup {NoConn}]
        BY <2>1, <2>2 DEF TypeOK
      <4>3. conn' \in [Conns -> ConnRecords]
        BY <4>1, <4>2, ConnTypes DEF Unregister
      <4> QED
        BY <4>1, <4>2, <4>3 DEF Unregister
    <3>2. PICK a \in Points :
            req' = [req EXCEPT ![r].at = a, ![r].conn = peers[req[r].sess]]
      BY <1>5, <2>2 DEF CloseAudio, Points
    <3>3. req' \in [Requests -> ReqRecords]
      BY <2>1, <3>2, ReqUpdate
    <3> QED
      BY <1>0, <1>5, <3>1, <3>3 DEF CloseAudio
  <2>3. CASE peers[req[r].sess] = NoConn
    <3>1. req' \in [Requests -> ReqRecords]
      <4>1. req' = [req EXCEPT ![r].at = "build"] \/ req' = [req EXCEPT ![r] = Idle]
        BY <1>5, <2>3 DEF CloseAudio
      <4>2. "build" \in Points
        BY DEF Points
      <4>3. /\ [req EXCEPT ![r].at = "build"] \in [Requests -> ReqRecords]
            /\ [req EXCEPT ![r] = Idle] \in [Requests -> ReqRecords]
        BY <4>2, ReqTypes, ReqUpdate
      <4> QED
        BY <4>1, <4>3
    <3> QED
      BY <1>0, <1>5, <2>3, <3>1 DEF CloseAudio
  <2> QED
    BY <2>2, <2>3
<1>6. ASSUME NEW r \in Requests, CloseDone(r) \/ OfferFails(r) \/ Abandon(r) PROVE TypeOK'
  <2>0. At(r, "negotiate") \/ At(r, "closing") \/ At(r, "closing_old")
          => req[r].conn \in Conns
    BY ReqTypes DEF RequestInv
  <2>1. conn' \in [Conns -> ConnRecords]
    <3>1. \/ conn' = conn
          \/ req[r].conn \in Conns /\ conn' = [conn EXCEPT ![req[r].conn] = Dropped(req[r].conn)]
      BY <1>6, <2>0 DEF CloseDone, OfferFails, Abandon, Closed
    <3>2. req[r].conn \in Conns => Dropped(req[r].conn) \in ConnRecords
      BY ConnTypes
    <3> QED
      BY <3>1, <3>2
  <2>2. req' \in [Requests -> ReqRecords]
    <3>1. \/ req' = [req EXCEPT ![r] = Idle]
          \/ req' = [req EXCEPT ![r].at = "build", ![r].conn = NoConn]
      BY <1>6 DEF CloseDone, OfferFails, Abandon
    <3>2. "build" \in Points
      BY DEF Points
    <3>3. /\ [req EXCEPT ![r].at = "build", ![r].conn = NoConn] \in [Requests -> ReqRecords]
          /\ [req EXCEPT ![r] = Idle] \in [Requests -> ReqRecords]
      BY <3>2, ReqTypes, ReqUpdate
    <3> QED
      BY <3>1, <3>3
  <2> QED
    BY <1>0, <1>6, <2>1, <2>2 DEF CloseDone, OfferFails, Abandon
<1>7. ASSUME NEW r \in Requests, OfferBuild(r) PROVE TypeOK'
  <2>1. PICK p \in Conns :
          /\ conn' = [conn EXCEPT ![p] = [state |-> "open", owner |-> req[r].sess,
                                          pump |-> FALSE]]
          /\ req' = [req EXCEPT ![r].at = "negotiate", ![r].conn = p]
    BY <1>7 DEF OfferBuild
  <2>2. [state |-> "open", owner |-> req[r].sess, pump |-> FALSE] \in ConnRecords
    BY ReqTypes DEF ConnRecords
  <2>3. req' \in [Requests -> ReqRecords]
    <3>1. "negotiate" \in Points
      BY DEF Points
    <3> QED
      BY <2>1, <3>1, ReqUpdate
  <2> QED
    BY <1>0, <1>7, <2>1, <2>2, <2>3 DEF OfferBuild
<1>9. ASSUME NEW r \in Requests, OfferRegister(r) PROVE TypeOK'
  <2>1. req[r].sess \in Sessions /\ req[r].conn \in Conns
    BY <1>9, ReqTypes DEF OfferRegister, RequestInv
  <2>2. conn' \in [Conns -> ConnRecords]
    BY <1>9, ConnTypes DEF OfferRegister
  <2>3. req' \in [Requests -> ReqRecords]
    BY <1>9, ReqTypes DEF OfferRegister
  <2> QED
    BY <1>0, <1>9, <2>1, <2>2, <2>3 DEF OfferRegister
<1>11. CASE ReapExpired
  <2>1. Expired \subseteq Sessions
    BY DEF Expired, InMap
  <2> QED
    BY <1>0, <1>11, <2>1 DEF ReapExpired, StoreNext
<1>12. ASSUME NEW s \in Sessions, ReapClose(s) PROVE TypeOK'
  <2>1. conn' \in [Conns -> ConnRecords] /\ peers' \in [Sessions -> Conns \cup {NoConn}]
    <3>1. CASE peers[s] # NoConn
      BY <1>12, <3>1, ConnTypes DEF ReapClose, Unregister
    <3>2. CASE peers[s] = NoConn
      BY <1>12, <3>2 DEF ReapClose
    <3> QED
      BY <3>1, <3>2
  <2> QED
    BY <1>0, <1>12, <2>1 DEF ReapClose
<1>13. CASE ReapCloseDone
  BY <1>0, <1>13, ConnTypes DEF ReapCloseDone, Closed
<1>14. ASSUME NEW p \in Conns, PumpBreaks(p) PROVE TypeOK'
  BY <1>0, <1>14, ConnTypes DEF PumpBreaks
<1>15. CASE Clock
  BY <1>0, <1>15 DEF Clock, StoreNext
<1>16. CASE UNCHANGED vars
  BY <1>0, <1>16 DEF vars
<1> QED
  BY <1>1, <1>2, <1>3, <1>5, <1>6, <1>7, <1>9, <1>11, <1>12,
     <1>13, <1>14, <1>15, <1>16 DEF Next, Proceed, Reaper

\* Every step keeps the connections apart: a registered, a negotiated and a
\* closing one are never the same.
LEMMA MediaPeersNext == MediaInv /\ [Next]_vars => Peers'
<1> SUFFICES ASSUME MediaInv, [Next]_vars PROVE Peers'
  OBVIOUS
<1> USE NullAssumption DEF At, mediaVars, storeVars, Finish, Step, Doing
<1>0. /\ TypeOK /\ Peers
      /\ \A r \in Requests : req[r].conn \in Conns \cup {NoConn}
      /\ \A s \in Sessions : peers[s] \in Conns \cup {NoConn}
      /\ reaper.conn \in Conns \cup {NoConn}
  BY ReqTypes DEF MediaInv, TypeOK, Peers
\* A request that becomes idle, or moves to a point without a connection.
<1>1. ASSUME NEW r \in Requests, UNCHANGED <<mediaVars, reaper>>,
             req[r].at \in {"idle", "run"},
             \A q \in Requests \ {r} : req'[q] = req[q],
             req'[r].conn = NoConn, req'[r].at \in {"idle", "run", "build"},
             req'[r].at # "idle" => req'[r].sess \in Sessions
      PROVE  Peers'
  BY <1>0, <1>1 DEF Peers, RegisteredPeerOpen, NoDoubleClose, ReaperInv, RequestInv
<1>2. ASSUME UNCHANGED <<mediaVars, req>>, reaper'.conn = reaper.conn PROVE Peers'
  BY <1>0, <1>2 DEF Peers, RegisteredPeerOpen, NoDoubleClose, ReaperInv, RequestInv
\* A request that lets go of its connection, whatever becomes of that.
<1>3. ASSUME NEW r \in Requests, UNCHANGED <<peers, reaper>>,
             req[r].at \in {"negotiate", "closing", "closing_old"},
             \A q \in Requests \ {r} : req'[q] = req[q],
             req'[r].conn = NoConn, req'[r].at \in {"idle", "build"},
             req'[r].at # "idle" => req'[r].sess \in Sessions,
             \A p \in Conns \ {req[r].conn} : conn'[p] = conn[p]
      PROVE  Peers'
  BY <1>0, <1>3 DEF Peers, RegisteredPeerOpen, NoDoubleClose, ReaperInv, RequestInv
<1>10. ASSUME NEW r \in Requests, Authenticate(r) PROVE Peers'
  <2>1. PICK s \in Sessions, op \in Handlers :
          req' = [req EXCEPT ![r] = [Idle EXCEPT !.at = "run", !.op = op, !.sess = s]]
    BY <1>10 DEF Authenticate
  <2>2. /\ req'[r].at = "run" /\ req'[r].sess = s /\ req'[r].conn = NoConn
        /\ \A q \in Requests \ {r} : req'[q] = req[q]
    BY <1>0, <2>1 DEF TypeOK, Idle
  <2> QED
    BY <1>1, <1>10, <2>2 DEF Authenticate
<1>11. CASE CreateSession \/ Clock \/ ReapExpired
  <2>1. reaper'.conn = reaper.conn
    BY <1>0, <1>11 DEF CreateSession, Clock, ReapExpired, TypeOK
  <2> QED
    BY <1>2, <1>11, <2>1 DEF CreateSession, Clock, ReapExpired
<1>12. ASSUME NEW r \in Requests, HeartbeatSession(r) \/ DeleteSession(r) PROVE Peers'
  <2>1. /\ \A q \in Requests \ {r} : req'[q] = req[q]
        /\ req'[r].at = "idle" /\ req'[r].conn = NoConn
    BY <1>0, <1>12 DEF HeartbeatSession, DeleteSession, TypeOK, Idle
  <2> QED
    BY <1>1, <1>12, <2>1 DEF HeartbeatSession, DeleteSession
<1>13. ASSUME NEW r \in Requests, CloseAudio(r) PROVE Peers'
  <2>1. req[r].sess \in Sessions /\ req[r].conn = NoConn
    BY <1>0, <1>13 DEF CloseAudio, Peers, RequestInv
  <2>2. CASE peers[req[r].sess] = NoConn
    <3>1. /\ \A q \in Requests \ {r} : req'[q] = req[q]
          /\ req'[r].conn = NoConn
          /\ \/ req'[r].at = "idle"
             \/ req'[r].at = "build" /\ req'[r].sess = req[r].sess
      BY <1>0, <1>13, <2>1, <2>2 DEF CloseAudio, TypeOK, ReqRecords, Idle
    <3> QED
      BY <1>1, <1>13, <2>1, <2>2, <3>1 DEF CloseAudio
  <2>3. CASE peers[req[r].sess] # NoConn
    <3> DEFINE p == peers[req[r].sess]
    <3>1. p \in Conns
      BY <1>0, <2>1, <2>3
    <3>2. /\ \A q \in Requests \ {r} : req'[q] = req[q]
          /\ req'[r].conn = p /\ req'[r].sess = req[r].sess
          /\ req'[r].at \in {"closing", "closing_old"}
      BY <1>0, <1>13, <2>3 DEF CloseAudio, TypeOK, ReqRecords
    <3>3. /\ conn'[p].state = "closing"
          /\ \A q \in Conns \ {p} : conn'[q] = conn[q]
      BY <1>0, <1>13, <2>3, <3>1 DEF CloseAudio, Unregister, TypeOK, ConnRecords
    <3>4. /\ \A s \in Sessions \ {req[r].sess} : peers'[s] = peers[s]
          /\ peers'[req[r].sess] = NoConn
          /\ reaper' = reaper
      BY <1>0, <1>13, <2>1, <2>3 DEF CloseAudio, Unregister, TypeOK
    <3> QED
      BY <1>0, <2>1, <3>1, <3>2, <3>3, <3>4
         DEF Peers, RegisteredPeerOpen, NoDoubleClose, ReaperInv, RequestInv
  <2> QED
    BY <2>2, <2>3
<1>14. ASSUME NEW r \in Requests, CloseDone(r) \/ Abandon(r) PROVE Peers'
  <2>1. req[r].conn \in Conns /\ req[r].sess \in Sessions
    BY <1>0, <1>14 DEF CloseDone, Abandon, Peers, RequestInv
  <2>2. /\ \A q \in Requests \ {r} : req'[q] = req[q]
        /\ req'[r].conn = NoConn
        /\ \/ req'[r].at = "idle"
           \/ req'[r].at = "build" /\ req'[r].sess = req[r].sess
    BY <1>0, <1>14 DEF CloseDone, Abandon, TypeOK, ReqRecords, Idle
  <2>3. \A p \in Conns \ {req[r].conn} : conn'[p] = conn[p]
    BY <1>0, <1>14, <2>1 DEF CloseDone, Abandon, Closed, TypeOK
  <2> QED
    BY <1>3, <1>14, <2>1, <2>2, <2>3 DEF CloseDone, Abandon
<1>15. ASSUME NEW r \in Requests, OfferFails(r) PROVE Peers'
  <2>1. /\ \A q \in Requests \ {r} : req'[q] = req[q]
        /\ req'[r].conn = NoConn /\ req'[r].at = "idle"
    BY <1>0, <1>15 DEF OfferFails, TypeOK, Idle
  <2>2. CASE At(r, "negotiate")
    <3>1. req[r].conn \in Conns
      BY <1>0, <2>2 DEF Peers, RequestInv
    <3>2. \A p \in Conns \ {req[r].conn} : conn'[p] = conn[p]
      BY <1>0, <1>15, <2>2, <3>1 DEF OfferFails, Closed, TypeOK
    <3> QED
      BY <1>3, <1>15, <2>1, <2>2, <3>2 DEF OfferFails
  <2>3. CASE At(r, "build")
    BY <1>0, <1>15, <2>1, <2>3
       DEF OfferFails, Peers, RegisteredPeerOpen, NoDoubleClose, ReaperInv, RequestInv
  <2> QED
    BY <1>15, <2>2, <2>3 DEF OfferFails
<1>16. ASSUME NEW r \in Requests, OfferBuild(r) PROVE Peers'
  <2>1. PICK p \in Conns :
          /\ conn[p] = Unused
          /\ conn' = [conn EXCEPT ![p] = [state |-> "open", owner |-> req[r].sess,
                                          pump |-> FALSE]]
          /\ req' = [req EXCEPT ![r].at = "negotiate", ![r].conn = p]
    BY <1>16 DEF OfferBuild
  <2>2. /\ \A q \in Requests \ {r} : req'[q] = req[q]
        /\ req'[r].conn = p /\ req'[r].sess = req[r].sess /\ req'[r].at = "negotiate"
    BY <1>0, <2>1 DEF TypeOK, ReqRecords
  <2>3. /\ conn[p].state = "unused"
        /\ conn'[p].state = "open" /\ conn'[p].owner = req[r].sess
        /\ \A q \in Conns \ {p} : conn'[q] = conn[q]
    BY <1>0, <2>1 DEF TypeOK, Unused
  <2>4. req[r].sess \in Sessions /\ peers' = peers /\ reaper' = reaper
    BY <1>0, <1>16 DEF OfferBuild, Peers, RequestInv
  <2> QED
    BY <1>0, <2>2, <2>3, <2>4
       DEF Peers, RegisteredPeerOpen, NoDoubleClose, ReaperInv, RequestInv
<1>17. ASSUME NEW r \in Requests, OfferRegister(r) PROVE Peers'
  <2> DEFINE p == req[r].conn
             s == req[r].sess
  <2>1. p \in Conns /\ s \in Sessions
    BY <1>0, <1>17 DEF OfferRegister, Peers, RequestInv
  <2>2. /\ \A q \in Requests \ {r} : req'[q] = req[q]
        /\ req'[r].conn = NoConn /\ req'[r].at = "idle"
    BY <1>0, <1>17 DEF OfferRegister, TypeOK, Idle
  <2>3. conn'[p].state = conn[p].state /\ conn'[p].owner = conn[p].owner
    BY <1>0, <1>17, <2>1 DEF OfferRegister, TypeOK, ConnRecords
  <2>4. \A q \in Conns : q # p /\ q # peers[s] => conn'[q] = conn[q]
    BY <1>17 DEF OfferRegister
  <2>5. /\ peers'[s] = p /\ \A t \in Sessions \ {s} : peers'[t] = peers[t]
        /\ reaper' = reaper
    BY <1>0, <1>17, <2>1 DEF OfferRegister, TypeOK
  <2>6. req[r].at = "negotiate"
    BY <1>17 DEF OfferRegister
  <2> QED
    BY <1>0, <2>1, <2>2, <2>3, <2>4, <2>5, <2>6
       DEF Peers, RegisteredPeerOpen, NoDoubleClose, ReaperInv, RequestInv
<1>18. ASSUME NEW s \in Sessions, ReapClose(s) PROVE Peers'
  <2>1. CASE peers[s] = NoConn
    <3>1. reaper'.conn = reaper.conn
      BY <1>0, <1>18, <2>1 DEF ReapClose, TypeOK
    <3> QED
      BY <1>2, <1>18, <2>1, <3>1 DEF ReapClose
  <2>2. CASE peers[s] # NoConn
    <3> DEFINE p == peers[s]
    <3>1. p \in Conns
      BY <1>0, <2>2
    <3>2. req' = req /\ reaper'.conn = p /\ reaper.conn = NoConn
      BY <1>18, <2>2 DEF ReapClose
    <3>3. /\ conn'[p].state = "closing"
          /\ \A q \in Conns \ {p} : conn'[q] = conn[q]
      BY <1>0, <1>18, <2>2, <3>1 DEF ReapClose, Unregister, TypeOK, ConnRecords
    <3>4. /\ \A t \in Sessions \ {s} : peers'[t] = peers[t]
          /\ peers'[s] = NoConn
      BY <1>0, <1>18, <2>2 DEF ReapClose, Unregister, TypeOK
    <3> QED
      BY <1>0, <3>1, <3>2, <3>3, <3>4
         DEF Peers, RegisteredPeerOpen, NoDoubleClose, ReaperInv, RequestInv
  <2> QED
    BY <2>1, <2>2
<1>19. CASE ReapCloseDone
  <2>1. /\ reaper.conn \in Conns /\ reaper'.conn = NoConn
        /\ req' = req /\ peers' = peers
    BY <1>0, <1>19 DEF ReapCloseDone, TypeOK
  <2>2. \A q \in Conns \ {reaper.conn} : conn'[q] = conn[q]
    BY <1>0, <1>19, <2>1 DEF ReapCloseDone, TypeOK, ConnRecords, Closed
  <2> QED
    BY <1>0, <2>1, <2>2
       DEF Peers, RegisteredPeerOpen, NoDoubleClose, ReaperInv, RequestInv
<1>20. ASSUME NEW p \in Conns, PumpBreaks(p) PROVE Peers'
  <2>1. /\ \A q \in Conns \ {p} : conn'[q] = conn[q]
        /\ conn[p].state # "closed" =>
             conn'[p].state = conn[p].state /\ conn'[p].owner = conn[p].owner
    BY <1>0, <1>20 DEF PumpBreaks, TypeOK, ConnRecords
  <2>2. UNCHANGED <<peers, req, reaper>>
    BY <1>20 DEF PumpBreaks
  <2> QED
    BY <1>0, <2>1, <2>2
       DEF Peers, RegisteredPeerOpen, NoDoubleClose, ReaperInv, RequestInv
<1>21. CASE UNCHANGED vars
  BY <1>2, <1>21 DEF vars
<1> QED
  BY <1>10, <1>11, <1>12, <1>13, <1>14, <1>15, <1>16, <1>17, <1>18, <1>19, <1>20, <1>21
     DEF Next, Proceed, Reaper

\* The inductive invariant holds in every behaviour of the server.
THEOREM MediaInvariant == Spec => []MediaInv
<1>1. Init => MediaInv
  <2> SUFFICES ASSUME Init PROVE MediaInv
    OBVIOUS
  <2>1. TypeOK
    BY TTLAssumption DEF Init, StoreInit, TypeOK, StoreTypeOK, ConnRecords, ReqRecords,
       Unused, Idle, Points
  <2>2. /\ \A r \in Requests : req[r].conn = NoConn /\ req[r].at = "idle"
        /\ \A s \in Sessions : peers[s] = NoConn
        /\ reaper.conn = NoConn
    BY DEF Init, Idle
  <2> QED
    BY <2>1, <2>2 DEF MediaInv, Peers, RegisteredPeerOpen, NoDoubleClose, ReaperInv, RequestInv
<1>2. MediaInv /\ [Next]_vars => MediaInv'
  BY MediaTypeNext, MediaPeersNext DEF MediaInv, Peers
<1> QED
  BY <1>1, <1>2, PTL DEF Spec

\* A registered peer is an open connection of its own session.
THEOREM RegisteredPeersOpen == Spec => []RegisteredPeerOpen
  BY MediaInvariant, PTL DEF MediaInv, Peers

\* No two requests, nor a request and the reaper, close the same connection.
THEOREM NothingClosedTwice == Spec => []NoDoubleClose
  BY MediaInvariant, PTL DEF MediaInv, Peers

\* The server's session and peer state keeps its types.
THEOREM MediaType == Spec => []TypeOK
  BY MediaInvariant, PTL DEF MediaInv, Peers

-----------------------------------------------------------------------------
(* The server uses the store as the store's specification allows *)

\* Every step of the server is one store operation or leaves the store alone.
LEMMA MediaStepsStore == MediaInv /\ [Next]_vars => [StoreNext]_storeVars
<1> SUFFICES ASSUME MediaInv, [Next]_vars PROVE [StoreNext]_storeVars
  OBVIOUS
<1>1. CreateSession \/ Clock => StoreNext
  BY DEF CreateSession, Clock, StoreNext
<1>2. Reaper => StoreNext \/ UNCHANGED storeVars
  BY DEF Reaper, ReapExpired, ReapClose, ReapCloseDone, StoreNext
<1>3. ASSUME NEW r \in Requests, Authenticate(r) \/ Abandon(r)
      PROVE  UNCHANGED storeVars
  BY <1>3 DEF Authenticate, Abandon
<1>4. ASSUME NEW r \in Requests, HeartbeatSession(r) \/ DeleteSession(r)
      PROVE  StoreNext \/ UNCHANGED storeVars
  <2>1. req[r].sess \in Sessions
    BY <1>4 DEF HeartbeatSession, DeleteSession, Doing, At, MediaInv, Peers, RequestInv
  <2> QED
    BY <1>4, <2>1 DEF HeartbeatSession, DeleteSession, StoreNext
<1>5. ASSUME NEW r \in Requests, CloseAudio(r) \/ CloseDone(r) \/ OfferBuild(r)
                                   \/ OfferFails(r) \/ OfferRegister(r)
      PROVE  UNCHANGED storeVars
  BY <1>5 DEF CloseAudio, CloseDone, OfferBuild, OfferFails, OfferRegister
<1>6. ASSUME NEW p \in Conns, PumpBreaks(p) PROVE UNCHANGED storeVars
  BY <1>6 DEF PumpBreaks
<1>7. UNCHANGED vars => UNCHANGED storeVars
  BY DEF vars, storeVars
<1> QED
  BY <1>1, <1>2, <1>3, <1>4, <1>5, <1>6, <1>7 DEF Next, Proceed

\* The server's handlers and its reaper, together, run the store as StoreSpec
\* allows, so what is proved of the store holds of the server.
THEOREM ServerRunsStore == Spec => StoreSpec
<1>1. Init => StoreInit
  BY DEF Init
<1> QED
  BY <1>1, MediaStepsStore, MediaInvariant, PTL DEF Spec, StoreSpec

\* The server never holds more sessions than its cap.
THEOREM ServerCap == Spec => []SessionCap
  BY ServerRunsStore, StoreCap

\* The server keeps the promise of SessionLease.
THEOREM ServerImplementsLease == Spec => ImplementsLease
  BY ServerRunsStore, StoreImplementsLease
-----------------------------------------------------------------------------
(* One stream per session *)

\* Of a session whose offers never overlapped: one request at most is an offer
\* of it; once that offer has closed what was there, nothing is registered; and
\* a pump that runs is the registered connection's.
StreamInv(s) ==
    /\ \A r, q \in Offering(s) : r = q
    /\ \A r \in Offering(s) :
         req[r].at \in {"closing_old", "build", "negotiate"} => peers[s] = NoConn
    /\ \A p \in Pumps(s) : p = peers[s]

\* Only an offer has a connection under way.
OffersOnly == \A r \in Requests :
    req[r].at \in {"closing_old", "build", "negotiate"} => req[r].op = "offer"

Streams == OffersOnly /\ \A s \in Sessions \ overlap : StreamInv(s)
Late(r) == req[r].at \in {"closing_old", "build", "negotiate"}

\* A step in which no pump starts, the registry stays as it is and no request
\* becomes an offer keeps the invariant, if an offer gets past its first step
\* only where nothing is registered.
LEMMA QuietStep ==
  ASSUME Streams, peers' = peers, overlap' = overlap,
         \A p \in Conns : conn'[p].pump => conn[p].pump /\ conn'[p].owner = conn[p].owner,
         \A r \in Requests : \/ req'[r] = req[r]
                             \/ req'[r] = Idle
                             \/ /\ req'[r].op = req[r].op /\ req'[r].sess = req[r].sess
                                /\ Late(r)' => /\ req[r].op = "offer"
                                               /\ Late(r) \/ peers[req[r].sess] = NoConn
  PROVE  Streams'
<1>1. OffersOnly'
  BY DEF Streams, OffersOnly, Late, Idle
<1>2. ASSUME NEW s \in Sessions \ overlap PROVE StreamInv(s)'
  <2>1. StreamInv(s)
    BY DEF Streams
  <2>2. Offering(s)' \subseteq Offering(s)
    BY DEF Offering, Idle
  <2>3. Pumps(s)' \subseteq Pumps(s)
    BY DEF Pumps
  <2>4. ASSUME NEW r \in Offering(s)', Late(r)' PROVE peers'[s] = NoConn
    BY <2>1, <2>2, <2>4 DEF StreamInv, Offering, Late, Idle
  <2> QED
    BY <2>1, <2>2, <2>3, <2>4 DEF StreamInv, Late
<1> QED
  BY <1>1, <1>2 DEF Streams

\* Taking a session's connection out of the registry stops its pump.
LEMMA UnregisterStep ==
  ASSUME TypeOK, Streams, NEW s \in Sessions, peers[s] # NoConn, Unregister(s),
         overlap' = overlap,
         \A r \in Requests : \/ req'[r] = req[r]
                             \/ /\ req'[r].op = req[r].op /\ req'[r].sess = req[r].sess
                                /\ req[r].sess = s
                                /\ Late(r)' => req[r].op = "offer"
  PROVE  Streams'
<1>1. OffersOnly'
  BY DEF Streams, OffersOnly, Late
<1>2. /\ peers[s] \in Conns
      /\ peers'[s] = NoConn /\ \A t \in Sessions \ {s} : peers'[t] = peers[t]
      /\ ~conn'[peers[s]].pump
      /\ \A p \in Conns : conn'[p].pump => conn'[p] = conn[p]
  BY DEF TypeOK, Unregister, ConnRecords
<1>3. ASSUME NEW t \in Sessions \ overlap PROVE StreamInv(t)'
  <2>1. StreamInv(t)
    BY DEF Streams
  <2>2. Offering(t)' = Offering(t)
    BY DEF Offering
  <2>3. Pumps(t)' \subseteq Pumps(t) \ {peers[s]}
    BY <1>2 DEF Pumps
  <2>4. \A p \in Pumps(t)' : p = peers'[t]
    BY <1>2, <2>1, <2>3 DEF StreamInv
  <2>5. ASSUME NEW r \in Offering(t)', Late(r)' PROVE peers'[t] = NoConn
    BY <1>2, <2>1, <2>2, <2>5 DEF StreamInv, Offering, Late
  <2> QED
    BY <2>1, <2>2, <2>4, <2>5 DEF StreamInv, Late
<1> QED
  BY <1>1, <1>3 DEF Streams

\* Registering an offer's connection starts the one pump of its session, if no
\* other offer overlapped it.
LEMMA RegisterStep ==
  ASSUME TypeOK, Peers, Streams, NEW r \in Requests, OfferRegister(r)
  PROVE  Streams'
<1> DEFINE s == req[r].sess
           p == req[r].conn
<1>1. /\ s \in Sessions /\ p \in Conns /\ req[r].at = "negotiate"
      /\ conn[p].owner = s
  BY ReqTypes, NullAssumption DEF OfferRegister, At, Peers, RequestInv
<1>2. req[r].op = "offer"
  BY <1>1 DEF Streams, OffersOnly
<1>3. /\ \A q \in Requests \ {r} : req'[q] = req[q]
      /\ req'[r] = Idle
      /\ overlap' = overlap
  BY DEF OfferRegister, Finish, TypeOK
<1>4. /\ \A q \in Conns \ {p} : conn'[q].pump =>
                                   conn[q].pump /\ conn'[q].owner = conn[q].owner
      /\ conn'[p].owner = s
  BY <1>1 DEF OfferRegister, Dropped, Unused, TypeOK, ConnRecords
<1>5. peers'[s] = p /\ \A t \in Sessions \ {s} : peers'[t] = peers[t]
  BY <1>1 DEF OfferRegister, TypeOK
<1>6. OffersOnly'
  BY <1>3 DEF Streams, OffersOnly, Idle
<1>7. ASSUME NEW t \in Sessions \ overlap PROVE StreamInv(t)'
  <2>1. StreamInv(t)
    BY DEF Streams
  <2>2. Offering(t)' \subseteq Offering(t) \ {r}
    BY <1>3 DEF Offering, Idle
  <2>3. CASE t = s
    <3>1. r \in Offering(t) /\ Offering(t)' = {}
      BY <1>2, <2>1, <2>2, <2>3 DEF Offering, StreamInv
    <3>2. Pumps(t) = {}
      BY <1>1, <2>1, <3>1, NullAssumption DEF StreamInv, Pumps
    <3>3. Pumps(t)' \subseteq {p}
      BY <1>4, <3>2 DEF Pumps
    <3> QED
      BY <1>5, <2>3, <3>1, <3>3 DEF StreamInv
  <2>4. CASE t # s
    <3>1. Pumps(t)' \subseteq Pumps(t)
      BY <1>1, <1>4, <2>4 DEF Pumps
    <3>2. \A q \in Offering(t)' : q \in Offering(t) /\ req'[q] = req[q]
      BY <1>3, <2>2 DEF Offering
    <3>3. peers'[t] = peers[t]
      BY <1>5, <2>4
    <3> QED
      BY <2>1, <3>1, <3>2, <3>3 DEF StreamInv
  <2> QED
    BY <2>3, <2>4
<1> QED
  BY <1>3, <1>6, <1>7 DEF Streams

\* A request that is authenticated is not yet past its first step; if it is an
\* offer beside another, its session is one of the exceptions from now on.
LEMMA AuthenticateStep ==
  ASSUME TypeOK, Streams, NEW r \in Requests, Authenticate(r)
  PROVE  Streams'
<1>1. PICK s \in Sessions, op \in Handlers :
        /\ req' = [req EXCEPT ![r] = [Idle EXCEPT !.at = "run", !.op = op, !.sess = s]]
        /\ overlap' = IF op = "offer" /\ Offering(s) # {}
                        THEN overlap \cup {s} ELSE overlap
  BY DEF Authenticate
<1>2. /\ \A q \in Requests \ {r} : req'[q] = req[q]
      /\ req'[r].at = "run" /\ req'[r].op = op /\ req'[r].sess = s
      /\ UNCHANGED <<conn, peers>>
  BY <1>1 DEF TypeOK, Idle, Authenticate, mediaVars
<1>3. OffersOnly'
  BY <1>2 DEF Streams, OffersOnly
<1>4. ASSUME NEW t \in Sessions \ overlap' PROVE StreamInv(t)'
  <2>1. t \notin overlap /\ StreamInv(t)
    BY <1>1 DEF Streams
  <2>2. Pumps(t)' = Pumps(t) /\ peers'[t] = peers[t]
    BY <1>2 DEF Pumps
  <2>3. Offering(t)' \subseteq Offering(t) \cup {r}
    BY <1>2 DEF Offering
  <2>4. Offering(t)' \subseteq Offering(t) \/ Offering(t) = {}
    BY <1>1, <1>2 DEF Offering
  <2>5. \A x, y \in Offering(t)' : x = y
    BY <2>1, <2>3, <2>4 DEF StreamInv
  <2>6. ASSUME NEW q \in Offering(t)', Late(q)' PROVE peers'[t] = NoConn
    <3>1. q \in Requests \ {r}
      BY <1>2, <2>6 DEF Late, Offering
    <3>2. q \in Offering(t) /\ Late(q)
      BY <1>2, <2>3, <2>6, <3>1 DEF Late
    <3> QED
      BY <2>1, <2>2, <3>2 DEF StreamInv, Late
  <2> QED
    BY <2>1, <2>2, <2>5, <2>6 DEF StreamInv, Late
<1> QED
  BY <1>3, <1>4 DEF Streams

\* Every step keeps a session that no two offers shared to one stream.
LEMMA MediaStreamsNext == MediaInv /\ Streams /\ [Next]_vars => Streams'
<1> SUFFICES ASSUME MediaInv, Streams, [Next]_vars PROVE Streams'
  OBVIOUS
<1> USE NullAssumption DEF At, mediaVars, Finish, Step, Doing
<1>0. TypeOK /\ Peers
  BY DEF MediaInv
<1>1. ASSUME NEW r \in Requests, HeartbeatSession(r) \/ DeleteSession(r) PROVE Streams'
  <2>1. \A q \in Requests : req'[q] = req[q] \/ req'[q] = Idle
    BY <1>0, <1>1 DEF HeartbeatSession, DeleteSession, TypeOK
  <2> QED
    BY <1>1, <2>1, QuietStep DEF HeartbeatSession, DeleteSession
<1>2. CASE CreateSession \/ Clock \/ ReapExpired \/ UNCHANGED vars
  BY <1>2, QuietStep DEF CreateSession, Clock, ReapExpired, vars
<1>3. ASSUME NEW r \in Requests, CloseAudio(r) PROVE Streams'
  <2>1. /\ req[r].sess \in Sessions /\ overlap' = overlap
        /\ req[r].at = "run" /\ req[r].op \in {"close", "offer"}
    BY <1>0, <1>3 DEF CloseAudio, Peers, RequestInv
  <2>2. CASE peers[req[r].sess] # NoConn
    <3>1. Unregister(req[r].sess)
      BY <1>3, <2>2 DEF CloseAudio
    <3>2. /\ \A q \in Requests \ {r} : req'[q] = req[q]
          /\ req'[r].op = req[r].op /\ req'[r].sess = req[r].sess
          /\ Late(r)' => req[r].op = "offer"
      BY <1>0, <1>3, <2>2 DEF CloseAudio, Late, TypeOK, ReqRecords
    <3> QED
      BY <1>0, <2>1, <2>2, <3>1, <3>2, UnregisterStep
  <2>3. CASE peers[req[r].sess] = NoConn
    <3>1. /\ \A q \in Requests \ {r} : req'[q] = req[q]
          /\ \/ req'[r] = Idle
             \/ /\ req'[r].op = req[r].op /\ req'[r].sess = req[r].sess
                /\ req[r].op = "offer"
      BY <1>0, <1>3, <2>3 DEF CloseAudio, TypeOK, ReqRecords
    <3> QED
      BY <1>3, <2>1, <2>3, <3>1, QuietStep DEF CloseAudio
  <2> QED
    BY <2>2, <2>3
<1>4. ASSUME NEW r \in Requests, CloseDone(r) \/ OfferFails(r) \/ Abandon(r) PROVE Streams'
  <2>1. peers' = peers /\ overlap' = overlap
    BY <1>4 DEF CloseDone, OfferFails, Abandon
  <2>2. \A p \in Conns : conn'[p].pump => conn[p].pump /\ conn'[p].owner = conn[p].owner
    <3>1. conn' = conn \/ Closed(req[r].conn)
      BY <1>4 DEF CloseDone, OfferFails, Abandon
    <3> QED
      BY <1>0, <3>1 DEF Closed, Dropped, Unused, TypeOK, ConnRecords
  <2>3. /\ \A q \in Requests \ {r} : req'[q] = req[q]
        /\ \/ req'[r] = Idle
           \/ /\ req'[r].op = req[r].op /\ req'[r].sess = req[r].sess
              /\ Late(r)
    BY <1>0, <1>4 DEF CloseDone, OfferFails, Abandon, Late, TypeOK, ReqRecords
  <2>4. Late(r) => req[r].op = "offer"
    BY DEF Streams, OffersOnly, Late
  <2> QED
    BY <2>1, <2>2, <2>3, <2>4, QuietStep
<1>5. ASSUME NEW r \in Requests, OfferBuild(r) PROVE Streams'
  <2>1. PICK p \in Conns :
          /\ conn' = [conn EXCEPT ![p] = [state |-> "open", owner |-> req[r].sess,
                                          pump |-> FALSE]]
          /\ req' = [req EXCEPT ![r].at = "negotiate", ![r].conn = p]
    BY <1>5 DEF OfferBuild
  <2>2. /\ \A q \in Requests \ {r} : req'[q] = req[q]
        /\ req'[r].op = req[r].op /\ req'[r].sess = req[r].sess
    BY <1>0, <2>1 DEF TypeOK, ReqRecords
  <2>3. Late(r) /\ req[r].op = "offer"
    BY <1>5 DEF OfferBuild, Streams, OffersOnly, Late
  <2>4. \A q \in Conns : conn'[q].pump => conn[q].pump /\ conn'[q].owner = conn[q].owner
    BY <1>0, <2>1 DEF TypeOK
  <2> QED
    BY <1>5, <2>2, <2>3, <2>4, QuietStep DEF OfferBuild
<1>6. ASSUME NEW s \in Sessions, ReapClose(s) PROVE Streams'
  <2>1. CASE peers[s] # NoConn
    BY <1>0, <1>6, <2>1, UnregisterStep DEF ReapClose
  <2>2. CASE peers[s] = NoConn
    BY <1>6, <2>2, QuietStep DEF ReapClose
  <2> QED
    BY <2>1, <2>2
<1>7. CASE ReapCloseDone
  <2>1. \A p \in Conns : conn'[p].pump => conn[p].pump /\ conn'[p].owner = conn[p].owner
    BY <1>0, <1>7 DEF ReapCloseDone, Closed, Dropped, Unused, TypeOK, ConnRecords
  <2> QED
    BY <1>7, <2>1, QuietStep DEF ReapCloseDone
<1>8. ASSUME NEW p \in Conns, PumpBreaks(p) PROVE Streams'
  <2>1. \A q \in Conns : conn'[q].pump => conn[q].pump /\ conn'[q].owner = conn[q].owner
    BY <1>0, <1>8 DEF PumpBreaks, Unused, TypeOK, ConnRecords
  <2> QED
    BY <1>8, <2>1, QuietStep DEF PumpBreaks
<1>9. ASSUME NEW r \in Requests, Authenticate(r) PROVE Streams'
  BY <1>0, <1>9, AuthenticateStep
<1>10. ASSUME NEW r \in Requests, OfferRegister(r) PROVE Streams'
  BY <1>0, <1>10, RegisterStep
<1> QED
  BY <1>1, <1>2, <1>3, <1>4, <1>5, <1>6, <1>7, <1>8, <1>9, <1>10 DEF Next, Proceed, Reaper

\* A session streams to one connection at most, unless two of its offers
\* overlapped.
THEOREM OneStream == Spec => []OnePumpUnlessOverlapped
<1>1. Init => Streams
  BY DEF Init, Streams, OffersOnly, StreamInv, Offering, Pumps, Idle, Unused
<1>2. Streams => OnePumpUnlessOverlapped
  BY DEF Streams, StreamInv, OnePumpUnlessOverlapped
<1> QED
  BY <1>1, <1>2, MediaStreamsNext, MediaInvariant, PTL DEF Spec
=============================================================================
