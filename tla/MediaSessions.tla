---------------------------- MODULE MediaSessions ---------------------------
(***************************************************************************)
(* Sessions and their WebRTC peers (server/src/media/mod.rs, api/audio.rs,   *)
(* api/sessions.rs, the reaper task of main.rs) over the session store.      *)
(*                                                                           *)
(* Requests run concurrently and may be dropped at any await, when the HTTP  *)
(* connection goes away.  Each is authenticated first, and then acts on the   *)
(* id it was authenticated for without looking again.  `close` and            *)
(* `negotiate` await the WebRTC library between their critical sections; one  *)
(* action below is what runs between two awaits.  The reaper task is never    *)
(* dropped.                                                                   *)
(*                                                                           *)
(* The audio state a session reports is not modelled, nor is shutdown.        *)
(*                                                                           *)
(* A connection (RTCPeerConnection) has a pump task that copies the encoded   *)
(* audio into its track until it is aborted or a write fails.  Dropping the    *)
(* registry's entry drops the pump's JoinHandle, which detaches the task and   *)
(* does not abort it.                                                          *)
(***************************************************************************)
EXTENDS SessionStore

CONSTANTS Requests,    \* requests that may be in progress at once
          Handlers,    \* operations they may be: a subset of the four below
          Conns,       \* names of connections, reused after their end
          NoConn, NoSession

ASSUME HandlersAssumption == Handlers \subseteq {"heartbeat", "delete", "offer", "close"}
ASSUME NullAssumption == NoConn \notin Conns /\ NoSession \notin Sessions

VARIABLES conn,      \* the connections
          peers,     \* WebrtcEngine.peers: the connection registered per session
          req,       \* the requests in progress
          reaper,    \* ids still to be closed, and the connection being closed
          overlap    \* history: sessions for which two offers ran at once

mediaVars == <<conn, peers>>
vars == <<held, left, conn, peers, req, reaper, overlap>>

Unused == [state |-> "unused", owner |-> NoSession, pump |-> FALSE]
Idle   == [at |-> "idle", op |-> "none", sess |-> NoSession, conn |-> NoConn]

Points == {"idle", "run", "closing_old", "build", "negotiate", "closing"}

ConnRecords == [state: {"unused", "open", "closing", "closed"},
                owner: Sessions \cup {NoSession}, pump: BOOLEAN]
ReqRecords  == [at: Points, op: Handlers \cup {"none"},
                sess: Sessions \cup {NoSession}, conn: Conns \cup {NoConn}]

TypeOK ==
    /\ StoreTypeOK
    /\ conn \in [Conns -> ConnRecords]
    /\ peers \in [Sessions -> Conns \cup {NoConn}]
    /\ req \in [Requests -> ReqRecords]
    /\ reaper \in [pending: SUBSET Sessions, conn: Conns \cup {NoConn}]
    /\ overlap \subseteq Sessions

At(r, point) == req[r].at = point
Pumps(s) == {p \in Conns : conn[p].owner = s /\ conn[p].pump}
Offering(s) == {r \in Requests : req[r].op = "offer" /\ req[r].sess = s}

-----------------------------------------------------------------------------
(* WebrtcEngine::close, up to its await and after it *)

\* Mutant of Unregister: the entry is looked up and not removed.
Unregister_Keeps(s) ==
    /\ conn' = [conn EXCEPT ![peers[s]].pump = FALSE, ![peers[s]].state = "closing"]
    /\ UNCHANGED peers

\* Mutant of Unregister: the pump task is dropped and not aborted.
Unregister_Detaches(s) ==
    /\ peers' = [peers EXCEPT ![s] = NoConn]
    /\ conn' = [conn EXCEPT ![peers[s]].state = "closing"]

\* Take the entry out of the registry and abort its tasks.
Unregister(s) ==
    /\ peers' = [peers EXCEPT ![s] = NoConn]
    /\ conn' = [conn EXCEPT ![peers[s]].pump = FALSE, ![peers[s]].state = "closing"]

\* A connection whose last reference is dropped.  Its name is free again unless
\* a pump that nobody aborted still feeds the track.
Dropped(p) == IF conn[p].pump THEN [conn[p] EXCEPT !.state = "closed"] ELSE Unused

\* pc.close() returned, or the future that awaited it was dropped.
Closed(p) == conn' = [conn EXCEPT ![p] = Dropped(p)]

-----------------------------------------------------------------------------
(* Requests *)

\* AuthedSession and require_own: the token names a live session.
Authenticate(r) ==
    /\ At(r, "idle")
    /\ \E s \in Sessions, op \in Handlers :
         /\ Live(s)
         /\ req' = [req EXCEPT ![r] = [Idle EXCEPT !.at = "run", !.op = op, !.sess = s]]
         /\ overlap' = IF op = "offer" /\ Offering(s) # {}
                         THEN overlap \cup {s} ELSE overlap
    /\ UNCHANGED <<storeVars, mediaVars, reaper>>

Finish(r) == req' = [req EXCEPT ![r] = Idle]
Step(r, point) == req' = [req EXCEPT ![r].at = point]
Doing(r, op) == At(r, "run") /\ req[r].op = op

\* POST /sessions: needs no authentication and awaits nothing.
CreateSession ==
    /\ CreateRefused \/ \E s \in Sessions : Create(s)
    /\ UNCHANGED <<mediaVars, req, reaper, overlap>>

HeartbeatSession(r) ==
    /\ Doing(r, "heartbeat")
    /\ Heartbeat(req[r].sess)
    /\ Finish(r)
    /\ UNCHANGED <<mediaVars, reaper, overlap>>

\* The handler removes the session and nothing else.
DeleteSession(r) ==
    /\ Doing(r, "delete")
    /\ Delete(req[r].sess)
    /\ Finish(r)
    /\ UNCHANGED <<mediaVars, reaper, overlap>>

\* DELETE .../audio, and the first thing an offer does: close what is there.
CloseAudio(r) ==
    /\ At(r, "run") /\ req[r].op \in {"close", "offer"}
    /\ LET s == req[r].sess IN
         IF peers[s] # NoConn
           THEN /\ Unregister(s)
                /\ req' = [req EXCEPT ![r].at = IF req[r].op = "offer"
                                                  THEN "closing_old" ELSE "closing",
                                      ![r].conn = peers[s]]
           ELSE /\ IF req[r].op = "offer" THEN Step(r, "build") ELSE Finish(r)
                /\ UNCHANGED mediaVars
    /\ UNCHANGED <<storeVars, reaper, overlap>>

CloseDone(r) ==
    /\ At(r, "closing") \/ At(r, "closing_old")
    /\ Closed(req[r].conn)
    /\ IF At(r, "closing") THEN Finish(r)
         ELSE req' = [req EXCEPT ![r].at = "build", ![r].conn = NoConn]
    /\ UNCHANGED <<storeVars, peers, reaper, overlap>>

\* negotiate: a new connection, its callbacks, and the SDP exchange begins.
OfferBuild(r) ==
    /\ At(r, "build")
    /\ \E p \in Conns :
         /\ conn[p] = Unused
         /\ conn' = [conn EXCEPT ![p] = [state |-> "open", owner |-> req[r].sess,
                                         pump |-> FALSE]]
         /\ req' = [req EXCEPT ![r].at = "negotiate", ![r].conn = p]
    /\ UNCHANGED <<storeVars, peers, reaper, overlap>>

\* A `?` of negotiate returns, and the connection, if there is one, is dropped.
OfferFails(r) ==
    /\ \/ At(r, "build") /\ UNCHANGED conn
       \/ At(r, "negotiate") /\ Closed(req[r].conn)
    /\ Finish(r)
    /\ UNCHANGED <<storeVars, peers, reaper, overlap>>

\* ICE gathering is complete: start the pump and register.  `insert` replaces
\* whatever another offer registered meanwhile, whose pump runs on, detached.
OfferRegister(r) ==
    /\ At(r, "negotiate")
    /\ LET old == peers[req[r].sess] IN
         conn' = [p \in Conns |-> CASE p = req[r].conn -> [conn[p] EXCEPT !.pump = TRUE]
                                    [] p # req[r].conn /\ p = old -> Dropped(p)
                                    [] OTHER -> conn[p]]
    /\ peers' = [peers EXCEPT ![req[r].sess] = req[r].conn]
    /\ Finish(r)
    /\ UNCHANGED <<storeVars, reaper, overlap>>

\* The client goes away and the request is dropped at its await, as is a
\* connection it is closing; an offer's other awaits end like a failed one.
Abandon(r) ==
    /\ At(r, "closing_old") \/ At(r, "closing")
    /\ Closed(req[r].conn)
    /\ Finish(r)
    /\ UNCHANGED <<storeVars, peers, reaper, overlap>>

-----------------------------------------------------------------------------
(* The reaper task *)

\* Every five seconds, when the last round is done.
ReapExpired ==
    /\ reaper.pending = {} /\ reaper.conn = NoConn
    /\ Reap
    /\ reaper' = [reaper EXCEPT !.pending = Expired]
    /\ UNCHANGED <<mediaVars, req, overlap>>

ReapClose(s) ==
    /\ s \in reaper.pending /\ reaper.conn = NoConn
    /\ IF peers[s] # NoConn
         THEN Unregister(s) /\ reaper' = [pending |-> reaper.pending \ {s}, conn |-> peers[s]]
         ELSE UNCHANGED mediaVars /\ reaper' = [reaper EXCEPT !.pending = @ \ {s}]
    /\ UNCHANGED <<storeVars, req, overlap>>

ReapCloseDone ==
    /\ reaper.conn # NoConn
    /\ Closed(reaper.conn)
    /\ reaper' = [reaper EXCEPT !.conn = NoConn]
    /\ UNCHANGED <<storeVars, peers, req, overlap>>

-----------------------------------------------------------------------------
\* write_sample fails and the pump returns; the registry is not told.
PumpBreaks(p) ==
    /\ conn[p].pump
    /\ conn' = [conn EXCEPT ![p] = IF conn[p].state = "closed" THEN Unused
                                   ELSE [conn[p] EXCEPT !.pump = FALSE]]
    /\ UNCHANGED <<storeVars, peers, req, reaper, overlap>>

Clock == Tick /\ UNCHANGED <<mediaVars, req, reaper, overlap>>

-----------------------------------------------------------------------------
Init ==
    /\ StoreInit
    /\ conn = [p \in Conns |-> Unused]
    /\ peers = [s \in Sessions |-> NoConn]
    /\ req = [r \in Requests |-> Idle]
    /\ reaper = [pending |-> {}, conn |-> NoConn]
    /\ overlap = {}

Proceed(r) ==
    \/ HeartbeatSession(r) \/ DeleteSession(r) \/ CloseAudio(r) \/ CloseDone(r)
    \/ OfferBuild(r) \/ OfferFails(r) \/ OfferRegister(r)

Reaper == ReapExpired \/ ReapCloseDone \/ \E s \in Sessions : ReapClose(s)

Next ==
    \/ CreateSession \/ Clock \/ Reaper
    \/ \E r \in Requests : Authenticate(r) \/ Proceed(r) \/ Abandon(r)
    \/ \E p \in Conns : PumpBreaks(p)

Spec == Init /\ [][Next]_vars

\* The clock runs, and the reaper's task is polled.
FairSpec == Spec /\ WF_vars(Clock) /\ WF_vars(Reaper)

-----------------------------------------------------------------------------
(* Correctness *)

\* A registered peer is an open connection of the session it is registered for,
\* never one that a request, an abandoned request or the reaper is closing.
RegisteredPeerOpen ==
    \A s \in Sessions : peers[s] # NoConn =>
      conn[peers[s]].state = "open" /\ conn[peers[s]].owner = s

\* A session streams to one connection at most, unless two of its offers
\* overlapped: replacing, closing, abandoning and reaping leave no pump behind.
OnePumpUnlessOverlapped ==
    \A s \in Sessions \ overlap : \A p, q \in Pumps(s) : p = q

\* A connection that is on its way in or out belongs to one request, or to the
\* reaper: no two of them close the same connection.
NoDoubleClose ==
    /\ \A r, q \in Requests : req[r].conn = req[q].conn /\ req[r].conn # NoConn => r = q
    /\ \A r \in Requests : req[r].conn # NoConn => req[r].conn # reaper.conn

\* A session whose time has run out leaves the map.
ExpiredLeaves == \A s \in Sessions : held[s] = "held" /\ left[s] = 0 ~> held[s] = "gone"

\* The peer a session had when the reaper found it expired stops streaming,
\* unless an offer that overlapped another's took its place in the registry.
ReapedPeerStops ==
    \A s \in Sessions, p \in Conns :
      s \in reaper.pending /\ peers[s] = p /\ s \notin overlap ~> ~conn[p].pump

-----------------------------------------------------------------------------
(* What the documents say and the code does not do *)

\* docs/rest-api.md: "the session is reaped and its WebRTC peer closed", and
\* on DELETE: "closes the peer connection".  A session that is gone has no
\* peer, but for the one the reaper is about to close.
GonePeerIsBeingClosed ==
    \A s \in Sessions : held[s] = "gone" /\ peers[s] # NoConn => s \in reaper.pending
=============================================================================
