------------------------------- MODULE Lookup -------------------------------
(***************************************************************************)
(* Enrichment of a contact from a remote service (server/src/flight/mod.rs,   *)
(* vessel/mod.rs and their handlers): one shared cache with times to live and  *)
(* one set of keys being fetched, used by requests that run concurrently and   *)
(* may be dropped while they await the answer.                                 *)
(*                                                                             *)
(* An action is one lock section or one end of an await.  FlightLookup and     *)
(* VesselLookup are the same but for the callsign, which a flight's entry was  *)
(* fetched with, and for what counts as a good hit; `flights` says which it is. *)
(* The lookups are enabled: disabled ones answer without looking.              *)
(***************************************************************************)
EXTENDS Naturals, FiniteSets

CONSTANTS Keys,        \* ICAO addresses or MMSIs
          Callsigns,
          NoCall,      \* no callsign
          Requests,
          CacheCap,    \* CACHE_CAP
          HitTtl, SoftTtl, FailTtl,
          NoEntry

ASSUME TtlAssumption ==
    /\ CacheCap \in Nat \ {0}
    /\ FailTtl \in Nat \ {0} /\ SoftTtl \in Nat /\ HitTtl \in Nat
    /\ FailTtl < SoftTtl /\ SoftTtl < HitTtl
ASSUME NamesAssumption == NoCall \notin Callsigns
ASSUME KeysAssumption == Keys # {} /\ IsFiniteSet(Keys)

VARIABLES flights,    \* the flight lookup, or the vessel lookup
          cache,
          inflight,
          req,        \* each request: where it is, what it asks, what it got
          answer,     \* the last answer to each request: the callsign asked for, and fetched
          dropped     \* history: keys whose fetcher was dropped at its await

vars == <<flights, cache, inflight, req, answer, dropped>>

Calls   == Callsigns \cup {NoCall}
Results == {"data", "no", "error"}      \* get_json: Ok(Some), Ok(None), Err
Infos   == [reason: {"none", "offline", "unknown"}, route: BOOLEAN,
            fetched: Calls]                 \* history: the callsign it was fetched with
Entries == [call: Calls, info: Infos, left: 0..HitTtl]
Points  == {"idle", "missed", "fetching", "fetched", "storing"}

TypeOK ==
    /\ flights \in BOOLEAN
    /\ cache \in [Keys -> Entries \cup {NoEntry}]
    /\ inflight \subseteq Keys /\ dropped \subseteq Keys
    /\ req \in [Requests -> [at: Points, key: Keys, call: Calls, info: Infos]]
    /\ answer \in [Requests -> [asked: Calls, fetched: Calls]]

Cached == {k \in Keys : cache[k] # NoEntry}
At(r, point) == req[r].at = point
Goto(r, point) == req' = [req EXCEPT ![r].at = point]
Unknown == [reason |-> "unknown", route |-> FALSE, fetched |-> NoCall]
Idle == [at |-> "idle", key |-> CHOOSE k \in Keys : TRUE, call |-> NoCall, info |-> Unknown]
Done(r) == req' = [req EXCEPT ![r] = Idle]

Init ==
    /\ flights \in BOOLEAN
    /\ cache = [k \in Keys |-> NoEntry]
    /\ inflight = {} /\ dropped = {}
    /\ req = [r \in Requests |-> Idle]
    /\ answer = [r \in Requests |-> [asked |-> NoCall, fetched |-> NoCall]]

-----------------------------------------------------------------------------
(* lookup *)

Reply(r, call, fetched) == answer' = [answer EXCEPT ![r] = [asked |-> call, fetched |-> fetched]]

\* Mutant of Fresh: the entry serves every callsign.
Fresh_AnyCall(key, call) == cache[key] # NoEntry /\ cache[key].left > 0

Fresh(key, call) ==
    /\ cache[key] # NoEntry
    /\ cache[key].left > 0
    /\ flights => cache[key].call = call

\* cached(): a hit is the answer.
Ask(r, key, call) ==
    /\ At(r, "idle") /\ (flights \/ call = NoCall)
    /\ IF Fresh(key, call)
         THEN /\ Reply(r, call, cache[key].info.fetched)
              /\ UNCHANGED req
         ELSE /\ req' = [req EXCEPT ![r] = [@ EXCEPT !.at = "missed", !.key = key, !.call = call]]
              /\ UNCHANGED answer
    /\ UNCHANGED <<flights, cache, inflight, dropped>>

\* Mutant of Claim: every caller fetches.
Claim_All(r) ==
    /\ At(r, "missed")
    /\ inflight' = inflight \cup {req[r].key}
    /\ Goto(r, "fetching")
    /\ UNCHANGED <<flights, cache, answer, dropped>>

\* inflight.insert: the first caller fetches, the rest are told to ask again.
Claim(r) ==
    /\ At(r, "missed")
    /\ IF req[r].key \in inflight
         THEN /\ Reply(r, req[r].call, req[r].call)
              /\ Done(r)
              /\ UNCHANGED inflight
         ELSE /\ inflight' = inflight \cup {req[r].key}
              /\ Goto(r, "fetching")
              /\ UNCHANGED answer
    /\ UNCHANGED <<flights, cache, dropped>>

\* What the answers of the service make of a contact: its aircraft or vessel, and the
\* route of the callsign, whose failure is no failure.
Info(main, route, call) ==
    LET available == main = "data" \/ route = "data"
    IN  [reason |-> IF available THEN "none"
                    ELSE IF main = "error" THEN "offline" ELSE "unknown",
         route |-> route = "data", fetched |-> call]

\* Both requests have been answered or have timed out.
FetchEnds(r) ==
    /\ At(r, "fetching")
    /\ \E main \in Results, route \in Results :
         /\ ~flights \/ req[r].call = NoCall => route = "no"
         /\ req' = [req EXCEPT ![r].at = "fetched", ![r].info = Info(main, route, req[r].call)]
    /\ UNCHANGED <<flights, cache, inflight, answer, dropped>>

\* Mutant of Release: a failed fetch leaves its key.
Release_Failed(r) ==
    /\ At(r, "fetched")
    /\ inflight' = IF req[r].info.reason = "offline" THEN inflight ELSE inflight \ {req[r].key}
    /\ Goto(r, "storing")
    /\ UNCHANGED <<flights, cache, answer, dropped>>

Release(r) ==
    /\ At(r, "fetched")
    /\ inflight' = inflight \ {req[r].key}
    /\ Goto(r, "storing")
    /\ UNCHANGED <<flights, cache, answer, dropped>>

Ttl(info) ==
    IF info.reason = "offline" THEN FailTtl
    ELSE IF info.reason = "none" /\ (flights => info.route) THEN HitTtl
    ELSE SoftTtl

\* A full cache is emptied.
Kept ==
    IF Cardinality(Cached) >= CacheCap
    THEN [k \in Keys |-> NoEntry] ELSE cache

Store(r) ==
    /\ At(r, "storing")
    /\ cache' = [Kept EXCEPT ![req[r].key] = [call |-> req[r].call, info |-> req[r].info,
                                              left |-> Ttl(req[r].info)]]
    /\ Reply(r, req[r].call, req[r].info.fetched)
    /\ Done(r)
    /\ UNCHANGED <<flights, inflight, dropped>>

\* The client goes away and the handler is dropped at its await.
Drop(r) ==
    /\ At(r, "fetching")
    /\ Done(r)
    /\ dropped' = dropped \cup {req[r].key}
    /\ UNCHANGED <<flights, cache, inflight, answer>>

\* Time passes.
Age ==
    /\ \E k \in Keys : cache[k] # NoEntry /\ cache[k].left > 0
    /\ cache' = [k \in Keys |-> IF cache[k] = NoEntry THEN NoEntry
                                ELSE [cache[k] EXCEPT !.left = IF @ > 0 THEN @ - 1 ELSE 0]]
    /\ UNCHANGED <<flights, inflight, req, answer, dropped>>

Step(r) == Claim(r) \/ FetchEnds(r) \/ Release(r) \/ Store(r)

Next ==
    \/ \E r \in Requests : Step(r) \/ Drop(r)
    \/ \E r \in Requests, k \in Keys, c \in Calls : Ask(r, k, c)
    \/ Age

Spec == Init /\ [][Next]_vars

-----------------------------------------------------------------------------
(* Properties *)

Fetchers(k) == {r \in Requests : req[r].key = k /\ req[r].at \in {"fetching", "fetched"}}

\* A screen full of contacts and several browsers make one fetch per contact at a
\* time (the test of the cache and the claim of the key are two sections).
OneFetchPerKey == \A k \in Keys : Cardinality(Fetchers(k)) <= 1

\* "Pending" is said only while somebody fetches, whatever the fetch gives, unless
\* a request was dropped while it awaited the service: nothing takes its key back.
PendingHasFetcher == \A k \in inflight : Fetchers(k) # {} \/ k \in dropped

\* No answer shows the route of another callsign than the one asked for, although
\* the fetches for two callsigns of an aircraft share a key and a cache entry.
AnswerIsForCall == \A r \in Requests :
    flights => answer[r].fetched = answer[r].asked

\* The cache never holds more entries than its cap: it is emptied when full.
CacheBounded == Cardinality(Cached) <= CacheCap

=============================================================================
