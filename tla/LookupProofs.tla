---------------------------- MODULE LookupProofs ----------------------------
(***************************************************************************)
(* Proofs about the enrichment of contacts, for any number of requests, keys    *)
(* and callsigns, any cap and any times to live.                                *)
(***************************************************************************)
EXTENDS Lookup, FiniteSetTheorems, TLAPS

\* Every variable has its type at first.
LEMMA TypeInit == Init => TypeOK
<1> SUFFICES ASSUME Init PROVE TypeOK
  OBVIOUS
<1>1. Idle \in [at: Points, key: Keys, call: Calls, info: Infos]
  BY KeysAssumption DEF Idle, Points, Calls, Infos, Unknown
<1> QED
  BY <1>1 DEF Init, TypeOK, Calls

\* And keeps it at every step.
LEMMA TypeNext == TypeOK /\ [Next]_vars => TypeOK'
<1> SUFFICES ASSUME TypeOK, [Next]_vars PROVE TypeOK'
  OBVIOUS
<1> DEFINE Req == [at: Points, key: Keys, call: Calls, info: Infos]
<1>0. Idle \in Req
  BY KeysAssumption DEF Idle, Points, Calls, Infos, Unknown
<1>1. ASSUME NEW r \in Requests, NEW k \in Keys, NEW c \in Calls, Ask(r, k, c) PROVE TypeOK'
  <2> DEFINE new == [req[r] EXCEPT !.at = "missed", !.key = k, !.call = c]
  <2>1. Fresh(k, c) => cache[k].info.fetched \in Calls
    BY DEF Fresh, TypeOK, Entries, Infos
  <2>2. new \in Req
    BY DEF TypeOK, Points
  <2>3. req' \in {req, [req EXCEPT ![r] = new]}
    BY <1>1 DEF Ask
  <2>4. answer' \in [Requests -> [asked: Calls, fetched: Calls]]
    BY <1>1, <2>1 DEF Ask, TypeOK, Reply
  <2> HIDE DEF new
  <2> QED
    BY <1>1, <2>2, <2>3, <2>4 DEF Ask, TypeOK
<1>2. ASSUME NEW r \in Requests, Claim(r) PROVE TypeOK'
  <2>1. req' \in [Requests -> Req]
    BY <1>0, <1>2 DEF Claim, TypeOK, Done, Goto, Points
  <2>2. answer' \in [Requests -> [asked: Calls, fetched: Calls]]
    <3>1. req[r].call \in Calls
      BY DEF TypeOK
    <3> QED
      BY <1>2, <3>1 DEF Claim, TypeOK, Reply
  <2>3. inflight' \subseteq Keys
    BY <1>2 DEF Claim, TypeOK
  <2> QED
    BY <1>2, <2>1, <2>2, <2>3 DEF Claim, TypeOK
<1>3. ASSUME NEW r \in Requests, FetchEnds(r) PROVE TypeOK'
  <2>1. PICK main \in Results, route \in Results :
          req' = [req EXCEPT ![r].at = "fetched", ![r].info = Info(main, route, req[r].call)]
    BY <1>3 DEF FetchEnds
  <2>2. req[r] \in Req /\ Info(main, route, req[r].call) \in Infos
    BY DEF TypeOK, Info, Infos
  <2>3. [req[r] EXCEPT !.at = "fetched", !.info = Info(main, route, req[r].call)] \in Req
    BY <2>2 DEF Points
  <2>4. req' = [req EXCEPT ![r] =
                  [req[r] EXCEPT !.at = "fetched", !.info = Info(main, route, req[r].call)]]
    BY <2>1 DEF TypeOK
  <2> QED
    BY <1>3, <2>3, <2>4 DEF FetchEnds, TypeOK
<1>4. ASSUME NEW r \in Requests, Release(r) PROVE TypeOK'
  BY <1>4 DEF Release, TypeOK, Goto, Points
<1>5. ASSUME NEW r \in Requests, Store(r) PROVE TypeOK'
  <2>1. /\ req[r].key \in Keys /\ req[r].call \in Calls /\ req[r].info \in Infos
        /\ req[r].info.fetched \in Calls
    BY DEF TypeOK, Infos
  <2>2. Ttl(req[r].info) \in 0..HitTtl
    BY TtlAssumption DEF Ttl
  <2>3. Kept \in [Keys -> Entries \cup {NoEntry}]
    BY DEF Kept, TypeOK
  <2>4. cache' \in [Keys -> Entries \cup {NoEntry}]
    BY <1>5, <2>1, <2>2, <2>3 DEF Store, Entries
  <2> QED
    BY <1>0, <1>5, <2>1, <2>4 DEF Store, Reply, Done, TypeOK
<1>6. ASSUME NEW r \in Requests, Drop(r) PROVE TypeOK'
  BY <1>0, <1>6 DEF Drop, Done, TypeOK
<1>7. CASE Age
  <2>1. ASSUME NEW k \in Keys, cache[k] # NoEntry
        PROVE  [cache[k] EXCEPT !.left = IF @ > 0 THEN @ - 1 ELSE 0] \in Entries
    BY <2>1, TtlAssumption DEF TypeOK, Entries
  <2> QED
    BY <1>7, <2>1 DEF Age, TypeOK
<1>8. CASE UNCHANGED vars
  BY <1>8 DEF vars, TypeOK
<1> QED
  BY <1>1, <1>2, <1>3, <1>4, <1>5, <1>6, <1>7, <1>8 DEF Next, Step

\* Every variable keeps its type in every behaviour.
THEOREM LookupType == Spec => []TypeOK
  BY TypeInit, TypeNext, PTL DEF Spec

-----------------------------------------------------------------------------
(* Claims *)

Fetching(r) == req[r].at \in {"fetching", "fetched"}

\* The fetcher of a key has claimed it and is alone.
ClaimInv ==
    /\ \A r \in Requests : Fetching(r) => req[r].key \in inflight
    /\ \A r, s \in Requests : Fetching(r) /\ Fetching(s) /\ req[r].key = req[s].key => r = s

\* A claim has its fetcher, or had one that was dropped.
OwnerInv == \A k \in inflight : k \in dropped \/ \E r \in Requests : Fetching(r) /\ req[r].key = k

\* Nothing is claimed at first.
LEMMA ClaimInit == Init => ClaimInv /\ OwnerInv
  BY DEF Init, ClaimInv, OwnerInv, Fetching, Idle

\* Only an unclaimed key is claimed, and it is given back by its fetcher alone.
LEMMA ClaimNext ==
  ASSUME TypeOK, ClaimInv, OwnerInv, [Next]_vars
  PROVE  ClaimInv' /\ OwnerInv'
<1> USE DEF ClaimInv, OwnerInv, Fetching
<1>1. ASSUME NEW r \in Requests, NEW k \in Keys, NEW c \in Calls, Ask(r, k, c)
      PROVE  ClaimInv' /\ OwnerInv'
  <2>1. /\ UNCHANGED <<inflight, dropped>>
        /\ ~Fetching(r)
        /\ \A s \in Requests : req'[s] = req[s] \/ (s = r /\ ~Fetching(s)')
    <3> DEFINE new == [req[r] EXCEPT !.at = "missed", !.key = k, !.call = c]
    <3>1. new.at = "missed"
      BY DEF TypeOK
    <3>2. req' = req \/ req' = [req EXCEPT ![r] = new]
      BY <1>1 DEF Ask
    <3> HIDE DEF new
    <3>3. UNCHANGED <<inflight, dropped>> /\ ~Fetching(r)
      BY <1>1 DEF Ask, At
    <3>4. CASE req' = req
      BY <3>3, <3>4
    <3>5. CASE req' = [req EXCEPT ![r] = new]
      <4>1. req'[r].at = "missed" /\ \A s \in Requests : s # r => req'[s] = req[s]
        BY <3>1, <3>5 DEF TypeOK
      <4> QED
        BY <3>3, <4>1
    <3> QED
      BY <3>2, <3>4, <3>5
  <2> QED
    BY <2>1
<1>2. ASSUME NEW r \in Requests, Claim(r) PROVE ClaimInv' /\ OwnerInv'
  <2>1. CASE req[r].key \in inflight
    <3>1. /\ UNCHANGED <<inflight, dropped>> /\ ~Fetching(r) /\ ~Fetching(r)'
          /\ \A s \in Requests : s # r => req'[s] = req[s]
      BY <1>2, <2>1 DEF Claim, Done, Idle, TypeOK, At
    <3> QED
      BY <3>1
  <2>2. CASE req[r].key \notin inflight
    <3>1. /\ inflight' = inflight \cup {req[r].key} /\ UNCHANGED dropped
          /\ ~Fetching(r) /\ req'[r].key = req[r].key /\ req'[r].at = "fetching"
          /\ \A s \in Requests : s # r => req'[s] = req[s]
      BY <1>2, <2>2 DEF Claim, Goto, TypeOK, At
    <3> QED
      BY <2>2, <3>1
  <2> QED
    BY <2>1, <2>2
<1>3. ASSUME NEW r \in Requests, FetchEnds(r) PROVE ClaimInv' /\ OwnerInv'
  <2>1. /\ UNCHANGED <<inflight, dropped>> /\ Fetching(r) /\ Fetching(r)'
        /\ \A s \in Requests : req'[s].key = req[s].key /\ (s # r => req'[s] = req[s])
    BY <1>3 DEF FetchEnds, TypeOK, At
  <2> QED
    BY <2>1
<1>4. ASSUME NEW r \in Requests, Release(r) PROVE ClaimInv' /\ OwnerInv'
  <2>1. /\ inflight' = inflight \ {req[r].key} /\ UNCHANGED dropped
        /\ Fetching(r) /\ ~Fetching(r)'
        /\ \A s \in Requests : s # r => req'[s] = req[s]
    BY <1>4 DEF Release, Goto, TypeOK, At
  <2> QED
    BY <2>1
<1>5. ASSUME NEW r \in Requests, Store(r) PROVE ClaimInv' /\ OwnerInv'
  <2>1. /\ UNCHANGED <<inflight, dropped>> /\ ~Fetching(r) /\ ~Fetching(r)'
        /\ \A s \in Requests : s # r => req'[s] = req[s]
    BY <1>5 DEF Store, Done, Idle, TypeOK, At
  <2> QED
    BY <2>1
<1>6. ASSUME NEW r \in Requests, Drop(r) PROVE ClaimInv' /\ OwnerInv'
  <2>1. /\ UNCHANGED inflight /\ dropped' = dropped \cup {req[r].key} /\ ~Fetching(r)'
        /\ \A s \in Requests : s # r => req'[s] = req[s]
    BY <1>6 DEF Drop, Done, Idle, TypeOK
  <2> QED
    BY <2>1
<1>7. CASE Age \/ UNCHANGED vars
  <2>1. UNCHANGED <<inflight, dropped, req>>
    BY <1>7 DEF Age, vars
  <2> QED
    BY <2>1
<1> QED
  BY <1>1, <1>2, <1>3, <1>4, <1>5, <1>6, <1>7 DEF Next, Step

\* The claims are exclusive in every behaviour.
LEMMA ClaimInvariant == Spec => [](ClaimInv /\ OwnerInv)
  BY ClaimInit, ClaimNext, LookupType, PTL DEF Spec

\* Any number of requests for a contact make one fetch at a time (lookup, inflight).
THEOREM OneFetch == Spec => []OneFetchPerKey
<1>1. ClaimInv => OneFetchPerKey
  <2> SUFFICES ASSUME ClaimInv, NEW k \in Keys PROVE Cardinality(Fetchers(k)) <= 1
    BY DEF OneFetchPerKey
  <2>1. \A r, s \in Fetchers(k) : r = s
    BY DEF Fetchers, ClaimInv, Fetching
  <2>2. CASE Fetchers(k) = {}
    BY <2>2, FS_EmptySet
  <2>3. CASE Fetchers(k) # {}
    <3>1. PICK r \in Fetchers(k) : Fetchers(k) = {r}
      BY <2>1, <2>3
    <3>2. Cardinality({r}) = 1
      BY FS_Singleton
    <3> QED
      BY <3>1, <3>2
  <2> QED
    BY <2>2, <2>3
<1> QED
  BY <1>1, ClaimInvariant, PTL

\* A key is said to be pending while somebody fetches it, or once a fetch was dropped.
THEOREM Pending == Spec => []PendingHasFetcher
<1>1. OwnerInv => PendingHasFetcher
  BY DEF OwnerInv, PendingHasFetcher, Fetchers, Fetching
<1> QED
  BY <1>1, ClaimInvariant, PTL

-----------------------------------------------------------------------------
(* Answers *)

\* An entry, a fetch under way and an answer are for the callsign they were asked with.
CallInv ==
    flights =>
      /\ \A k \in Keys : cache[k] # NoEntry => cache[k].info.fetched = cache[k].call
      /\ \A r \in Requests : req[r].at \in {"fetched", "storing"} =>
                               req[r].info.fetched = req[r].call
      /\ \A r \in Requests : answer[r].fetched = answer[r].asked

\* Every step keeps callsigns and what was fetched together.
LEMMA CallNext == TypeOK /\ CallInv /\ [Next]_vars => CallInv'
<1> SUFFICES ASSUME TypeOK, CallInv, [Next]_vars, flights' PROVE CallInv'
  BY DEF CallInv
<1>0. flights
  BY DEF Next, Step, Ask, Claim, FetchEnds, Release, Store, Drop, Age, vars
<1> USE <1>0 DEF CallInv
<1>1. ASSUME NEW r \in Requests, NEW k \in Keys, NEW c \in Calls, Ask(r, k, c) PROVE CallInv'
  <2>1. CASE Fresh(k, c)
    <3>1. /\ cache[k] # NoEntry /\ cache[k].call = c
          /\ answer' = [answer EXCEPT ![r] = [asked |-> c, fetched |-> cache[k].info.fetched]]
          /\ UNCHANGED <<cache, req>>
      BY <1>1, <2>1 DEF Ask, Fresh, Reply
    <3>2. \A o \in Requests : answer'[o].fetched = answer'[o].asked
      <4>1. cache[k].info.fetched = c
        BY <3>1
      <4> QED
        BY <3>1, <4>1 DEF TypeOK
    <3> QED
      BY <3>1, <3>2
  <2>2. CASE ~Fresh(k, c)
    BY <1>1, <2>2 DEF Ask, TypeOK
  <2> QED
    BY <2>1, <2>2
<1>2. ASSUME NEW r \in Requests, Claim(r) PROVE CallInv'
  <2>1. CASE req[r].key \in inflight
    <3>1. /\ answer' = [answer EXCEPT ![r] = [asked |-> req[r].call, fetched |-> req[r].call]]
          /\ req' = [req EXCEPT ![r] = Idle] /\ UNCHANGED cache
      BY <1>2, <2>1 DEF Claim, Reply, Done
    <3>2. \A o \in Requests : answer'[o].fetched = answer'[o].asked
      BY <3>1 DEF TypeOK
    <3>3. req'[r].at = "idle" /\ \A o \in Requests : o # r => req'[o] = req[o]
      BY <3>1 DEF TypeOK, Idle
    <3> QED
      BY <1>2, <3>1, <3>2, <3>3 DEF Claim
  <2>2. CASE req[r].key \notin inflight
    BY <1>2, <2>2 DEF Claim, Goto, TypeOK
  <2> QED
    BY <2>1, <2>2
<1>3. ASSUME NEW r \in Requests, FetchEnds(r) PROVE CallInv'
  <2>1. /\ req'[r].info.fetched = req[r].call /\ req'[r].call = req[r].call
        /\ \A s \in Requests : s # r => req'[s] = req[s]
        /\ UNCHANGED <<cache, answer>>
    <3>1. PICK main \in Results, route \in Results :
            req' = [req EXCEPT ![r].at = "fetched", ![r].info = Info(main, route, req[r].call)]
      BY <1>3 DEF FetchEnds
    <3>2. req' = [req EXCEPT ![r] =
                    [req[r] EXCEPT !.at = "fetched", !.info = Info(main, route, req[r].call)]]
      BY <3>1 DEF TypeOK
    <3> DEFINE new == [req[r] EXCEPT !.at = "fetched", !.info = Info(main, route, req[r].call)]
    <3>3. new.info.fetched = req[r].call /\ new.call = req[r].call
      BY DEF Info, TypeOK
    <3> HIDE DEF new
    <3>4. req' = [req EXCEPT ![r] = new]
      BY <3>2 DEF new
    <3> QED
      BY <1>3, <3>3, <3>4 DEF FetchEnds, TypeOK
  <2> QED
    BY <2>1
<1>4. ASSUME NEW r \in Requests, Release(r) PROVE CallInv'
  BY <1>4 DEF Release, Goto, TypeOK, At
<1>5. ASSUME NEW r \in Requests, Store(r) PROVE CallInv'
  <2>1. /\ req[r].info.fetched = req[r].call /\ req[r].key \in Keys
        /\ answer' = [answer EXCEPT ![r] =
                        [asked |-> req[r].call, fetched |-> req[r].info.fetched]]
        /\ req' = [req EXCEPT ![r] = Idle]
        /\ cache' = [Kept EXCEPT ![req[r].key] =
              [call |-> req[r].call, info |-> req[r].info, left |-> Ttl(req[r].info)]]
    BY <1>5 DEF Store, Reply, Done, At, TypeOK
  <2>2. /\ DOMAIN Kept = Keys
        /\ \A k \in Keys : Kept[k] # NoEntry => Kept[k].info.fetched = Kept[k].call
    BY DEF Kept, TypeOK
  <2>3. \A k \in Keys : cache'[k] # NoEntry => cache'[k].info.fetched = cache'[k].call
    BY <2>1, <2>2
  <2> QED
    BY <2>1, <2>3 DEF TypeOK, Idle
<1>6. ASSUME NEW r \in Requests, Drop(r) PROVE CallInv'
  BY <1>6 DEF Drop, Done, Idle, TypeOK
<1>7. CASE Age
  <2>1. ASSUME NEW k \in Keys, cache[k] # NoEntry
        PROVE  cache'[k].info = cache[k].info /\ cache'[k].call = cache[k].call
    BY <1>7, <2>1 DEF Age, TypeOK, Entries
  <2>2. \A k \in Keys : cache[k] = NoEntry => cache'[k] = NoEntry
    BY <1>7 DEF Age
  <2>3. UNCHANGED <<req, answer>>
    BY <1>7 DEF Age
  <2> QED
    BY <2>1, <2>2, <2>3
<1>8. CASE UNCHANGED vars
  BY <1>8 DEF vars
<1> QED
  BY <1>1, <1>2, <1>3, <1>4, <1>5, <1>6, <1>7, <1>8 DEF Next, Step

\* No answer shows what was fetched for another callsign, for any number of callsigns of
\* an aircraft asked for at once (lookup, cached).
THEOREM AnswerForCall == Spec => []AnswerIsForCall
<1>1. Init => CallInv
  BY DEF Init, CallInv, Idle
<1>2. CallInv => AnswerIsForCall
  BY DEF CallInv, AnswerIsForCall
<1> QED
  BY <1>1, <1>2, CallNext, LookupType, PTL DEF Spec

-----------------------------------------------------------------------------
(* The cap *)

\* An answer is stored in a cache that has room for it.
LEMMA StoreKeepsCap ==
  ASSUME TypeOK, CacheBounded, NEW r \in Requests, Store(r)
  PROVE  CacheBounded'
<1> DEFINE key   == req[r].key
           entry == [call |-> req[r].call, info |-> req[r].info, left |-> Ttl(req[r].info)]
           held  == {k \in Keys : Kept[k] # NoEntry}
<1>1. key \in Keys /\ cache' = [Kept EXCEPT ![key] = entry] /\ DOMAIN Kept = Keys
  BY DEF Store, TypeOK, Kept
<1>2. Cached' \subseteq held \cup {key}
  BY <1>1 DEF Cached
<1>3. IsFiniteSet(Cached) /\ IsFiniteSet(held)
  BY KeysAssumption, FS_Subset DEF Cached
<1>4. Cardinality(held) \in Nat /\ Cardinality(held) < CacheCap
  <2>1. CASE Cardinality(Cached) >= CacheCap
    <3>1. held = {}
      BY <2>1 DEF Kept
    <3> QED
      BY <3>1, FS_EmptySet, TtlAssumption
  <2>2. CASE ~(Cardinality(Cached) >= CacheCap)
    <3>1. held = Cached
      BY <2>2 DEF Kept, Cached
    <3>2. Cardinality(Cached) \in Nat
      BY <1>3, FS_CardinalityType
    <3> QED
      BY <2>2, <3>1, <3>2, TtlAssumption
  <2> QED
    BY <2>1, <2>2
<1>5. /\ IsFiniteSet(held \cup {key}) /\ Cardinality(held \cup {key}) \in Nat
      /\ Cardinality(held \cup {key}) <= CacheCap
  <2>1. CASE key \in held
    <3>1. held \cup {key} = held
      BY <2>1
    <3> QED
      BY <1>3, <1>4, <3>1, TtlAssumption
  <2>2. CASE key \notin held
    <3>1. /\ IsFiniteSet(held \cup {key})
          /\ Cardinality(held \cup {key}) = Cardinality(held) + 1
      BY <1>3, <2>2, FS_AddElement
    <3> QED
      BY <1>4, <3>1, TtlAssumption
  <2> QED
    BY <2>1, <2>2
<1>6. IsFiniteSet(Cached') /\ Cardinality(Cached') <= Cardinality(held \cup {key})
  BY <1>2, <1>5, FS_Subset
<1>7. Cardinality(Cached') \in Nat
  BY <1>6, FS_CardinalityType
<1> QED
  BY <1>5, <1>6, <1>7, TtlAssumption DEF CacheBounded

\* The cache never outgrows CACHE_CAP, however many contacts are asked for.
THEOREM CacheCapKept == Spec => []CacheBounded
<1>1. Init => CacheBounded
  <2> SUFFICES ASSUME Init PROVE CacheBounded
    OBVIOUS
  <2>1. Cached = {}
    BY DEF Init, Cached
  <2> QED
    BY <2>1, FS_EmptySet, TtlAssumption DEF CacheBounded
<1>2. ASSUME TypeOK, CacheBounded, [Next]_vars PROVE CacheBounded'
  <2>1. ASSUME NEW r \in Requests, Store(r) PROVE CacheBounded'
    BY <1>2, <2>1, StoreKeepsCap
  <2>2. CASE Age
    <3>1. \A k \in Keys : cache'[k] # NoEntry => cache[k] # NoEntry
      BY <2>2 DEF Age
    <3>2. Cached' \subseteq Cached /\ IsFiniteSet(Cached)
      BY <3>1, KeysAssumption, FS_Subset DEF Cached
    <3>3. /\ IsFiniteSet(Cached') /\ Cardinality(Cached') <= Cardinality(Cached)
          /\ Cardinality(Cached) \in Nat
      BY <3>2, FS_Subset, FS_CardinalityType
    <3>4. Cardinality(Cached') \in Nat
      BY <3>3, FS_CardinalityType
    <3> QED
      BY <1>2, <3>3, <3>4, TtlAssumption DEF CacheBounded
  <2>3. CASE UNCHANGED cache
    BY <1>2, <2>3 DEF CacheBounded, Cached
  <2> QED
    BY <1>2, <2>1, <2>2, <2>3
    DEF Next, Step, Ask, Claim, FetchEnds, Release, Drop, vars
<1> QED
  BY <1>1, <1>2, LookupType, PTL DEF Spec
=============================================================================
