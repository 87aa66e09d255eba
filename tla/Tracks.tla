------------------------------- MODULE Tracks -------------------------------
(***************************************************************************)
(* The track tables of the ADS-B, AIS and APRS modes (server/src/adsb/        *)
(* tracker.rs and cpr.rs, ais/tracker.rs, aprs/tracker.rs) under the pipeline *)
(* that feeds them and the reads of the API.                                  *)
(*                                                                             *)
(* The world has one dimension, a ring of World places; the receiver is at     *)
(* place 0 and south of it is negative.  An ADS-B position frame says only      *)
(* where in its zone a craft is: the ring is cut into EvenZones zones for even  *)
(* frames and OddZones for odd ones.  An AIS or APRS report carries the place.  *)
(* What the tables hold besides (names, rates, levels) is left out.             *)
(***************************************************************************)
EXTENDS Integers, Sequences, FiniteSets

CONSTANTS Crafts,
          World, EvenZones, OddZones,
          MaxRange,            \* max_range_nm, max_range_km
          PairAge,             \* CPR_PAIR_MAX_AGE_S
          LocalAge,            \* LOCAL_REF_MAX_AGE_S
          Gate,                \* places a second a track may jump at most
          TrailSecs, Forget,   \* trail_secs, forget_secs
          Reach,               \* how far the receiver hears
          Plans,               \* what happens in a run, see Plan
          Horizon, Restarts,   \* bounds of the plans
          NoTrack

WorldAssumption ==
    /\ {World, OddZones} \subseteq Nat \ {0} /\ EvenZones = OddZones + 1
    /\ World % (4 * EvenZones * OddZones) = 0
    /\ {MaxRange, PairAge, LocalAge, Gate, TrailSecs, Forget, Reach, Horizon} \subseteq Nat

VARIABLES plan,
          now,
          place,     \* where each craft is
          sent,      \* frames sent this second
          on,        \* the pipeline: "off", "starting", "opening", "live", "failed"
          starts,    \* how often it was started
          tracks,    \* the table
          heard      \* history: when each craft was last heard

vars == <<plan, now, place, sent, on, starts, tracks, heard>>

\* A run: the mode, whether a reference position is configured, where the crafts are at
\* first and how many places they move a second, and its bounds.
PlanType == [kind: {"adsb", "ais", "aprs"}, ref: BOOLEAN, from: (-World)..World, speed: -1..1,
             secs: 0..Horizon, starts: 0..Restarts, frames: Nat]
PlansAssumption == Plans \subseteq PlanType
kind    == plan.kind
hasRef  == plan.ref

Seconds == -1..Horizon                     \* -1: never
Places  == (-World)..World
Points  == [at: Seconds, place: Places,
            was: Places,         \* history: the craft's true place
            stray: BOOLEAN]      \* history: it may be solved against too far a reference
Never   == [at |-> -1, place |-> 0, was |-> 0, stray |-> FALSE]
Known(point) == point.at >= 0
Tracks  == [seen: 0..Horizon, fix: Points, even: Points, odd: Points, trail: Seq(Points),
            due: Seconds]                  \* history: the last frame that shows its place

Tracked == {c \in Crafts : tracks[c] # NoTrack}

Init ==
    /\ plan \in Plans /\ now = 0 /\ sent = 0
    /\ place = [c \in Crafts |-> plan.from]
    /\ on = "off" /\ starts = 0
    /\ tracks = [c \in Crafts |-> NoTrack]
    /\ heard = [c \in Crafts |-> -1]

Dist(p, q) == IF p >= q THEN p - q ELSE q - p

\* What the decoding takes for granted.  A craft that is heard is not at the far side of
\* the ring, is slower than the gate, moves less than half a zone while a fix is fresh and
\* less than half a step between the zones while frames make a pair.  The range is what the
\* configuration says: it may be wider than the zones allow.
ReachAssumption ==
    /\ 4 * Reach <= World /\ Gate > 0
    /\ 2 * LocalAge < World \div EvenZones
    /\ 2 * PairAge < World \div (EvenZones * OddZones)

-----------------------------------------------------------------------------
(* Compact position reporting *)

Even == World \div EvenZones               \* the widths of a zone
Odd  == World \div OddZones
Zone(odd) == IF odd THEN Odd ELSE Even
Signed(p) == IF 4 * p >= 3 * World THEN p - World ELSE p
IsLat(p)  == -World <= 4 * p /\ 4 * p <= World

\* decode_global: where a pair of frames, at e in its even and at o in its odd zone,
\* puts the even and the odd one.
GlobalEven(e, o) ==
    LET j == (2 * EvenZones * OddZones * (e - o) + World) \div (2 * World)
    IN  Signed(Even * (j % EvenZones) + e)
GlobalOdd(e, o) ==
    LET j == (2 * EvenZones * OddZones * (e - o) + World) \div (2 * World)
    IN  Signed(Odd * (j % OddZones) + o)

\* decode_local: the place at y in a zone of this width that is nearest to ref.
LocalDecode(y, width, ref) ==
    width * ((ref \div width) + ((2 * ((ref % width) - y) + width) \div (2 * width))) + y

-----------------------------------------------------------------------------
(* Tracker::ingest *)

NewTrack == [seen |-> now, fix |-> Never, even |-> Never, odd |-> Never, trail |-> <<>>,
             due |-> -1]

\* The trail from its first recent point on.
Trimmed(trail) ==
    LET recent == {i \in DOMAIN trail : trail[i].at >= now - TrailSecs}
        first  == CHOOSE i \in recent : \A j \in recent : i <= j
    IN  SubSeq(trail, first, Len(trail))

\* Mutant of Plausible: the speed is taken over one second.
Plausible_PerFrame(t, p) == ~Known(t.fix) \/ Dist(t.fix.place, p) <= Gate

\* No faster than the gate since the last fix; two frames of one second must agree.
Plausible(t, p) ==
    \/ kind = "aprs"
    \/ ~Known(t.fix)
    \/ Dist(t.fix.place, p) <= Gate * (now - t.fix.at)

Near(p) == ~hasRef \/ Dist(0, p) <= MaxRange

\* A place found for a craft, and whether it may be a stray.
Solved(p, stray) == [place |-> p, stray |-> stray]

\* The end of update_position and of set_position: range gate, speed gate, trail.
Placed(t, c, found) ==
    IF Near(found.place) /\ Plausible(t, found.place)
    THEN LET point == [at |-> now, place |-> found.place, was |-> place[c], stray |-> found.stray]
         IN  [t EXCEPT !.fix = point, !.trail = Trimmed(Append(@, point))]
    ELSE t

\* Mutant of Paired: frames of any age make a pair.
Paired_AnyAge(t) == Known(t.even) /\ Known(t.odd)

Paired(t) == Known(t.even) /\ Known(t.odd) /\ Dist(t.even.at, t.odd.at) <= PairAge

\* The receiver is too far a reference for a frame from place p: p is half a zone or more
\* away, and another place that reads the same is in range.
TooFar(p, width) == 2 * Dist(0, p) >= width /\ Dist(0, p) + MaxRange >= width

\* What a lone frame is decoded against: the last fix if it is fresh, the receiver.
References(t, c, odd) ==
    IF Known(t.fix) /\ now - t.fix.at <= LocalAge THEN {Solved(t.fix.place, t.fix.stray)}
    ELSE IF hasRef THEN {Solved(0, TooFar(place[c], Zone(odd)))} ELSE {}

\* update_position, where the pair may straddle a zone boundary: its longitude zones
\* differ, which takes two different places.
UpdatePosition(t, c, odd) ==
    LET slot  == [at |-> now, place |-> place[c] % Zone(odd), was |-> place[c], stray |-> FALSE]
        u     == IF odd THEN [t EXCEPT !.odd = slot] ELSE [t EXCEPT !.even = slot]
        e     == GlobalEven(u.even.place, u.odd.place)
        o     == GlobalOdd(u.even.place, u.odd.place)
        whole == Paired(u) /\ IsLat(e) /\ IsLat(o)
        global == IF ~whole THEN {} ELSE {Solved(IF u.odd.at >= u.even.at THEN o ELSE e, FALSE)}
        local == {Solved(LocalDecode(slot.place, Zone(odd), r.place), r.stray) :
                    r \in References(u, c, odd)}
        fixes == IF ~whole THEN local ELSE IF e = o THEN global ELSE global \cup local
    IN  IF fixes = {} \/ (whole /\ e # o /\ local = {})
        THEN {u} \cup {Placed(u, c, f) : f \in {g \in fixes : IsLat(g.place)}}
        ELSE {IF IsLat(f.place) THEN Placed(u, c, f) ELSE u : f \in fixes}

\* Neither the last fix nor what a lone frame is decoded against leads astray.
Sound(t, c, odd) == ~t.fix.stray /\ \A r \in References(t, c, odd) : ~r.stray

\* A frame shows its place if the receiver has a reference and the craft is in range.
Due(t, c) == [t EXCEPT !.due = IF Dist(0, place[c]) <= MaxRange /\ hasRef THEN now ELSE @]

Opened(c) == [IF tracks[c] = NoTrack THEN NewTrack ELSE tracks[c] EXCEPT !.seen = now]

Heard(c) ==
    /\ on = "live" /\ Dist(0, place[c]) <= Reach
    /\ sent < plan.frames /\ sent' = sent + 1
    /\ heard' = [heard EXCEPT ![c] = now]
    /\ UNCHANGED <<plan, now, place, on, starts>>

\* An airborne position frame, odd or even.
IngestFrame(c) ==
    /\ kind = "adsb" /\ Heard(c)
    /\ \E odd \in BOOLEAN :
         LET t == IF Sound(Opened(c), c, odd) THEN Due(Opened(c), c) ELSE Opened(c)
         IN  \E u \in UpdatePosition(t, c, odd) : tracks' = [tracks EXCEPT ![c] = u]

\* A report with a position.  An APRS packet out of range is dropped as a whole.
IngestReport(c) ==
    /\ kind # "adsb" /\ Heard(c)
    /\ tracks' = IF kind = "aprs" /\ ~Near(place[c]) THEN tracks
                 ELSE [tracks EXCEPT ![c] = Placed(Due(Opened(c), c), c, Solved(place[c], FALSE))]

\* Any other message of a craft: its name, its speed, a status.
IngestOther(c) ==
    /\ Heard(c)
    /\ tracks' = [tracks EXCEPT ![c] = Opened(c)]

-----------------------------------------------------------------------------
(* The pipeline *)

Goto(state) ==
    /\ on' = state
    /\ UNCHANGED <<plan, now, place, sent, starts, tracks, heard>>

Start ==
    /\ on = "off" /\ starts < plan.starts
    /\ on' = "starting" /\ starts' = starts + 1
    /\ UNCHANGED <<plan, now, place, sent, tracks, heard>>

\* The table is cleared before the device is opened.
Reset ==
    /\ on = "starting" /\ on' = "opening"
    /\ tracks' = [c \in Crafts |-> NoTrack]
    /\ UNCHANGED <<plan, now, place, sent, starts, heard>>

Open == on = "opening" /\ Goto("live")

\* The thread returns; the radio is on until it is stopped.
OpenFails == on = "opening" /\ Goto("failed")

\* The table stays as it is.
Stop == on \in {"live", "failed"} /\ Goto("off")

\* Twice a second, if the radio delivers samples.
Prune ==
    /\ on = "live"
    /\ tracks' = [c \in Crafts |->
         IF tracks[c] # NoTrack /\ now - tracks[c].seen > Forget THEN NoTrack ELSE tracks[c]]
    /\ UNCHANGED <<plan, now, place, sent, on, starts, heard>>

\* A second passes and the crafts move on.
Tick ==
    /\ now < plan.secs
    /\ now' = now + 1
    /\ place' = [c \in Crafts |-> place[c] + plan.speed]
    /\ sent' = 0
    /\ UNCHANGED <<plan, on, starts, tracks, heard>>

Next ==
    \/ \E c \in Crafts : IngestFrame(c) \/ IngestReport(c) \/ IngestOther(c)
    \/ Start \/ Reset \/ Open \/ OpenFails \/ Stop \/ Prune \/ Tick

Spec == Init /\ [][Next]_vars

\* snapshot: the tracks a read of the API gets.
Shown == {c \in Tracked : now - tracks[c].seen <= Forget}

-----------------------------------------------------------------------------
(* Properties *)

PointsOf(c) == {tracks[c].trail[i] : i \in DOMAIN tracks[c].trail} \cup {tracks[c].fix}

\* Every place of a track, in its trail or as its fix, is where the craft was: frames are
\* paired only while they belong together, and a lone one is decoded against a reference
\* near enough.  Only a lone frame that is decoded against the receiver from half a zone
\* away or more, within reach of a gate that is wide, and what is decoded against such a
\* fix, may be elsewhere.
FixIsTrue == \A c \in Tracked : \A point \in PointsOf(c) : point.stray \/ point.place = point.was

\* Without the exception: the reference of a lone frame is one "within ~180 NM"
\* (cpr.rs:75), so every place is where the craft was.
ReferenceIsNear == \A c \in Tracked : \A point \in PointsOf(c) : point.place = point.was

\* What a read of the API shows: only crafts heard lately, whether or not the pipeline
\* pruned, and each no earlier than its latest frame that shows a place: the gates let a
\* true place through, also after a silence, a rejected frame or a turn at the edge, if the
\* fix it is compared with and the reference it is decoded against are not strays.
ShownIsCurrent == \A c \in Shown :
    /\ Known([at |-> heard[c]]) /\ now - heard[c] <= Forget
    /\ tracks[c].fix.at >= tracks[c].due

=============================================================================
