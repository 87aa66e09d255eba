------------------------------- MODULE Voice -------------------------------
(***************************************************************************)
(* Speech to text (server/src/voice/mod.rs, voice/stt.rs): the frames the     *)
(* pipeline threads feed, the rolling buffer of the continuous modes, the     *)
(* segment of the push-to-talk modes, the one worker that transcribes both    *)
(* and the transcript.                                                        *)
(*                                                                            *)
(* An action is one lock section or one load or store of the dispatch flag.   *)
(* set_continuous is called by the radio manager when it starts a pipeline    *)
(* (before the thread exists) and when it stops one (while it still feeds);   *)
(* a start does not wait for the thread of an earlier stop.  Two calls of      *)
(* set_continuous do not overlap here: that is RadioManager's subject.         *)
(*                                                                             *)
(* A frame is one unit of audio; lengths and positions are counted in them.    *)
(***************************************************************************)
EXTENDS Naturals, Sequences, SequencesExt

CONSTANTS RingCap, MinNew, Lead, MaxWin, Guard,   \* RING_CAP16 ... GUARD16
          MinSeg, Hang, MaxSeg,
          TranscriptCap,                          \* RING_CAP
          Plans,      \* workloads: what the radio is set to, whether a client clears
          MaxRuns,    \* bound: pipelines started
          MaxQueue    \* bound: segments waiting for the worker

ASSUME RingAssumption ==
    /\ {RingCap, MinNew, Lead, MaxWin, Guard} \subseteq Nat
    /\ Guard < MinNew /\ MinNew <= MaxWin /\ MaxWin <= RingCap
ASSUME SegmentAssumption ==
    /\ {MinSeg, Hang, MaxSeg} \subseteq Nat \ {0} /\ MinSeg <= MaxSeg
    /\ {TranscriptCap, MaxRuns, MaxQueue} \subseteq Nat \ {0}
\* `clears` and `head` bound the clears and the frames the ring takes in.
ASSUME PlansAssumption ==
    Plans \subseteq [modes: SUBSET BOOLEAN, clears: Nat, head: Nat, runs: 0..MaxRuns,
                     stops: BOOLEAN]

VARIABLES plan,
          continuous,  \* the dispatch flag
          ring,        \* AudioRing
          seg,         \* SegAccum
          queue,       \* segments on their way to the worker
          worker,
          transcript,
          current,     \* the pipeline RunState knows, 0 if none
          live,        \* pipelines whose thread still feeds
          dest,        \* where each thread's next frame goes, once it has looked
          call,        \* set_continuous: what is left of it
          clearing,    \* clear_transcript: the lock it takes next
          clears,      \* clears so far
          runs,        \* pipelines so far
          upto,        \* history: end of the last window of this ring
          unheard,     \* history: positions before `upto` neither read nor reported
          forward,     \* history: a retry met a span the buffer had dropped
          joined       \* history: threads that had ended when the ring was activated

managerVars == <<plan, continuous, current, live, call, runs, joined>>
feedVars    == <<dest, seg, queue>>
vars == <<plan, continuous, ring, seg, queue, worker, transcript, current, live, dest,
          call, clearing, clears, runs, upto, unheard, forward, joined>>

Runs == 1..MaxRuns
Monus(a, b) == IF a > b THEN a - b ELSE 0
Larger(a, b) == IF a > b THEN a ELSE b

Entries == {"over", "window"}

TypeOK ==
    /\ plan \in Plans
    /\ continuous \in BOOLEAN
    /\ ring \in [head: Nat, committed: Nat, len: 0..RingCap, active: BOOLEAN,
                 generation: Nat, retries: 0..1, of: SUBSET Runs]
    /\ ring.len <= ring.head /\ ring.committed <= ring.head
    /\ seg \in [len: 0..MaxSeg, closed: 0..Hang]
    /\ queue \in Seq(MinSeg..MaxSeg)
    /\ worker \in [at: {"idle", "decode", "push"}, kind: {"none", "over", "window"},
                   generation: Nat, new: Nat, old: BOOLEAN]
    /\ transcript \in Seq(Entries) /\ Len(transcript) <= TranscriptCap
    /\ current \in 0..MaxRuns /\ live \subseteq Runs
    /\ dest \in [Runs -> {"none", "ring", "seg"}]
    /\ call \in {"none", "start", "stop", "take"}
    /\ clearing \in {"no", "seg", "ring"}
    /\ clears \in 0..plan.clears /\ runs \in 0..plan.runs
    /\ upto \in Nat /\ unheard \subseteq Nat /\ forward \in BOOLEAN /\ joined \subseteq Runs

EmptySeg == [len |-> 0, closed |-> 0]
Idle == [at |-> "idle", kind |-> "none", generation |-> 0, new |-> 0, old |-> FALSE]

Init ==
    /\ plan \in Plans
    /\ continuous = FALSE
    /\ ring = [head |-> 0, committed |-> 0, len |-> 0, active |-> FALSE,
               generation |-> 0, retries |-> 0, of |-> {}]
    /\ seg = EmptySeg /\ queue = <<>> /\ worker = Idle /\ transcript = <<>>
    /\ current = 0 /\ live = {} /\ dest = [t \in Runs |-> "none"]
    /\ call = "none" /\ clearing = "no" /\ clears = 0 /\ runs = 0
    /\ upto = 0 /\ unheard = {} /\ forward = FALSE /\ joined = {}

-----------------------------------------------------------------------------
(* AudioRing *)

Oldest == ring.head - ring.len

\* A new generation; history: the window being decoded is of an old one.
Reset(active) ==
    /\ worker' = [worker EXCEPT !.old = @ \/ (worker.at = "decode" /\ worker.kind = "window")]
    /\ ring' = [head |-> 0, committed |-> 0, len |-> 0, active |-> active,
                generation |-> ring.generation + 1, retries |-> 0, of |-> {}]
    /\ upto' = 0 /\ unheard' = {} /\ forward' = FALSE

PushFrame(t) ==
    ring' = [ring EXCEPT !.head = @ + 1, !.of = @ \cup {t},
                         !.len = IF @ = RingCap THEN RingCap ELSE @ + 1]

\* Longest window, then what the buffer still holds; what is left out is counted.
WindowStart ==
    LET lead == Monus(ring.committed, Lead)
        cut  == Larger(lead, Monus(ring.head, MaxWin))
    IN  [from |-> lead, start |-> Larger(cut, Oldest)]

\* Mutant of Read: what the buffer has dropped is taken as read.
Read_NoSkip(w) == [heard |-> w.from .. (ring.head - 1), behind |-> {}]

\* What a window reads, and what it reports as skipped.
Read(w) == [heard |-> w.start .. (ring.head - 1), behind |-> w.from .. (w.start - 1)]

\* History: a window ends at the head.
Heard(read) ==
    LET buffered == Oldest .. (ring.head - 1)
    IN  /\ unheard' = (unheard \cup (upto .. (ring.head - 1)))
                        \ ((read.heard \cap buffered) \cup read.behind)
        /\ upto' = ring.head /\ UNCHANGED forward

-----------------------------------------------------------------------------
(* The radio manager: set_continuous, starts and stops *)

\* A start: the mode decides, and a thread of an earlier stop may still run.
StartFlag(on) ==
    /\ call = "none" /\ current = 0 /\ runs < plan.runs /\ on \in plan.modes
    /\ continuous' = on
    /\ call' = "start"
    /\ UNCHANGED <<plan, ring, feedVars, worker, transcript, current, live, clearing,
                   clears, runs, upto, unheard, forward, joined>>

\* Mutant of StartRing: the stop has emptied the ring already.
StartRing_NoReset ==
    /\ call = "start"
    /\ ring' = [ring EXCEPT !.active = continuous]
    /\ call' = "none"
    /\ runs' = runs + 1 /\ current' = runs + 1 /\ live' = live \cup {runs + 1}
    /\ joined' = 1..runs \ live
    /\ UNCHANGED <<plan, continuous, feedVars, worker, transcript, clearing, clears,
                   upto, unheard, forward>>

StartRing ==
    /\ call = "start"
    /\ Reset(continuous)
    /\ call' = "none"
    /\ runs' = runs + 1 /\ current' = runs + 1 /\ live' = live \cup {runs + 1}
    /\ joined' = 1..runs \ live
    /\ UNCHANGED <<plan, continuous, feedVars, transcript, clearing, clears>>

StopFlag ==
    /\ call = "none" /\ current # 0 /\ plan.stops
    /\ continuous' = FALSE
    /\ call' = "stop"
    /\ UNCHANGED <<plan, ring, feedVars, worker, transcript, current, live, clearing,
                   clears, runs, upto, unheard, forward, joined>>

StopRing ==
    /\ call = "stop"
    /\ Reset(FALSE)
    /\ call' = "take"
    /\ UNCHANGED <<plan, continuous, feedVars, transcript, current, live, clearing, clears,
                   runs, joined>>

StopTake ==
    /\ call = "take"
    /\ current' = 0
    /\ call' = "none"
    /\ UNCHANGED <<plan, continuous, ring, feedVars, worker, transcript, live, clearing,
                   clears, runs, upto, unheard, forward, joined>>

\* The thread sees its stop flag between two frames.
ThreadEnds(t) ==
    /\ t \in live /\ t # current /\ dest[t] = "none"
    /\ live' = live \ {t}
    /\ UNCHANGED <<plan, continuous, ring, feedVars, worker, transcript, current, call,
                   clearing, clears, runs, upto, unheard, forward, joined>>

-----------------------------------------------------------------------------
(* stt_feed: the flag is read without a lock, then the frame goes to one or the other *)

FeedLooks(t) ==
    /\ t \in live /\ dest[t] = "none"
    /\ dest' = [dest EXCEPT ![t] = IF continuous THEN "ring" ELSE "seg"]
    /\ UNCHANGED <<managerVars, ring, seg, queue, worker, transcript, clearing, clears,
                   upto, unheard, forward>>

Fed(t) == dest' = [dest EXCEPT ![t] = "none"]

FeedRing(t) ==
    /\ dest[t] = "ring" /\ ring.head < plan.head
    /\ PushFrame(t)
    /\ Fed(t)
    /\ UNCHANGED <<managerVars, seg, queue, worker, transcript, clearing, clears, upto,
                   unheard, forward>>

\* flush_seg: an over too short is dropped.
Flush(s) ==
    /\ seg' = EmptySeg
    /\ IF s.len < MinSeg THEN UNCHANGED queue
       ELSE /\ Len(queue) < MaxQueue
            /\ queue' = Append(queue, s.len)

Keep(s) == seg' = s /\ UNCHANGED queue

FeedOpen(t) ==
    /\ dest[t] = "seg"
    /\ LET s == [len |-> seg.len + 1, closed |-> 0]
       IN  IF s.len >= MaxSeg THEN Flush(s) ELSE Keep(s)
    /\ Fed(t)
    /\ UNCHANGED <<managerVars, ring, worker, transcript, clearing, clears, upto, unheard, forward>>

\* Mutant of Closed: the run is counted from this frame every time.
Closed_Restarts(s) == [s EXCEPT !.closed = 1]

Closed(s) == [s EXCEPT !.closed = @ + 1]

FeedClosed(t) ==
    /\ dest[t] = "seg"
    /\ IF seg.len = 0 THEN UNCHANGED <<seg, queue>>
       ELSE LET s == Closed(seg) IN IF s.closed >= Hang THEN Flush(s) ELSE Keep(s)
    /\ Fed(t)
    /\ UNCHANGED <<managerVars, ring, worker, transcript, clearing, clears, upto, unheard, forward>>

-----------------------------------------------------------------------------
(* clear_transcript: three locks, one after the other. *)

ClearText ==
    /\ clearing = "no" /\ clears < plan.clears
    /\ transcript' = <<>>
    /\ clearing' = "seg"
    /\ clears' = clears + 1
    /\ UNCHANGED <<managerVars, ring, feedVars, worker, upto, unheard, forward>>

ClearSeg ==
    /\ clearing = "seg"
    /\ seg' = EmptySeg
    /\ clearing' = "ring"
    /\ UNCHANGED <<managerVars, ring, dest, queue, worker, transcript, clears, upto, unheard, forward>>

ClearRing ==
    /\ clearing = "ring"
    /\ Reset(ring.active)
    /\ clearing' = "no"
    /\ UNCHANGED <<managerVars, feedVars, transcript, clears>>

-----------------------------------------------------------------------------
(* The worker *)

\* A segment waits in the channel.
TakeSegment ==
    /\ worker.at = "idle" /\ queue # <<>>
    /\ worker' = [Idle EXCEPT !.at = "decode", !.kind = "over"]
    /\ queue' = Tail(queue)
    /\ UNCHANGED <<managerVars, ring, seg, dest, transcript, clearing, clears, upto, unheard, forward>>

\* None arrived for half a second: take_window.
TakeWindow ==
    /\ worker.at = "idle" /\ queue = <<>>
    /\ ring.active /\ ring.head - ring.committed >= MinNew
    /\ Heard(Read(WindowStart))
    /\ ring' = [ring EXCEPT !.committed = Monus(ring.head, Guard)]
    /\ worker' = [Idle EXCEPT !.at = "decode", !.kind = "window",
                              !.generation = ring.generation,
                              !.new = ring.head - ring.committed]
    /\ UNCHANGED <<managerVars, feedVars, transcript, clearing, clears>>

Done == worker' = Idle

\* Mutant of SameRing: the window is not compared with the ring.
SameRing_Any == TRUE

SameRing == worker.generation = ring.generation

\* The window's text, with the overlap stitched away.  Nothing may be left.
WindowText(left) ==
    /\ worker.at = "decode" /\ worker.kind = "window"
    /\ IF SameRing
         THEN /\ ring' = [ring EXCEPT !.retries = 0]
              /\ IF left THEN worker' = [worker EXCEPT !.at = "push"] ELSE Done
         ELSE Done /\ UNCHANGED ring
    /\ UNCHANGED <<managerVars, feedVars, transcript, clearing, clears, upto, unheard, forward>>

\* retry_empty: go back once, so that the span is read again.
WindowEmpty ==
    /\ worker.at = "decode" /\ worker.kind = "window"
    /\ ring' = IF ~SameRing \/ ring.retries >= 1
               THEN [ring EXCEPT !.retries = 0]
               ELSE [ring EXCEPT !.retries = 1,
                                 !.committed = Larger(Monus(@, Monus(worker.new, MinNew)),
                                                      Oldest)]
    /\ forward' = (forward \/ ring'.committed > ring.committed)
    /\ Done
    /\ UNCHANGED <<managerVars, feedVars, transcript, clearing, clears, upto, unheard>>

OverText ==
    /\ worker.at = "decode" /\ worker.kind = "over"
    /\ worker' = [worker EXCEPT !.at = "push"]
    /\ UNCHANGED <<managerVars, ring, feedVars, transcript, clearing, clears, upto, unheard, forward>>

\* The decoder fails, or an over has no words.
Nothing ==
    /\ worker.at = "decode"
    /\ Done
    /\ UNCHANGED <<managerVars, ring, feedVars, transcript, clearing, clears, upto, unheard, forward>>

Pushed(e) == Append(IF Len(transcript) >= TranscriptCap THEN Tail(transcript)
                    ELSE transcript, e)

PushEntry ==
    /\ worker.at = "push"
    /\ transcript' = Pushed(worker.kind)
    /\ Done
    /\ UNCHANGED <<managerVars, ring, feedVars, clearing, clears, upto, unheard, forward>>

-----------------------------------------------------------------------------

Manager == (\E on \in BOOLEAN : StartFlag(on)) \/ StartRing \/ StopFlag \/ StopRing \/ StopTake
Feed(t) == FeedLooks(t) \/ FeedRing(t) \/ FeedOpen(t) \/ FeedClosed(t)
Clear   == ClearText \/ ClearSeg \/ ClearRing
Work    == \/ TakeSegment \/ TakeWindow
           \/ (\E left \in BOOLEAN : WindowText(left)) \/ WindowEmpty \/ OverText \/ Nothing
           \/ PushEntry

Next == Manager \/ (\E t \in Runs : Feed(t) \/ ThreadEnds(t)) \/ Clear \/ Work

\* A thread delivers a frame every 20 ms until it is stopped; the worker is a
\* loop around a decoder that returns.
Fairness == (\A t \in Runs : WF_vars(Feed(t))) /\ WF_vars(Work)

Spec == Init /\ [][Next]_vars /\ Fairness

-----------------------------------------------------------------------------
(* Properties *)

\* However far the decoder falls behind, every frame of the ring is read by some
\* window or counted in the "audio skipped" warning: no window starts after the end
\* of the one before it, and none relies on what the buffer has dropped.  Except where
\* retry_empty finds that its span was dropped: it moves `committed` on to the oldest
\* frame and counts nothing.
LossIsCounted == forward \/ unheard = {}

\* A window that was being decoded when a clear finished, or when a mode was switched off
\* or on, is not appended: the text of before can only come after it if it fell between
\* the worker's generation check and its append.
NoOldWindow == worker.at = "push" /\ worker.kind = "window" => ~worker.old

\* The ring of a continuous mode has no audio of a pipeline that had ended when
\* the mode was switched on (frames that were between the flag and the lock when
\* the last stop emptied the ring).
RingOwn == ring.active => ring.of \cap joined = {}

\* An over is handed to the worker although the squelch chatters or never closes,
\* as long as the mode stays and the radio runs.
OverIsShipped == seg.len > 0 ~> seg.len = 0 \/ continuous \/ current = 0 \/ call # "none"

=============================================================================
