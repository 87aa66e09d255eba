----------------------------- MODULE VoiceProofs -----------------------------
(***************************************************************************)
(* Proofs about the transcriber, for any lengths of the buffer and its         *)
(* windows, any number of pipelines and any workload.                          *)
(***************************************************************************)
EXTENDS Voice, TLAPS

-----------------------------------------------------------------------------
(* Types *)

\* The buffer: where it is, and that it is not behind what was read.
RingType ==
    /\ ring \in [head: Nat, committed: Nat, len: 0..RingCap, active: BOOLEAN,
                 generation: Nat, retries: 0..1, of: SUBSET Runs]
    /\ ring.len <= ring.head /\ ring.committed <= ring.head
    /\ upto \in Nat /\ unheard \subseteq Nat /\ forward \in BOOLEAN

SegType == seg \in [len: 0..(MaxSeg - 1), closed: 0..(Hang - 1)] /\ queue \in Seq(MinSeg..MaxSeg)

WorkerType ==
    /\ worker \in [at: {"idle", "decode", "push"}, kind: {"none", "over", "window"},
                   generation: Nat, new: Nat, old: BOOLEAN]
    /\ worker.at # "idle" => worker.kind \in Entries
    /\ transcript \in Seq(Entries) /\ Len(transcript) <= TranscriptCap

ManagerType ==
    /\ plan \in Plans /\ continuous \in BOOLEAN
    /\ current \in 0..MaxRuns /\ live \subseteq Runs
    /\ dest \in [Runs -> {"none", "ring", "seg"}]
    /\ call \in {"none", "start", "stop", "take"}
    /\ clearing \in {"no", "seg", "ring"}
    /\ clears \in 0..plan.clears /\ runs \in 0..plan.runs
    /\ call = "start" => runs < plan.runs
    /\ joined \subseteq Runs

Types == RingType /\ SegType /\ WorkerType /\ ManagerType

\* What a plan is made of.
LEMMA PlanParts ==
  ASSUME plan \in Plans
  PROVE  plan.clears \in Nat /\ plan.runs \in 0..MaxRuns /\ plan.head \in Nat
  BY PlansAssumption

\* The lengths are numbers.
LEMMA Lengths ==
    /\ RingCap \in Nat /\ MinNew \in Nat /\ Lead \in Nat /\ MaxWin \in Nat /\ Guard \in Nat
    /\ MinSeg \in Nat \ {0} /\ Hang \in Nat \ {0} /\ MaxSeg \in Nat \ {0} /\ MinSeg <= MaxSeg
    /\ TranscriptCap \in Nat \ {0} /\ MaxRuns \in Nat \ {0} /\ MaxQueue \in Nat \ {0}
    /\ Guard < MinNew /\ MinNew <= MaxWin /\ MaxWin <= RingCap
  BY RingAssumption, SegmentAssumption

\* Emptying the ring keeps its type.
LEMMA ResetTypes ==
  ASSUME RingType, NEW a \in BOOLEAN, Reset(a)
  PROVE  RingType'
<1>1. ring.generation + 1 \in Nat
  BY DEF RingType
<1>2. 0 \in 0..RingCap
  BY Lengths
<1>3. ring' \in [head: Nat, committed: Nat, len: 0..RingCap, active: BOOLEAN,
                generation: Nat, retries: 0..1, of: SUBSET Runs]
  BY <1>1, <1>2 DEF Reset
<1>4. ring'.len <= ring'.head /\ ring'.committed <= ring'.head
  BY DEF Reset
<1>5. upto' \in Nat /\ unheard' \subseteq Nat /\ forward' \in BOOLEAN
  BY DEF Reset
<1> QED
  BY <1>3, <1>4, <1>5 DEF RingType

\* Every variable has its type at first.
LEMMA TypesInit == Init => Types
<1> SUFFICES ASSUME Init PROVE Types
  OBVIOUS
<1>1. RingType
  <2>1. ring \in [head: Nat, committed: Nat, len: 0..RingCap, active: BOOLEAN,
                 generation: Nat, retries: 0..1, of: SUBSET Runs]
    BY Lengths DEF Init
  <2>2. ring.len <= ring.head /\ ring.committed <= ring.head
    BY DEF Init
  <2>3. upto \in Nat /\ unheard \subseteq Nat /\ forward \in BOOLEAN
    BY DEF Init
  <2> QED
    BY <2>1, <2>2, <2>3 DEF RingType
<1>2. SegType
  BY Lengths DEF Init, SegType, EmptySeg
<1>3. WorkerType
  BY Lengths DEF Init, WorkerType, Idle
<1>4. ManagerType
  <2>1. plan \in Plans /\ 0 \in 0..plan.clears /\ 0 \in 0..plan.runs /\ 0 \in 0..MaxRuns
    BY Lengths, PlanParts DEF Init
  <2>2. dest \in [Runs -> {"none", "ring", "seg"}]
    BY DEF Init
  <2> QED
    BY <2>1, <2>2 DEF Init, ManagerType
<1> QED
  BY <1>1, <1>2, <1>3, <1>4 DEF Types

\* The ring keeps its type.
LEMMA RingTypeNext ==
  ASSUME Types, [Next]_vars
  PROVE  RingType'
<1> USE DEF Types, feedVars, managerVars
<1>1. CASE StartRing \/ StopRing \/ ClearRing
  BY <1>1, ResetTypes DEF StartRing, StopRing, ClearRing, ManagerType, RingType
<1>2. ASSUME NEW t \in Runs, FeedRing(t) PROVE RingType'
  <2>1. ring' = [ring EXCEPT !.head = @ + 1, !.of = @ \cup {t},
                             !.len = IF @ = RingCap THEN RingCap ELSE @ + 1]
    BY <1>2 DEF FeedRing, PushFrame
  <2>2. /\ ring.head + 1 \in Nat /\ ring.of \cup {t} \in SUBSET Runs
        /\ (IF ring.len = RingCap THEN RingCap ELSE ring.len + 1) \in 0..RingCap
        /\ (IF ring.len = RingCap THEN RingCap ELSE ring.len + 1) <= ring.head + 1
        /\ ring.committed <= ring.head + 1
    BY Lengths DEF RingType
  <2> QED
    BY <1>2, <2>1, <2>2 DEF FeedRing, RingType
<1>3. CASE TakeWindow
  <2>1. ring' = [ring EXCEPT !.committed = Monus(ring.head, Guard)]
    BY <1>3 DEF TakeWindow
  <2>2. Monus(ring.head, Guard) \in Nat /\ Monus(ring.head, Guard) <= ring.head
    BY Lengths DEF RingType, Monus
  <2>3. upto' \in Nat /\ unheard' \subseteq Nat /\ forward' \in BOOLEAN
    BY <1>3 DEF TakeWindow, Heard, RingType
  <2>4. /\ ring' \in [head: Nat, committed: Nat, len: 0..RingCap, active: BOOLEAN,
                      generation: Nat, retries: 0..1, of: SUBSET Runs]
        /\ ring'.len <= ring'.head /\ ring'.committed <= ring'.head
    BY <2>1, <2>2 DEF RingType
  <2> QED
    BY <2>3, <2>4 DEF RingType
<1>4. CASE WindowEmpty
  <2> DEFINE back == Larger(Monus(ring.committed, Monus(worker.new, MinNew)), Oldest)
  <2>1. back \in Nat /\ back <= ring.head
    BY Lengths DEF RingType, WorkerType, Monus, Larger, Oldest
  <2>2. ring' = [ring EXCEPT !.retries = 0] \/ ring' = [ring EXCEPT !.retries = 1, !.committed = back]
    BY <1>4 DEF WindowEmpty
  <2> HIDE DEF back
  <2>3. forward' \in BOOLEAN /\ UNCHANGED <<upto, unheard>>
    BY <1>4 DEF WindowEmpty, RingType
  <2>4. /\ ring' \in [head: Nat, committed: Nat, len: 0..RingCap, active: BOOLEAN,
                      generation: Nat, retries: 0..1, of: SUBSET Runs]
        /\ ring'.len <= ring'.head /\ ring'.committed <= ring'.head
    <3>1. CASE ring' = [ring EXCEPT !.retries = 0]
      BY <3>1 DEF RingType
    <3>2. CASE ring' = [ring EXCEPT !.retries = 1, !.committed = back]
      <4>1. ring \in [head: Nat, committed: Nat, len: 0..RingCap, active: BOOLEAN,
                      generation: Nat, retries: 0..1, of: SUBSET Runs] /\ ring.len <= ring.head
        BY DEF RingType
      <4>2. ring' \in [head: Nat, committed: Nat, len: 0..RingCap, active: BOOLEAN,
                       generation: Nat, retries: 0..1, of: SUBSET Runs]
        <5> DEFINE mid == [ring EXCEPT !.retries = 1]
        <5>1. mid \in [head: Nat, committed: Nat, len: 0..RingCap, active: BOOLEAN,
                        generation: Nat, retries: 0..1, of: SUBSET Runs]
          BY <4>1
        <5>2. ring' = [mid EXCEPT !.committed = back]
          BY <3>2
        <5> HIDE DEF mid
        <5> QED
          BY <2>1, <5>1, <5>2
      <4>3. ring'.len = ring.len /\ ring'.head = ring.head /\ ring'.committed = back
        BY <3>2, <4>1
      <4> QED
        BY <2>1, <4>1, <4>2, <4>3
    <3> QED
      BY <2>2, <3>1, <3>2
  <2>5. upto' \in Nat /\ unheard' \subseteq Nat /\ forward' \in BOOLEAN
    BY <2>3 DEF RingType
  <2> QED
    BY <2>4, <2>5 DEF RingType
<1>5. ASSUME NEW left \in BOOLEAN, WindowText(left) PROVE RingType'
  BY <1>5 DEF WindowText, RingType
<1>6. CASE UNCHANGED <<ring, upto, unheard, forward>>
  BY <1>6 DEF RingType
<1> QED
  BY <1>1, <1>2, <1>3, <1>4, <1>5, <1>6
  DEF Next, Manager, Feed, Clear, Work, StartFlag, StopFlag, StopTake, ThreadEnds, FeedLooks,
      FeedOpen, FeedClosed, ClearText, ClearSeg, TakeSegment, OverText, Nothing, PushEntry, vars

\* The segment and the queue keep their types: what is queued is an over long enough.
LEMMA SegTypeNext ==
  ASSUME Types, [Next]_vars
  PROVE  SegType'
<1> USE DEF Types, feedVars, managerVars
<1>0. /\ seg \in [len: 0..(MaxSeg - 1), closed: 0..(Hang - 1)] /\ queue \in Seq(MinSeg..MaxSeg)
      /\ EmptySeg \in [len: 0..(MaxSeg - 1), closed: 0..(Hang - 1)]
  BY Lengths DEF SegType, EmptySeg
<1>1. ASSUME NEW s, s.len \in 0..MaxSeg, Flush(s) PROVE SegType'
  <2>1. CASE s.len < MinSeg
    BY <1>0, <1>1, <2>1 DEF Flush, SegType
  <2>2. CASE ~(s.len < MinSeg)
    <3>1. s.len \in MinSeg..MaxSeg
      BY <1>1, <2>2, Lengths
    <3> DEFINE S == MinSeg..MaxSeg
    <3> HIDE DEF S
    <3>2. Append(queue, s.len) \in Seq(MinSeg..MaxSeg)
      <4>1. queue \in Seq(S) /\ s.len \in S
        BY <1>0, <3>1 DEF S
      <4>2. Append(queue, s.len) \in Seq(S)
        BY <4>1
      <4> QED
        BY <4>2 DEF S
    <3> QED
      BY <1>0, <1>1, <2>2, <3>1, <3>2 DEF Flush, SegType
  <2> QED
    BY <2>1, <2>2
<1>2. ASSUME NEW t \in Runs, FeedOpen(t) PROVE SegType'
  <2> DEFINE s == [len |-> seg.len + 1, closed |-> 0]
  <2>1. s.len \in 0..MaxSeg
    BY <1>0, Lengths
  <2>2. IF s.len >= MaxSeg THEN Flush(s) ELSE Keep(s)
    BY <1>2 DEF FeedOpen
  <2>3. CASE s.len < MaxSeg
    <3>1. s \in [len: 0..(MaxSeg - 1), closed: 0..(Hang - 1)]
      BY <2>1, <2>3, Lengths
    <3>2. Keep(s)
      BY <2>1, <2>2, <2>3, Lengths
    <3> QED
      BY <1>0, <3>1, <3>2 DEF Keep, SegType
  <2>4. CASE s.len = MaxSeg
    <3>1. Flush(s)
      BY <2>2, <2>4, Lengths
    <3> HIDE DEF s
    <3> QED
      BY <2>1, <3>1, <1>1
  <2> QED
    BY <2>1, <2>3, <2>4, Lengths
<1>3. ASSUME NEW t \in Runs, FeedClosed(t) PROVE SegType'
  <2> DEFINE s == [seg EXCEPT !.closed = @ + 1]
  <2>0. seg.len \in 0..(MaxSeg - 1) /\ seg.closed \in 0..(Hang - 1)
    BY <1>0
  <2>a. s.len = seg.len /\ s.closed = seg.closed + 1
    BY <1>0
  <2>1. s.len \in 0..MaxSeg /\ s.closed \in 0..Hang
    BY <2>0, <2>a, Lengths
  <2>2. \/ UNCHANGED <<seg, queue>>
        \/ Flush(s)
        \/ s.closed < Hang /\ Keep(s)
    BY <1>3, <2>1, Lengths DEF FeedClosed, Closed
  <2>3. CASE s.closed < Hang /\ Keep(s)
    <3>1. seg.closed + 1 \in 0..(Hang - 1)
      BY <2>0, <2>a, <2>3, Lengths
    <3>2. s \in [len: 0..(MaxSeg - 1), closed: 0..(Hang - 1)]
      BY <1>0, <3>1
    <3> QED
      BY <1>0, <2>3, <3>2 DEF Keep, SegType
  <2> HIDE DEF s
  <2>4. CASE Flush(s)
    BY <2>1, <2>4, <1>1
  <2> QED
    BY <1>0, <2>2, <2>3, <2>4 DEF SegType
<1>4. CASE ClearSeg
  BY <1>0, <1>4 DEF ClearSeg, SegType
<1>5. CASE TakeSegment
  BY <1>0, <1>5 DEF TakeSegment, SegType
<1>6. CASE UNCHANGED <<seg, queue>>
  BY <1>0, <1>6 DEF SegType
<1> QED
  BY <1>2, <1>3, <1>4, <1>5, <1>6
  DEF Next, Manager, Feed, Clear, Work, StartFlag, StartRing, StopFlag, StopRing, StopTake,
      ThreadEnds, FeedLooks, FeedRing, ClearText, ClearRing, TakeWindow, WindowText, WindowEmpty,
      OverText, Nothing, PushEntry, vars

\* The worker keeps its type: what it pushes is an over or a window, and the transcript
\* stays within its cap.
LEMMA WorkerTypeNext ==
  ASSUME Types, [Next]_vars
  PROVE  WorkerType'
<1> USE DEF Types, feedVars, managerVars
<1>0. Idle \in [at: {"idle", "decode", "push"}, kind: {"none", "over", "window"},
                generation: Nat, new: Nat, old: BOOLEAN] /\ Idle.at = "idle"
  BY DEF Idle
<1>1. CASE ClearText
  BY <1>1, Lengths DEF ClearText, WorkerType
<1>2. CASE StartRing \/ StopRing \/ ClearRing
  BY <1>2 DEF StartRing, StopRing, ClearRing, Reset, WorkerType
<1>3. CASE TakeSegment
  BY <1>3 DEF TakeSegment, WorkerType, Idle, Entries
<1>4. CASE TakeWindow
  <2>1. ring.generation \in Nat /\ ring.head - ring.committed \in Nat
    BY DEF RingType
  <2> QED
    BY <1>4, <2>1 DEF TakeWindow, WorkerType, Idle, Entries
<1>5. ASSUME NEW left \in BOOLEAN, WindowText(left) PROVE WorkerType'
  BY <1>0, <1>5 DEF WindowText, WorkerType, Done
<1>6. CASE OverText
  BY <1>6 DEF OverText, WorkerType
<1>7. CASE WindowEmpty \/ Nothing
  BY <1>0, <1>7 DEF WindowEmpty, Nothing, Done, WorkerType
<1>8. CASE PushEntry
  <2>1. worker.kind \in Entries /\ transcript \in Seq(Entries) /\ Len(transcript) <= TranscriptCap
    BY <1>8 DEF PushEntry, WorkerType
  <2>2. CASE Len(transcript) >= TranscriptCap
    <3>1. transcript # <<>> /\ Len(transcript) = TranscriptCap
      BY <2>1, <2>2, Lengths
    <3>2. Tail(transcript) \in Seq(Entries) /\ Len(Tail(transcript)) = TranscriptCap - 1
      BY <2>1, <3>1
    <3>3. transcript' = Append(Tail(transcript), worker.kind)
      BY <1>8, <2>2 DEF PushEntry, Pushed
    <3> QED
      BY <1>0, <1>8, <2>1, <3>2, <3>3, Lengths DEF PushEntry, Done, WorkerType
  <2>3. CASE ~(Len(transcript) >= TranscriptCap)
    <3>1. transcript' = Append(transcript, worker.kind)
      BY <1>8, <2>3 DEF PushEntry, Pushed
    <3> QED
      BY <1>0, <1>8, <2>1, <2>3, <3>1, Lengths DEF PushEntry, Done, WorkerType
  <2> QED
    BY <2>2, <2>3
<1>9. CASE UNCHANGED <<worker, transcript>>
  BY <1>9 DEF WorkerType
<1> QED
  BY <1>1, <1>2, <1>3, <1>4, <1>5, <1>6, <1>7, <1>8, <1>9
  DEF Next, Manager, Feed, Clear, Work, StartFlag, StartRing, StopFlag, StopRing, StopTake,
      ThreadEnds, FeedLooks, FeedRing, FeedOpen, FeedClosed, ClearSeg, vars

\* The manager, the threads and a clear keep their types.
LEMMA ManagerTypeNext ==
  ASSUME Types, [Next]_vars
  PROVE  ManagerType'
<1> USE PlanParts, Lengths DEF Types, feedVars, managerVars, ManagerType
<1>1. ASSUME NEW on \in BOOLEAN, StartFlag(on) PROVE ManagerType'
  BY <1>1 DEF StartFlag
<1>2. CASE StartRing
  <2>1. runs + 1 \in 0..plan.runs /\ runs + 1 \in Runs /\ runs + 1 \in 0..MaxRuns
        /\ 1..runs \ live \subseteq Runs
    BY <1>2 DEF StartRing, Runs
  <2> QED
    BY <1>2, <2>1 DEF StartRing
<1>3. CASE StopFlag \/ StopRing
  BY <1>3 DEF StopFlag, StopRing
<1>8. CASE StopTake
  <2>1. 0 \in 0..MaxRuns
    OBVIOUS
  <2> QED
    BY <1>8, <2>1 DEF StopTake
<1>4. ASSUME NEW t \in Runs, Feed(t) \/ ThreadEnds(t) PROVE ManagerType'
  BY <1>4 DEF Feed, FeedLooks, FeedRing, FeedOpen, FeedClosed, ThreadEnds, Fed
<1>5. CASE Clear
  <2>1. CASE ClearText
    <3>1. clears + 1 \in 0..plan.clears
      BY <2>1 DEF ClearText
    <3> QED
      BY <2>1, <3>1 DEF ClearText
  <2>2. CASE ClearSeg \/ ClearRing
    BY <2>2 DEF ClearSeg, ClearRing
  <2> QED
    BY <1>5, <2>1, <2>2 DEF Clear
<1>6. CASE Work
  BY <1>6 DEF Work, TakeSegment, TakeWindow, WindowText, WindowEmpty, OverText, Nothing, PushEntry
<1>7. CASE UNCHANGED vars
  BY <1>7 DEF vars
<1> QED
  BY <1>1, <1>2, <1>3, <1>4, <1>5, <1>6, <1>7, <1>8 DEF Next, Manager

\* Every variable has its type in every behaviour.
LEMMA TypesHold == Spec => []Types
<1>1. Types /\ [Next]_vars => Types'
  BY RingTypeNext, SegTypeNext, WorkerTypeNext, ManagerTypeNext DEF Types
<1> QED
  BY <1>1, TypesInit, PTL DEF Spec

\* Every variable has its type in every behaviour.
THEOREM VoiceType == Spec => []TypeOK
<1>1. Types => TypeOK
  <2> SUFFICES ASSUME Types PROVE TypeOK
    OBVIOUS
  <2>1. seg \in [len: 0..MaxSeg, closed: 0..Hang]
    BY Lengths DEF Types, SegType
  <2> QED
    BY <2>1 DEF Types, RingType, SegType, WorkerType, ManagerType, TypeOK
<1> QED
  BY <1>1, TypesHold, PTL

-----------------------------------------------------------------------------
(* What was heard *)

\* Nothing before the end of the last window is unread and unreported, and the next
\* window begins no later, unless a retry has moved on.
HeardInv == ~forward => unheard = {} /\ ring.committed <= upto

\* Every step keeps it; a window reads or reports everything from its lead on.
LEMMA HeardNext ==
  ASSUME Types, HeardInv, [Next]_vars
  PROVE  HeardInv'
<1> USE DEF HeardInv, feedVars, managerVars
<1>0. /\ ring.head \in Nat /\ ring.committed \in Nat /\ ring.len \in Nat /\ upto \in Nat
      /\ ring.len <= ring.head /\ unheard \subseteq Nat /\ forward \in BOOLEAN
      /\ worker.new \in Nat
  BY Lengths DEF Types, RingType, WorkerType
<1>1. CASE StartRing \/ StopRing \/ ClearRing
  BY <1>1 DEF StartRing, StopRing, ClearRing, Reset
<1>2. ASSUME NEW t \in Runs, FeedRing(t) PROVE HeardInv'
  BY <1>2 DEF FeedRing, PushFrame, Types, RingType
<1>3. CASE TakeWindow
  <2>1. ring'.committed = Monus(ring.head, Guard)
    BY <1>3 DEF TakeWindow, Types, RingType
  <2>2. forward' = forward /\ upto' = ring.head
    BY <1>3 DEF TakeWindow, Heard
  <2>3. Monus(ring.head, Guard) <= ring.head
    BY <1>0, Lengths DEF Monus
  <2>4. ASSUME ~forward, NEW i \in unheard' PROVE FALSE
    <3> DEFINE w == WindowStart
    <3>1. /\ i \in upto..(ring.head - 1)
          /\ ~(i \in w.start..(ring.head - 1) /\ i \in Oldest..(ring.head - 1))
          /\ i \notin w.from..(w.start - 1)
      BY <1>3, <2>4 DEF TakeWindow, Heard, Read
    <3>2. w.from \in Nat /\ w.from <= upto
      BY <1>0, <2>4, Lengths DEF WindowStart, Monus
    <3>3. w.start \in Nat /\ Oldest <= w.start /\ Oldest \in Nat
      BY <1>0, Lengths DEF WindowStart, Monus, Larger, Oldest
    <3> HIDE DEF w
    <3> QED
      BY <1>0, <3>1, <3>2, <3>3
  <2> QED
    BY <2>1, <2>2, <2>3, <2>4
<1>4. CASE WindowEmpty
  <2>1. UNCHANGED <<unheard, upto>> /\ forward' = (forward \/ ring'.committed > ring.committed)
    BY <1>4 DEF WindowEmpty
  <2>2. ring'.committed \in Nat
    BY RingTypeNext DEF RingType
  <2>3. ASSUME ~forward' PROVE ~forward /\ ~(ring'.committed > ring.committed)
    BY <2>1, <2>3
  <2>4. ASSUME ~forward' PROVE unheard' = {} /\ ring'.committed <= upto'
    BY <1>0, <2>1, <2>2, <2>3, <2>4
  <2> QED
    BY <2>4
<1>5. ASSUME NEW left \in BOOLEAN, WindowText(left) PROVE HeardInv'
  BY <1>5 DEF WindowText, Types, RingType
<1>6. CASE UNCHANGED <<ring, upto, unheard, forward>>
  BY <1>6
<1> QED
  BY <1>1, <1>2, <1>3, <1>4, <1>5, <1>6
  DEF Next, Manager, Feed, Clear, Work, StartFlag, StopFlag, StopTake, ThreadEnds, FeedLooks,
      FeedOpen, FeedClosed, ClearText, ClearSeg, TakeSegment, OverText, Nothing, PushEntry, vars

\* However far the decoder falls behind, a frame of the ring is read by some window or is
\* counted as skipped, unless retry_empty has moved on (take_window).
THEOREM NoSilentLoss == Spec => []LossIsCounted
<1>1. Init => HeardInv
  BY DEF Init, HeardInv
<1>2. HeardInv => LossIsCounted
  BY DEF HeardInv, LossIsCounted
<1> QED
  BY <1>1, <1>2, HeardNext, TypesHold, PTL DEF Spec

-----------------------------------------------------------------------------
(* Windows and clears *)

\* A window that is being decoded is of a ring there was, and if a clear has finished or a
\* mode was switched since, of an earlier one.
WindowInv ==
    /\ worker.at = "decode" /\ worker.kind = "window" => worker.generation <= ring.generation
    /\ worker.at = "decode" /\ worker.kind = "window" /\ worker.old =>
         worker.generation < ring.generation
    /\ NoOldWindow

\* Every step keeps it; the worker compares the two before it appends.
LEMMA WindowNext ==
  ASSUME Types, WindowInv, [Next]_vars
  PROVE  WindowInv'
<1> USE DEF WindowInv, NoOldWindow, feedVars, managerVars, Idle, Done
<1>0. ring.generation \in Nat /\ worker.generation \in Nat
  BY DEF Types, RingType, WorkerType
<1>1. CASE StartRing \/ StopRing \/ ClearRing
  BY <1>0, <1>1 DEF StartRing, StopRing, ClearRing, Reset, Types, WorkerType
<1>3. ASSUME NEW t \in Runs, FeedRing(t) PROVE WindowInv'
  BY <1>3 DEF FeedRing, PushFrame, Types, RingType
<1>4. CASE TakeWindow
  BY <1>0, <1>4 DEF TakeWindow, Types, RingType
<1>5. CASE TakeSegment \/ WindowEmpty \/ Nothing \/ PushEntry
  <2>1. CASE TakeSegment
    <3>1. worker'.kind = "over"
      BY <2>1 DEF TakeSegment
    <3> QED
      BY <3>1
  <2>2. CASE WindowEmpty \/ Nothing \/ PushEntry
    <3>1. worker'.at = "idle"
      BY <2>2 DEF WindowEmpty, Nothing, PushEntry
    <3> QED
      BY <3>1
  <2> QED
    BY <1>5, <2>1, <2>2
<1>6. ASSUME NEW left \in BOOLEAN, WindowText(left) PROVE WindowInv'
  BY <1>0, <1>6 DEF WindowText, SameRing, Types, WorkerType
<1>7. CASE OverText
  BY <1>7 DEF OverText, Types, WorkerType
<1>8. CASE UNCHANGED <<ring, worker>>
  BY <1>8
<1> QED
  BY <1>1, <1>3, <1>4, <1>5, <1>6, <1>7, <1>8
  DEF Next, Manager, Feed, Clear, Work, StartFlag, StopFlag, StopTake, ThreadEnds, FeedLooks,
      FeedOpen, FeedClosed, ClearText, ClearSeg, vars

\* A window that was being decoded when a clear finished or a mode was switched is not
\* appended (stt::worker).
THEOREM WindowsAreNew == Spec => []NoOldWindow
<1>1. Init => WindowInv
  BY DEF Init, WindowInv, NoOldWindow, Idle
<1>2. WindowInv => NoOldWindow
  BY DEF WindowInv
<1> QED
  BY <1>1, <1>2, WindowNext, TypesHold, PTL DEF Spec

-----------------------------------------------------------------------------
(* Whose audio is in the ring *)

\* Threads that had ended feed no more.
OwnInv ==
    /\ live \subseteq 1..runs /\ joined \subseteq 1..runs /\ live \cap joined = {}
    /\ \A t \in Runs : dest[t] # "none" => t \in live
    /\ RingOwn

\* Every step keeps it.
LEMMA OwnNext ==
  ASSUME Types, OwnInv, [Next]_vars
  PROVE  OwnInv'
<1> USE DEF OwnInv, RingOwn, feedVars, managerVars
<1>0. runs \in Nat /\ dest \in [Runs -> {"none", "ring", "seg"}]
  BY PlanParts DEF Types, ManagerType
<1>1. CASE StartRing
  BY <1>0, <1>1 DEF StartRing, Reset
<1>2. CASE StopRing \/ ClearRing
  BY <1>2 DEF StopRing, ClearRing, Reset
<1>3. ASSUME NEW t \in Runs, FeedRing(t) PROVE OwnInv'
  <2>1. ring'.active = ring.active /\ ring'.of = ring.of \cup {t} /\ t \in live
    BY <1>3 DEF FeedRing, PushFrame, Types, RingType
  <2>2. \A u \in Runs : dest'[u] # "none" => u \in live
    BY <1>0, <1>3 DEF FeedRing, Fed
  <2> QED
    BY <1>3, <2>1, <2>2 DEF FeedRing
<1>4. ASSUME NEW t \in Runs, FeedLooks(t) \/ FeedOpen(t) \/ FeedClosed(t) \/ ThreadEnds(t)
      PROVE  OwnInv'
  <2>1. \A u \in Runs : dest'[u] # "none" => u \in live'
    BY <1>0, <1>4 DEF FeedLooks, FeedOpen, FeedClosed, ThreadEnds, Fed
  <2>2. UNCHANGED <<ring, runs, joined>> /\ live' \subseteq live
    BY <1>4 DEF FeedLooks, FeedOpen, FeedClosed, ThreadEnds
  <2> QED
    BY <2>1, <2>2
<1>5. CASE WindowEmpty \/ TakeWindow
  <2>1. ring'.active = ring.active /\ ring'.of = ring.of
    BY <1>5 DEF WindowEmpty, TakeWindow, Types, RingType
  <2> QED
    BY <1>5, <2>1 DEF WindowEmpty, TakeWindow
<1>6. ASSUME NEW left \in BOOLEAN, WindowText(left) PROVE OwnInv'
  BY <1>6 DEF WindowText, Types, RingType
<1>7. CASE UNCHANGED <<ring, runs, joined, live, dest>>
  BY <1>7
<1> QED
  BY <1>1, <1>2, <1>3, <1>4, <1>5, <1>6, <1>7
  DEF Next, Manager, Feed, Clear, Work, StartFlag, StopFlag, StopTake, ClearText, ClearSeg,
      TakeSegment, OverText, Nothing, PushEntry, vars

\* The ring of a continuous mode has no audio of a pipeline that had ended when the mode was
\* switched on (stt_feed, set_continuous).
THEOREM RingIsOwn == Spec => []RingOwn
<1>1. Init => OwnInv
  BY DEF Init, OwnInv, RingOwn
<1>2. OwnInv => RingOwn
  BY DEF OwnInv
<1> QED
  BY <1>1, <1>2, OwnNext, TypesHold, PTL DEF Spec

=============================================================================
