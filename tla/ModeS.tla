------------------------------- MODULE ModeS --------------------------------
(***************************************************************************)
(* The ADS-B demodulator (server/src/adsb/demod.rs): samples come in blocks, a *)
(* frame is looked for at every sample that a whole window follows, and the     *)
(* last samples are kept for a frame that the next block completes.             *)
(*                                                                             *)
(* Samples are numbered from the start of the pipeline.  `frames` is what is on  *)
(* the air: where a frame begins, how many samples its bits take, and whether it *)
(* passes the checksum.  Anywhere else the preamble or the checksum fails.  One  *)
(* action is one turn of the loop in process; a block is its first and its last. *)
(***************************************************************************)
EXTENDS Integers, Sequences, FiniteSets

CONSTANTS Preamble,             \* samples before the first bit (16)
          ShortLen, LongLen,    \* samples of 56 and of 112 bits
          Airs,                 \* [frames, length]: what is on the air
          MaxRead               \* bound of the model: samples in one block

LengthsAssumption ==
    /\ ShortLen \in Nat \ {0} /\ LongLen \in Nat /\ ShortLen < LongLen
    /\ Preamble \in Nat /\ MaxRead \in Nat

VARIABLES aired,
          mag,      \* the samples that are held
          at,       \* where the loop of process looks for a frame
          busy,     \* inside process()
          passed,   \* history: the frames handed on, by where they begin
          cut       \* history: the frames with whose window a block ended

vars == <<aired, mag, at, busy, passed, cut>>

Frames == [at: Nat, len: {ShortLen, LongLen}, ok: BOOLEAN]
Window == Preamble + LongLen

\* Two frames that pass the checksum do not share a sample; a broken one may be under
\* others.
Apart(f, g) == f.at + Preamble + f.len <= g.at \/ g.at + Preamble + g.len <= f.at
AirsAssumption ==
    \A a \in Airs : /\ a.frames \subseteq Frames
                    /\ \A f, g \in {h \in a.frames : h.ok} : f = g \/ Apart(f, g)

Init ==
    /\ aired \in Airs
    /\ mag = [from |-> 0, end |-> 0] /\ at = 0
    /\ busy = FALSE
    /\ passed = <<>> /\ cut = {}

\* preamble, the downlink format and ModeS::parse.
FrameAt(j) == {f \in aired.frames : f.at = j /\ f.ok}

\* A block comes.
Process ==
    /\ ~busy /\ busy' = TRUE
    /\ \E n \in 1..MaxRead : mag' = [mag EXCEPT !.end = @ + n]
    /\ mag'.end <= aired.length
    /\ UNCHANGED <<aired, at, passed, cut>>

\* A whole window is there.
WindowHeld == busy /\ at + Window <= mag.end

NoFrame ==
    /\ WindowHeld /\ FrameAt(at) = {}
    /\ at' = at + 1
    /\ UNCHANGED <<aired, mag, busy, passed, cut>>

\* Past a frame that was found.
PassFrame ==
    /\ WindowHeld
    /\ \E f \in FrameAt(at) : at' = at + Preamble + f.len
    /\ passed' = Append(passed, at)
    /\ UNCHANGED <<aired, mag, busy, cut>>

\* Mutant of Kept: the tail has no room for the preamble.
Kept_NoPreamble(held) == IF held < LongLen THEN held ELSE LongLen

\* The tail of a window's length.
Kept(held) == IF held < Window THEN held ELSE Window

\* The end of process; the next block is looked at from the tail on.
Drain ==
    /\ busy /\ ~WindowHeld /\ busy' = FALSE
    /\ mag' = [mag EXCEPT !.from = mag.end - Kept(mag.end - mag.from)]
    /\ at' = mag'.from
    /\ cut' = cut \cup {f.at : f \in {g \in aired.frames : g.at + Window = mag.end}}
    /\ UNCHANGED <<aired, passed>>

Next == Process \/ NoFrame \/ PassFrame \/ Drain

Spec == Init /\ [][Next]_vars

-----------------------------------------------------------------------------
(* Properties *)

Times(j) == Cardinality({i \in DOMAIN passed : passed[i] = j})

\* However the samples are cut into blocks, when a block is done every frame whose window
\* is there was handed on, in order, and once; a second time only when a block ended with
\* its window, all of which is kept.
TwiceOnlyAtCut ==
    /\ ~busy => \A f \in aired.frames : f.ok /\ f.at + Window <= mag.end =>
         Times(f.at) = IF f.at \in cut /\ f.at + Window < mag.end THEN 2 ELSE 1
    /\ \A i \in 1..Len(passed) - 1 : passed[i] <= passed[i + 1]
=============================================================================
