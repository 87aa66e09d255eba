----------------------------- MODULE Receivers ------------------------------
(***************************************************************************)
(* The receivers of one pipeline thread (the run_* loops of radio/mod.rs): a    *)
(* pipeline runs one of them, pictures (Sstv), weather satellites (Apt),        *)
(* squitters (ModeS), packets (Hdlc) or a table of tracks (Tracks).  What the    *)
(* others would hold stays as it was.                                           *)
(***************************************************************************)
EXTENDS Sstv

CONSTANTS Width, SyncLen, Radius, MaxLines, None, Passes,
          Preamble, ShortLen, LongLen, MaxRead, Airs,
          MinBits, MaxBits, GapBits, Wires,
          Crafts, World, EvenZones, OddZones, MaxRange, PairAge, LocalAge, Gate,
          TrailSecs, Forget, Reach, Horizon, Restarts, NoTrack, Plans

VARIABLES receiver,
          pass, words, next, draining, image, total,
          aired, mag, at, decoding, passed, cut,
          wire, phase, bit, flags, payload, ones, level, rx, frames, got,
          plan, now, place, sent, on, starts, tracks, heard

A == INSTANCE Apt WITH busy <- draining
M == INSTANCE ModeS WITH busy <- decoding
H == INSTANCE Hdlc WITH Plans <- Wires, plan <- wire, sent <- frames
T == INSTANCE Tracks

ASSUME ReceiversAssumption ==
    /\ VisAssumption /\ ScriptsAssumption
    /\ A!WordsAssumption /\ A!PassesAssumption
    /\ M!LengthsAssumption /\ M!AirsAssumption
    /\ H!LengthAssumption /\ H!PlansAssumption
    /\ T!WorldAssumption /\ T!PlansAssumption /\ T!ReachAssumption

\* What only the receiver r is free to choose.
Only(r, S) == IF receiver = r THEN S ELSE {CHOOSE x \in S : TRUE}

ReceiversInit ==
    /\ receiver \in {"sstv", "apt", "squitter", "packet", "tracks"}
    /\ script \in Only("sstv", Scripts) /\ manual \in Only("sstv", Forced)
    /\ pass \in Only("apt", Passes)
    /\ aired \in Only("squitter", Airs)
    /\ wire \in Only("packet", Wires)
    /\ plan \in Only("tracks", Plans)
    /\ Init /\ A!Init /\ M!Init /\ H!Init /\ T!Init

apt    == <<pass, words, next, draining, image, total>>
squit  == <<aired, mag, at, decoding, passed, cut>>
packet == <<wire, phase, bit, flags, payload, ones, level, rx, frames, got>>
air    == <<plan, now, place, sent, on, starts, tracks, heard>>
all    == <<receiver, vars, apt, squit, packet, air>>

\* Only one of them is given samples.
ReceiversNext ==
    /\ UNCHANGED receiver
    /\ \/ receiver = "sstv" /\ Next /\ UNCHANGED <<apt, squit, packet, air>>
       \/ receiver = "apt" /\ A!Next /\ UNCHANGED <<vars, squit, packet, air>>
       \/ receiver = "squitter" /\ M!Next /\ UNCHANGED <<vars, apt, packet, air>>
       \/ receiver = "packet" /\ H!Next /\ UNCHANGED <<vars, apt, squit, air>>
       \/ receiver = "tracks" /\ T!Next /\ UNCHANGED <<vars, apt, squit, packet>>

ReceiversSpec == ReceiversInit /\ [][ReceiversNext]_all

\* The properties of the others; those of Sstv are this module's own.
\* Once framed, every row is the satellite's next line (AptDemod::drain_lines).
LinesFollow == A!LinesFollow

\* However the samples are cut, a frame is handed on once, or twice when a block ends with
\* its window (Demod::process).
TwiceOnlyAtCut == M!TwiceOnlyAtCut

\* Packets are delivered, whatever their bits and what is between them (Hdlc::push).
FramesDelivered == H!FramesDelivered

\* No position is shown that was not the craft's, but for strays (Tracker::update_position).
FixIsTrue == T!FixIsTrue

\* No position is shown that was not the craft's (decode_local and its reference).
ReferenceIsNear == T!ReferenceIsNear

\* A read shows what was heard lately, where it was then (Tracker::snapshot).
ShownIsCurrent == T!ShownIsCurrent
=============================================================================
