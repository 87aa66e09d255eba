-------------------------------- MODULE Hdlc --------------------------------
(***************************************************************************)
(* The framing of AIS and APRS on the air: the sender of aprs/tx.rs (flags,    *)
(* bit stuffing, NRZI) and, side by side on the same wire, the receivers of    *)
(* aprs/demod.rs and ais/demod.rs, one bit a step.                             *)
(*                                                                             *)
(* A frame is a sequence of bits with its check sequence in it, which accepts   *)
(* what was sent and nothing else; octets and the radio below are left out.     *)
(* What is on the wire between the frames is the plan's to say.                 *)
(***************************************************************************)
EXTENDS Naturals, Sequences

CONSTANTS Plans,              \* what a run sends, see PlanType
          MinBits, MaxBits,   \* the lengths of a frame
          GapBits             \* the longest gap

LengthAssumption == MinBits \in Nat \ {0} /\ MaxBits \in Nat /\ MinBits <= MaxBits

VARIABLES plan,
          phase,    \* what the sender is at: "gap", "lead", "data", "tail"
          bit,      \* how many bits of the gap or the flag were sent
          flags,    \* how many flags are to follow
          payload,  \* the frame, as far as it was sent
          ones,     \* the sender's run of ones
          level,    \* of the wire
          rx,       \* the receivers
          sent, got \* frames sent, and received by each

vars == <<plan, phase, bit, flags, payload, ones, level, rx, sent, got>>

\* What the wire carries in a gap (noise, ones, or the training 0101...), the flags
\* before and after a frame, whether a flag may serve two frames, and the frames.
PlanType == [gap: {"noise", "idle", "training"}, gapBits: 0..GapBits, lead: Nat \ {0},
             tail: Nat \ {0}, shared: BOOLEAN, frames: Nat]

\* What no receiver of this framing could tell from a frame is not sent.  The first bit
\* that is heard is mistaken, so a gap or a second flag comes first.  Noise is not a whole
\* frame again.  Silence does not look like a flag when a single one follows: six ones
\* after a zero, or seven of which the first is mistaken.
PlansAssumption ==
    /\ Plans \subseteq PlanType
    /\ \A p \in Plans :
         /\ p.gapBits > 0 \/ p.lead > 1
         /\ p.gap = "noise" => p.frames <= 1 \/ p.gapBits < MinBits + 8
         /\ p.gap = "idle" /\ p.lead = 1 => p.gapBits \notin {6, 7}

Receivers == {"ais", "aprs"}
\* The receiver's window is a byte.
Rx == [level: BOOLEAN, window: 0..255, inFrame: BOOLEAN, ones: 0..7, bits: Seq(BOOLEAN)]

Init ==
    /\ plan \in Plans
    /\ phase = "gap" /\ bit = 0 /\ flags = 0 /\ payload = <<>> /\ ones = 0
    /\ level = TRUE
    /\ rx = [r \in Receivers |-> [level |-> FALSE, window |-> 0, inFrame |-> FALSE,
                                  ones |-> 0, bits |-> <<>>]]
    /\ sent = 0 /\ got = [r \in Receivers |-> 0]

-----------------------------------------------------------------------------
(* Receivers: each takes a bit and gives its next state and a frame or none *)

Flag == 126    \* 0x7E
NoFrame == <<>>
Result(state, frame) == [state |-> state, frame |-> frame]
Cut(bits, n) == SubSeq(bits, 1, IF Len(bits) > n THEN Len(bits) - n ELSE 0)

\* The 0 and the six 1s of a flag that were taken for data.
FlagTail(bits) == Cut(bits, 7)

\* A zero after five ones was put in by the sender.
Stuffed(s) == s.ones = 5

\* aprs: a flag ends the frame and begins the next.
AprsFlag(s) ==
    Result([s EXCEPT !.inFrame = TRUE, !.ones = 0, !.bits = <<>>],
           IF s.inFrame /\ Len(s.bits) >= 7 THEN FlagTail(s.bits) ELSE NoFrame)

AprsPush(s, b) ==
    IF s.window = Flag THEN AprsFlag(s)
    ELSE Result(IF ~s.inFrame THEN s
                ELSE IF b /\ s.ones + 1 >= 7 THEN [s EXCEPT !.ones = @ + 1, !.inFrame = FALSE, !.bits = <<>>]
                ELSE IF b THEN [s EXCEPT !.ones = @ + 1, !.bits = Append(@, TRUE)]
                ELSE IF Stuffed(s) THEN [s EXCEPT !.ones = 0]
                ELSE [s EXCEPT !.ones = 0, !.bits = Append(@, FALSE)],
                NoFrame)

\* ais: a flag ends the frame; the next one begins with a flag of its own.
AisPush(s, b) ==
    IF ~s.inFrame
    THEN Result(IF s.window = Flag THEN [s EXCEPT !.inFrame = TRUE, !.ones = 0, !.bits = <<>>] ELSE s,
                NoFrame)
    ELSE IF b THEN Result([s EXCEPT !.ones = @ + 1, !.bits = Append(@, TRUE),
                                    !.inFrame = s.ones + 1 < 7], NoFrame)
    ELSE IF Stuffed(s) THEN Result([s EXCEPT !.ones = 0], NoFrame)
    ELSE IF s.ones = 6 THEN Result([s EXCEPT !.inFrame = FALSE, !.bits = <<>>], FlagTail(s.bits))
    ELSE Result([s EXCEPT !.ones = 0, !.bits = Append(@, FALSE)], NoFrame)

\* NRZI: a level held is a one.  The window takes the bit before anything else.
Shifted(s, l) == [s EXCEPT !.level = l, !.window = (2 * @ + (IF l = s.level THEN 1 ELSE 0)) % 256]
Push(r, l) ==
    LET s == Shifted(rx[r], l)
        b == l = rx[r].level
    IN  IF r = "ais" THEN AisPush(s, b) ELSE AprsPush(s, b)

\* validate: long enough, and the check sequence is right.
Valid(frame) == Len(frame) >= MinBits /\ frame = payload

-----------------------------------------------------------------------------
(* Sender *)

\* A bit goes out: a zero changes the level.
Put(b) ==
    /\ level' = IF b THEN level ELSE ~level
    /\ rx' = [r \in Receivers |-> Push(r, level').state]
    /\ got' = [r \in Receivers |-> got[r] + (IF Valid(Push(r, level').frame) THEN 1 ELSE 0)]

GapBit ==
    /\ phase = "gap" /\ bit < plan.gapBits /\ sent < plan.frames
    /\ \E b \in BOOLEAN :
         /\ plan.gap = "idle" => b
         /\ plan.gap = "training" => b = (bit % 2 = 1)
         /\ Put(b)
    /\ bit' = bit + 1
    /\ UNCHANGED <<plan, phase, flags, payload, ones, sent>>

GapEnds ==
    /\ phase = "gap" /\ sent < plan.frames
    /\ IF plan.gap = "noise" THEN bit > 0 \/ plan.gapBits = 0 ELSE bit = plan.gapBits
    /\ phase' = "lead" /\ bit' = 0 /\ flags' = plan.lead /\ payload' = <<>>
    /\ UNCHANGED <<plan, ones, level, rx, sent, got>>

\* A flag, 01111110, and after the last one the data, a gap or, sharing the flag, data.
FlagBit ==
    /\ phase \in {"lead", "tail"} /\ flags > 0
    /\ Put(bit \notin {0, 7})
    /\ sent' = IF phase = "tail" /\ bit = 7 /\ flags = plan.tail THEN sent + 1 ELSE sent
    /\ IF bit < 7 THEN bit' = bit + 1 /\ UNCHANGED <<phase, flags>>
       ELSE /\ bit' = 0 /\ flags' = flags - 1
            /\ phase' = IF flags > 1 THEN phase ELSE IF phase = "lead" THEN "data" ELSE "gap"
    /\ ones' = 0
    /\ UNCHANGED <<plan, payload>>

\* The next frame begins with the flag that ended the last one.
ShareFlag ==
    /\ phase = "gap" /\ bit = 0 /\ plan.shared /\ 0 < sent /\ sent < plan.frames
    /\ phase' = "data" /\ payload' = <<>>
    /\ UNCHANGED <<plan, bit, flags, ones, level, rx, sent, got>>

\* Mutant of Stuff: six ones go through.
Stuff_AfterSix == ones = 6

\* After five ones the sender puts in a zero.
Stuff == ones = 5

DataBit ==
    /\ phase = "data" /\ ~Stuff /\ Len(payload) < MaxBits
    /\ \E b \in BOOLEAN :
         /\ Put(b)
         /\ payload' = Append(payload, b)
         /\ ones' = IF b THEN ones + 1 ELSE 0
    /\ UNCHANGED <<plan, phase, bit, flags, sent>>

StuffBit ==
    /\ phase = "data" /\ Stuff
    /\ Put(FALSE)
    /\ ones' = 0
    /\ UNCHANGED <<plan, phase, bit, flags, payload, sent>>

DataEnds ==
    /\ phase = "data" /\ ~Stuff /\ Len(payload) >= MinBits
    /\ phase' = "tail" /\ bit' = 0 /\ flags' = plan.tail
    /\ UNCHANGED <<plan, payload, ones, level, rx, sent, got>>

Next == GapBit \/ GapEnds \/ FlagBit \/ ShareFlag \/ DataBit \/ StuffBit \/ DataEnds

Spec == Init /\ [][Next]_vars

-----------------------------------------------------------------------------
(* Properties *)

\* The APRS receiver delivers every frame once and nothing else, whatever its bits,
\* however many flags there are, shared or not, and whatever noise it heard before.  The
\* AIS receiver does so for the bursts of the standard: training or silence, one flag,
\* the frame, one flag.
Standard == plan.gap # "noise" /\ plan.lead = 1 /\ plan.tail = 1 /\ ~plan.shared
FramesDelivered == got["aprs"] = sent /\ (Standard => got["ais"] = sent)

=============================================================================
