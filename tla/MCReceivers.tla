----------------------------- MODULE MCReceivers -----------------------------
(***************************************************************************)
(* What the receivers hear when TLC checks them.                               *)
(***************************************************************************)
EXTENDS Receivers

-----------------------------------------------------------------------------
(* Pictures *)

Tone(hz) == [hz |-> hz, of |-> Black]
Ticks(hz, n) == [i \in 1..n |-> Tone(hz)]

\* A picture of one row to a line, one of two, and one of another geometry.
One  == [code |-> {0},    line |-> 3, rows |-> 2, per |-> 1]
Pair == [code |-> {1},    line |-> 4, rows |-> 2, per |-> 2]
Tall == [code |-> {},     line |-> 3, rows |-> 3, per |-> 1]
MCModes == {One, Pair, Tall}

Bits(code) ==
    LET Data(i) == Ticks(IF i \in code THEN "one" ELSE "zero", Bit)
        parity  == Ticks(IF Cardinality(code) % 2 = 1 THEN "one" ELSE "zero", Bit)
    IN Data(0) \o Data(1) \o parity

Lines(n, m) ==
    FoldLeft(LAMBDA tones, k : tones \o Ticks("sync", 1)
               \o [i \in 1..m.line - 1 |-> [hz |-> "data", of |-> <<n, k>>]],
             <<>>, [k \in 1..m.rows \div m.per |-> k - 1])

\* Leader, break, leader, start bit, code, stop bit, lines.
Header(code) == Ticks("leader", LeaderMin) \o Ticks("sync", 1) \o Ticks("leader", LeaderMin)
                  \o Ticks("sync", Bit) \o Bits(code) \o Ticks("sync", Bit)
Picture(n, m) == Header(m.code) \o Lines(n, m)
Quiet(n) == Ticks("quiet", n)
Sent(start, m) == [start |-> start, bits |-> start + 2 * LeaderMin + 1 + Bit, mode |-> m]

Alone(before, m) ==
    [tones |-> before \o Picture(1, m) \o Quiet(Margin + 1),
     pictures |-> <<Sent(Len(before), m)>>]
Both(m, gap, k) ==
    [tones |-> Quiet(1) \o Picture(1, m) \o Quiet(gap) \o Picture(2, k) \o Quiet(Margin + 1),
     pictures |-> <<Sent(1, m), Sent(1 + Len(Picture(1, m)) + gap, k)>>]

\* Pictures one after the other with and without a gap, of the same geometry and not; a
\* header of an unknown code before one; a long tone before one.
MCScripts == {Both(One, 0, Pair), Both(Pair, 2, One), Both(One, 1, Tall),
              Alone(Header({0, 1}) \o Quiet(2), Tall),
              Alone(Ticks("leader", LeaderMin) \o Ticks("sync", Hold + 3) \o Quiet(1), One)}
MCForced == {NoMode, One, Pair}

-----------------------------------------------------------------------------
(* Passes *)

\* Four lines on the air from any phase on, each a word longer or shorter than it should
\* be or not, from the start or after so much noise, and noise after them.
Starts(first, drift) ==
    [k \in 1..4 |-> first + (k - 1) * Width + FoldLeft(+, 0, SubSeq(drift, 1, k - 1))]
MCPasses ==
    { LET start == Starts(first, drift)
      IN [syncs |-> {start[k] : k \in 1..4}, clear |-> noise, length |-> start[4] + 2 * Width] :
        first \in 0..Width - 1, drift \in [1..3 -> -Radius..Radius], noise \in {0, Width + 2} }

-----------------------------------------------------------------------------
(* Squitters *)

Squitter(from, len, ok) == [at |-> from, len |-> len, ok |-> ok]

\* Frames one after the other, a short one before a long one and the other way round,
\* a broken one that another follows or overlaps, with as much silence before them.
MCAirs ==
    { [frames |-> {Squitter(gap + f.at, f.len, f.ok) : f \in fs}, length |-> gap + 24] :
        gap \in 0..3,
        fs \in {{Squitter(0, 4, TRUE), Squitter(6, 2, TRUE), Squitter(10, 4, TRUE)},
                {Squitter(0, 2, TRUE), Squitter(4, 2, TRUE), Squitter(12, 4, TRUE)},
                {Squitter(0, 4, FALSE), Squitter(3, 2, TRUE), Squitter(9, 4, TRUE)}} }

-----------------------------------------------------------------------------
(* Packets *)

Wire(g, n, l, t, s, f) == [gap |-> g, gapBits |-> n, lead |-> l, tail |-> t, shared |-> s, frames |-> f]

\* Noise long enough for a false flag, the start of a frame and an abort; silence or
\* training between two bursts; flags in a row and shared ones.
MCWires == {Wire("noise", 12, 1, 1, FALSE, 1), Wire("noise", 0, 2, 1, TRUE, 2),
            Wire("idle", 3, 1, 2, FALSE, 2), Wire("idle", 8, 1, 1, FALSE, 2),
            Wire("training", 6, 1, 1, FALSE, 2), Wire("idle", 0, 3, 5, TRUE, 2)}

-----------------------------------------------------------------------------
(* Tracks *)

Plan(k, r, f, v, s, n, m) ==
    [kind |-> k, ref |-> r, from |-> f, speed |-> v, secs |-> s, starts |-> n, frames |-> m]

\* Crafts that come into range, leave it, cross the equator or stand, over a run longer
\* than every age; two pipelines in a row.
MCPlans ==
    {Plan(k, r, f, v, 6, 1, 1) : k \in {"adsb", "ais", "aprs"}, r \in BOOLEAN,
                                 f \in {-9, -1, 4}, v \in {-1, 1}} \cup
    {Plan("adsb", r, f, v, 3, 1, 3) : r \in BOOLEAN, f \in {-7, -1, 4, 8}, v \in {-1, 0, 1}} \cup
    {Plan(k, TRUE, 4, 1, 2, 2, 2) : k \in {"adsb", "ais", "aprs"}}
=============================================================================
