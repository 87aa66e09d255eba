------------------------------ MODULE MCFleet ------------------------------
(* An instance of Fleet for TLC. *)
EXTENDS Fleet, TLC

Base(c2, beast, ais, aprs, out, in) ==
    ("c2" :> c2) @@ ("beast" :> beast) @@ ("ais_nmea" :> ais) @@ ("aprs" :> aprs)
        @@ ("audio_out" :> out) @@ ("audio_in" :> in)
Plan(b, n, m, g) == [match |-> [r \in Radios |-> {r}], base |-> b, noRestart |-> n,
                     maxRestarts |-> m, graceful |-> g]

Apart == Base(2, 4, 6, 0, 8, 10)
\* Two radios; the flags; bases too near, which the preflight refuses; a base so high
\* that the second radio's port is no number any more; filters that match no SDR, two, or
\* the same.
MCPlans == {Plan(Apart, FALSE, 0, TRUE), Plan(Apart, FALSE, 1, FALSE), Plan(Apart, TRUE, 0, TRUE),
            Plan(Base(2, 3, 6, 0, 8, 10), FALSE, 0, TRUE), Plan(Base(15, 4, 6, 0, 8, 10), FALSE, 2, FALSE)}
           \cup {[Plan(Apart, FALSE, 0, TRUE) EXCEPT !.match = [r \in Radios |-> us]] : us \in SUBSET Units}
=============================================================================
