------------------------------ MODULE MCVoice ------------------------------
(* Instances of Voice for TLC. *)
EXTENDS Voice

Plan(modes, c, h, r, s) == [modes |-> modes, clears |-> c, head |-> h, runs |-> r, stops |-> s]

\* A decoder that falls behind; clears; a station change; a mode change;
\* push-to-talk.
MCPlans == {Plan({TRUE}, 0, 14, 1, FALSE), Plan({TRUE}, 2, 6, 1, FALSE),
            Plan({TRUE}, 0, 3, 2, TRUE), Plan({TRUE, FALSE}, 0, 1, 2, TRUE),
            Plan({FALSE}, 2, 0, 1, FALSE)}
=============================================================================
