----------------------------- MODULE MCAnalysis -----------------------------
(* Instances of Analysis for TLC.  The waterfall and the recorder share nothing but the *)
(* pipeline thread: an instance has either viewers and rows, or requests and blocks.     *)
EXTENDS Analysis

VARIABLE focus

MCInit == Init /\ focus \in {"rows", "blocks"}

MCNext ==
    /\ UNCHANGED focus
    /\ \/ Call \/ Open \/ OpenFails \/ Ends
       \/ focus = "rows" /\ (Push \/ \E v \in Viewers : Poll(v))
       \/ focus = "blocks" /\ (Block \/ RecordStop \/ \E c \in Clients : Record(c))

MCSpec == MCInit /\ [][MCNext]_<<vars, focus>>
=============================================================================
