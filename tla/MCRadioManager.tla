--------------------------- MODULE MCRadioManager ---------------------------
(***************************************************************************)
(* Values for checking RadioManager.  Two modes are enough: a tone that     *)
(* needs no SDR, obeys no Retune and is not continuous, and an SDR mode      *)
(* that is all three; "frs" would differ from the tone only in obeying       *)
(* Retune, "adsb" from "nbfm" only in not obeying it.                        *)
(***************************************************************************)
EXTENDS RadioManager

CONSTANTS c1, c2, c3

\* Two users who start, stop, patch and apply a preset over each other.
ConfigCalls == (c1 :> {"start", "patch"}) @@ (c2 :> {"stop", "patch", "preset"})

\* One who starts, two who stop, one of whom also selects a device and records.
StopCalls == (c1 :> {"start"}) @@ (c2 :> {"stop"})
               @@ (c3 :> {"stop", "select", "record", "unrecord"})

\* A start, a PATCH and a stop: the shortest races.
RaceCalls == (c1 :> {"start", "patch"}) @@ (c2 :> {"stop"})

MCModes           == {"debug_tone", "nbfm"}
MCSdrModes        == {"nbfm"}
MCRetuneModes     == {"nbfm"}
MCContinuousModes == {"nbfm"}
MCAudioModes      == {"debug_tone", "nbfm"}
MCBootModes       == {"debug_tone", "nbfm"}
=============================================================================
