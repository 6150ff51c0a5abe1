-------------------------- MODULE MCSignalHistory --------------------------
(* SignalHistory for TLC.  A second has 3 nanoseconds and an int ends at 7, so *)
(* that 2 seconds fit an int in nanoseconds and 3 do not, as in the code.      *)
EXTENDS SignalHistory

CONSTANTS text, null, error, absent, meta   \* model values

MCTime      == {1, 4, 7, 13}
MCNumber    == {-1, 2}
MCRetention == {-2, -1, 0, 1, 7}
MCFrequency == {15}
MCUnit      == {"km"}
MCMetadata  == {meta}
MCSeconds   == {-1, 1, 2, 3}
=============================================================================
