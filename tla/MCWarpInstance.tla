--------------------------- MODULE MCWarpInstance ---------------------------
(* Values for the runs of WarpInstance. *)
EXTENDS WarpInstance

CONSTANTS a, b, e

OneInst == {a}
TwoInst == {a, b}
TwoEgress == {Zero, e}

AllCommands == CmdKind
DrainOnly == {"Drain"}
StopReprobe == {"Reprobe", "Stop"}
DrainDisableOnly == {"Drain", "Disable"}
NoCommand == {}
OneEgress == {Zero}
NoConn == {}
OneConn == {e}
==============================================================================
