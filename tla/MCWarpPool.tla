----------------------------- MODULE MCWarpPool -----------------------------
(* Values for the runs of WarpPool. *)
EXTENDS WarpPool, TLC

CONSTANTS k1, k2

Insts1 == {0}
Insts2 == {0, 1}
OneKey == {k1}
TwoKeys == {k1, k2}
OneKeyEgress == {Zero, k1}
TwoKeysEgress == {Zero, Unkeyed, k1, k2}
KeySwap == Permutations({k1, k2})
NoCalls == {}
JustThree == {3}
ExemptEgress == {Zero, Unkeyed}
JustOne == {1}
==============================================================================
