----------------------------- MODULE MCDataRing -----------------------------
(* A small data ring for TLC: more time stamps than slots, so that the     *)
(* ring is full, its packets lie across the end of the array, and it is    *)
(* inserted into on both sides of it.                                      *)
EXTENDS DataRing, TLC

CONSTANTS MaxTime  (* the last time stamp of the model *)

MCTimes == 1 .. MaxTime

(* No operation looks at the content of a packet.                          *)
ImageSymmetry == Permutations(Images)
=============================================================================
