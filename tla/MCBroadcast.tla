---------------------------- MODULE MCBroadcast ----------------------------
(* Small instances of Broadcast for TLC. *)
EXTENDS Broadcast

CONSTANTS b1, u1, u2, k1, w1, w2
=============================================================================
