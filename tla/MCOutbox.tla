------------------------------ MODULE MCOutbox ------------------------------
(* Small instances of Outbox for TLC. *)
EXTENDS Outbox, TLC

CONSTANTS o1, a1, a2, w1, w2, h1, h2

Alike == Permutations(Admins) \cup Permutations(Workers) \cup Permutations(Handlers)
=============================================================================
