----------------------------- MODULE MCRowLocks -----------------------------
(* Small instances of RowLocks for TLC. *)
EXTENDS RowLocks, TLC

CONSTANTS s1, s2, s3, c1, c2, o1

EveryKind == DOMAIN Programs
OwnerOfAll == [o \in Orders |-> c1]
BothProducts == [o \in Orders |-> Products]
Alike == Permutations(Sessions)
=============================================================================
