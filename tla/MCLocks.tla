------------------------------ MODULE MCLocks ------------------------------
(* TLC instances of Locks.                                                  *)
EXTENDS Locks, TLC

CONSTANTS t1, t2

Two == {t1, t2}
Symmetry == Permutations(Two)
=============================================================================
