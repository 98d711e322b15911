------------------------------ MODULE MCReuse ------------------------------
(* TLC instances of Reuse.                                                  *)
EXTENDS Reuse, TLC

CONSTANTS c1, c2, c3

Clients == {c1, c2, c3}
Symmetry == Permutations(Clients)
=============================================================================
