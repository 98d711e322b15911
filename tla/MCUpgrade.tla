----------------------------- MODULE MCUpgrade -----------------------------
(* TLC instances of Upgrade.                                                *)
EXTENDS Upgrade, TLC

CONSTANTS s1, s2

Sessions == {s1, s2}
Symmetry == Permutations(Sessions)
=============================================================================
