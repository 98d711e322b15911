------------------------------ MODULE MCAgents ------------------------------
(* TLC instance of Agents.                                                  *)
EXTENDS Agents, TLC

CONSTANTS n1, n2

Nodes == {n1, n2}
Symmetry == Permutations(Nodes)
=============================================================================
