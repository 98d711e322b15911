------------------------------- MODULE MCConn -------------------------------
(* TLC instances of Conn.                                                   *)
EXTENDS Conn, TLC

CONSTANTS c1, c2

Two == {c1, c2}
Symmetry == Permutations(Two)
=============================================================================
