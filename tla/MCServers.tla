----------------------------- MODULE MCServers -----------------------------
(* TLC instances of Servers.                                                *)
EXTENDS Servers, TLC

CONSTANTS s1, o1, loop

One == {s1}
OneOp == {o1}
=============================================================================
