----------------------------- MODULE MCGateway -----------------------------
(* TLC instances of Gateway.                                                *)
EXTENDS Gateway, TLC

CONSTANTS e1, e2, r1, r2

Engines == {e1, e2}

Requests == {r1, r2}
=============================================================================
