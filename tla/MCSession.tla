----------------------------- MODULE MCSession -----------------------------
(* TLC instances of Session: which operations run is chosen per cfg.        *)
EXTENDS Session, TLC

CONSTANTS t1, t2

Two == {t1, t2}

=============================================================================
