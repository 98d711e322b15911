------------------------------ MODULE MCFollow ------------------------------
(* TLC instance of Follow: with Cap and MaxReplay this small, resuming,     *)
(* long backlogs, gaps, dropped subscriptions and a second epoch all occur. *)
EXTENDS Follow

CONSTANTS c1, c2, jobs, turn

MCOne == {c1}
MCTwo == {c1, c2}
MCStateType == {jobs}
MCOtherType == {turn}
=============================================================================
