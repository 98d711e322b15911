------------------------------ MODULE MCTurns ------------------------------
(* TLC instances of Turns.                                                  *)
EXTENDS Turns

OneClient == {"user", "interrupt"}
Answers == {"user", "answer"}
=============================================================================
