---------------------------- MODULE MCScheduler ----------------------------
(* TLC instances of Scheduler.                                              *)
EXTENDS Scheduler

AllKinds == {"once", "every", "self"}
FixedLoops == {"every"}
=============================================================================
