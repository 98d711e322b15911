------------------------------- MODULE MCJobs -------------------------------
(* TLC instance of Jobs.                                                    *)
EXTENDS Jobs

CONSTANTS j1, j2

Two == {j1, j2}
=============================================================================
