---------------------------- MODULE MCJobQueue ----------------------------
(* An instance of JobQueue small enough for TLC: two workers that can      *)
(* overlap on a batch of two jobs, each with two attempts.                 *)
EXTENDS JobQueue

CONSTANTS j1, j2, w1, w2
=============================================================================
