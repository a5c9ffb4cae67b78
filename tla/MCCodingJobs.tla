---------------------------- MODULE MCCodingJobs ----------------------------
(* A small instance of CodingJobs for TLC: two jobs that name the same     *)
(* operation, and one that names none, in one workspace.                   *)
EXTENDS CodingJobs

MCPlace == [j \in Job |-> "w"]
MCOperation == [j \in Job |-> IF j = 2 THEN None ELSE "o"]
=============================================================================
