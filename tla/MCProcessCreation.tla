------------------------- MODULE MCProcessCreation -------------------------
(* Small instances of ProcessCreation for TLC.  The runs check liveness,   *)
(* so nothing is declared symmetric.                                       *)
EXTENDS ProcessCreation

=============================================================================
