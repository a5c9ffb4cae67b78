---------------------------- MODULE MCHostLease ----------------------------
(* Small instances of HostLease for TLC.  The runs check liveness, so      *)
(* nothing is declared symmetric.                                          *)
EXTENDS HostLease
=============================================================================
